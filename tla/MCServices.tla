----------------------------- MODULE MCServices -----------------------------
(***************************************************************************)
(* The services around a trade, and the pages of the clients, for TLC.     *)
(* They touch each other by messages only, which each module takes as its  *)
(* input, so a behaviour is about one of them: a stretch of its life with  *)
(* the operations of that stretch.  Every step is a step of its module,    *)
(* and the initial states are states that module reaches at rest.          *)
(* Most components have variables of their own here; whichever of the      *)
(* others (the pages of a trade) the stretch is about keeps its variables  *)
(* in the cells.                                                           *)
(***************************************************************************)
EXTENDS OfferPage, ListingPage, DisputePage, Certificates, Conversations,
        Reputation, Profiles, Moderation, ListingForm, Session, TLC

CONSTANTS x, y, o1, o2, h1, h2, t1, t2, t3, t4, u1, u2, u3

VARIABLES stretch, c1, c2, c3, c4, c5, c6, c7

goodsVars == <<vars, listingsVars>>
userVars ==
  <<conversationVars, reputationVars, profileVars, moderationVars, sessionVars>>
cells == <<c1, c2, c3, c4, c5, c6, c7>>
pageVars == <<formVars, cells>>

Execution == {h1, h2}
Symmetry == Permutations(Execution)

MCBrowserOf == [a |-> "b1", b |-> "b1", c |-> "b2"]
MCFirst(o) == IF o = o1 THEN x ELSE y
MCSecond(o) == IF o = o1 THEN y ELSE x

From5 == c5 = 0 /\ c6 = 0 /\ c7 = 0
From1 == c1 = 0 /\ c2 = 0 /\ c3 = 0 /\ c4 = 0 /\ From5

----------------------------------------------------------------------------
(* Market: offers and their answers; and, from accepted offers, the locks. *)

OffersNext ==
  \/ \E o \in Offer : MakeOffer(o)
  \/ \E c \in Clerk, o \in Offer, answer \in Answer : Reply(c, o, answer)
  \/ \E c \in Clerk : SaveReply(c) \/ PublishAccepted(c) \/ ReplyDies(c)
  \/ \E mine \in SUBSET Offer : CancelOffersOf(mine)
  \/ \E t \in Trade : CreateFromOffer(t)

LocksInit ==
  /\ offers = [o \in Offer |-> "accepted"]
  /\ replies = [c \in Clerk |-> NoReply] /\ accepted = {}
  /\ \E known \in SUBSET Trade :
       trades = [t \in Trade |-> IF t \in known THEN "ACCEPTED" ELSE "none"]
  /\ Cardinality({t \in Trade : trades[t] = "ACCEPTED"}) = 2
  /\ redis = [l \in Listing |-> Nobody]
  /\ jobs = [w \in Worker |-> Idle]
  /\ stale = {} /\ lost = {}

\* Nothing is promised once a lock was lost.
LocksNext ==
  /\ lost = {} /\ stale = {}
  /\ \/ \E w \in Worker, t \in Trade :
          LockItems(w, t) \/ CancelTrade(w, t) \/ CompleteTrade(w, t)
     \/ \E w \in Worker :
          \/ SetKey(w) \/ UpdateCancelled(w) \/ GetKey(w) \/ DelKey(w)
          \/ SaveTrade(w) \/ RequestDies(w)
     \/ \E l \in Listing : Expire(l)

MarketNext ==
  \/ stretch = "offers" /\ OffersNext
  \/ stretch = "locks" /\ LocksNext

----------------------------------------------------------------------------
(* Listings and their page: words is about questions, favorites and        *)
(* reports, status about the trades.                                       *)

WordsNext ==
  \/ \E w \in Server :
       AddReply(w) \/ CountReply(w) \/ AnswerQuestion(w) \/ SaveAnswer(w) \/ Mishap(w)
  \/ AskQuestion \/ DeletedAsker \/ DeletedReplier
  \/ \E v \in Visitor :
       ToggleFavorite(v) \/ CreateReport(v) \/ ReviewReport(v) \/ DeletedVisitor(v)

StatusNext ==
  \/ \E d \in Deal : Announce(d)
  \/ DeletedOwner
  \/ \E w \in Server :
       \/ Receive(w) \/ Apply(w) \/ UpdateListing(w) \/ Archive(w)
       \/ ActivateBoost(w) \/ SaveListing(w)
       \/ DeleteImages(w) \/ InsertImages(w) \/ Mishap(w)

ListingNext ==
  \/ stretch = "words" /\ WordsNext
  \/ stretch = "status" /\ StatusNext

----------------------------------------------------------------------------
(* Disputes and their pages: two disputes opened, and one to its end.      *)

OpenedNext ==
  \/ \E d \in Dispute : OpenDispute(d) \/ \E k \in Desk : InsertOpened(k, d)
  \/ \E k \in Desk : DeliverOpened(k) \/ Die(k)

\* Nothing is promised of a dispute saved from an outdated copy.  The photo
\* comes before the video.
DecidedNext ==
  /\ overlaps = {} /\ DisputesNext
  /\ rows'[t2] = Missing
  /\ \A k \in Desk : desks'[k].do # "open"
  /\ evidence'[t1] # {"video"}

DisputeNext ==
  \/ stretch = "opened" /\ OpenedNext
  \/ stretch = "decided" /\ DecidedNext

----------------------------------------------------------------------------
(* Certificates: issue; transfers, trees and anchors beside each other     *)
(* over two certificates;   and trees of up to seven, built one by one.    *)

TradeOf(n) == <<t1, t1, t2, t2, t3, t3, t4, t4>>[n]

HaveIssued(m) ==
  /\ certs = [n \in 1..m |-> [number |-> n, trade |-> TradeOf(n), side |-> 2 - (n % 2),
                              status |-> "active", tree |-> 0, leaf |-> 0]]
  /\ counter = m
  /\ trees = <<>> /\ anchors = <<>> /\ chain = {}
  /\ runs = [r \in Runner |-> Resting]
  /\ cut = IF m % 2 = 1 THEN {TradeOf(m)} ELSE {}
  /\ unsaid = {} /\ faults = 0
  /\ simulated \in BOOLEAN

NoCertificates == CertificatesInit /\ ~simulated

CertificateStart ==
  \/ stretch = "issue" /\ CertificatesInit
  \/ stretch = "anchors" /\ HaveIssued(2)
  \/ stretch = "trees" /\ \E m \in 1..7 : HaveIssued(m)

IssueNext ==
  \/ \E r \in Runner, t \in {t1, t2, t3} : TradeVerified(r, t)
  \/ \E r \in Runner : IssueCertificate(r)
  \/ FailingNext

AnchorsNext ==
  \/ \E r \in Runner, to \in {"transferred", "revoked"} : ChangeCertificate(r, 1, to)
  \/ \E r \in Runner, anchor \in BOOLEAN : BuildDailyMerkleTree(r, anchor)
  \/ \E r \in Runner :
       \/ SaveCertificate(r) \/ InsertTree(r) \/ IndexCertificate(r)
       \/ AnchorPendingTrees(r) \/ InsertAnchor(r) \/ SendRoot(r)
       \/ ConfirmAnchor(r) \/ MarkAnchored(r)
       \/ PublishAnchored(r) \/ FailAnchor(r) \/ Fault(r)

TreesNext ==
  \E r \in Runner :
    \/ (\A q \in Runner : runs[q] = Resting) /\ BuildDailyMerkleTree(r, FALSE)
    \/ InsertTree(r) \/ IndexCertificate(r) \/ Fault(r)

CertificateNext ==
  \/ stretch = "issue" /\ IssueNext
  \/ stretch = "anchors" /\ AnchorsNext
  \/ stretch = "trees" /\ TreesNext

----------------------------------------------------------------------------
(* The pages of one trade, used one button at a time, and that of an       *)
(* inspection, used by two moderators.                                     *)

T == INSTANCE TradePage WITH
  Party <- {u1, u2}, Handler <- {h1}, MaxFaults <- 0,
  trade <- c1, jobs <- c2, proofPkgs <- c3, audit <- c4, outbox <- c5, bus <- c6,
  faults <- c7

PageInit == stretch = "page" /\ T!Init
PageNext == stretch = "page" /\ T!PageNext

I == INSTANCE CenterPage WITH
  Goods <- {x}, Admin <- Execution, UploadLimit <- 1, MaxPicked <- 2,
  inspection <- c1, desk <- c2, said <- c3, photos <- c4

InspectionInit == stretch = "inspection" /\ I!InspectionInit /\ From5

InspectionNext ==
  /\ stretch = "inspection" /\ I!InspectionNext
  /\ UNCHANGED <<c5, c6, c7>>

----------------------------------------------------------------------------
(* Users: conversations, ratings and flags, profiles and addresses.        *)

TalkNext == stretch = "talk" /\ ConversationsNext

MCPartyA(t) == IF t = t1 THEN u1 ELSE u2

\* Fraud checks while trades complete, of which one may be done and rated
\* highly by both; and ratings of two completed trades.
Rated == {[trade |-> t1, rater |-> u, rated |-> Other(u), high |-> TRUE,
           recent |-> TRUE] : u \in User}
ReputationStart ==
  /\ \E done \in IF stretch = "fraud" THEN {{}, {t1}} ELSE {{t1, t2}} :
       /\ announced = done /\ completed = done
       /\ ratings = IF done = {t1} THEN Rated ELSE {}
       /\ snapshots = [u \in Everyone |-> {<<r.trade, r.rater>> : r \in RatingsOf(u)}]
       /\ trust = snapshots
  /\ queued = {} /\ flags = {} /\ work = [h \in Assessor |-> NoWork]
  /\ early = {} /\ mixed = {} /\ untold = {} /\ halved = FALSE /\ crashes = 0

RatedNext ==
  \/ stretch = "fraud" /\ FraudNext
  \/ /\ stretch = "rating"
     /\ RatingNext
     /\ \A r \in ratings' :
          r.high /\ IF r.trade = t1 THEN r.rated \in User ELSE r.rater = u1
     /\ flags' \subseteq {<<u1, "duplicate_proof", t1>>}

\* The user of the messages has an address already.
ProfilesStart ==
  /\ profile = {} /\ userQueue = {} /\ userNews = {}
  /\ userJobs = [h \in UserWorker |-> Unoccupied]
  /\ beside = FALSE /\ undefaulted = FALSE /\ unsettled = FALSE
  /\ counted = {} /\ twice = <<0, 0>> /\ swallowed = {} /\ hitches = 0
  /\ IF stretch = "messages" THEN addresses = {[id |-> 1, default |-> TRUE]} /\ lastId = 1
     ELSE addresses = {} /\ lastId = 0

\* Nothing is promised once two executions wrote the profile at once.
ProfileNext ==
  \/ stretch = "addresses" /\ lastId <= 3 /\ AddressNext
  \/ stretch = "messages" /\ ~unsettled /\ MessageNext

----------------------------------------------------------------------------
(* The clients: the forms of a listing (its pictures, or its place), the   *)
(* reports' page of two moderators with one report each or both with one,  *)
(* and sessions of one browser with two tabs, or two with one.             *)

HomePlace == [country |-> <<"tr">>, city |-> <<"tr", "north">>, quarter |-> Nowhere]
FormsStart ==
  /\ form = "create" /\ files = <<>> /\ shown = <<>> /\ reading = <<>>
  /\ place = IF stretch = "pictures" THEN HomePlace ELSE NoPlace
  /\ hints = NoHints /\ searches = {} /\ stored = <<>> /\ location = NoPlace
  /\ edits = 0 /\ oddities = {}

FormsNext ==
  /\ stretch \in {"pictures", "place"} /\ FormNext
  /\ stretch = "pictures" => form' # form \/ UNCHANGED placeVars
  /\ stretch = "place" => <<shown, reading>>' = <<shown, reading>> /\ Cardinality(searches') <= 2

MCSellerOf == [r1 |-> "s1", r2 |-> "s2"]

ReportsNext ==
  /\ stretch \in {"one page", "one report"} /\ ModerationNext
  /\ stretch = "one page" => pages'["m2"] = pages["m2"]
  /\ stretch = "one report" => \A m \in Moderator : pages'[m].report \subseteq {"r1"}

\* Nothing is promised of a browser that does not keep up.
BrowserNext ==
  /\ stretch \in {"two tabs", "two browsers"} /\ spoiled = {} /\ SessionNext
  /\ stretch = "two tabs" => storage'["b2"] = Empty
  /\ stretch = "two browsers" => pending' \subseteq {"a", "c"}

----------------------------------------------------------------------------
\* One component starts its stretch and the others are as new.
Extended ==
  {"offers", "locks", "words", "status", "opened", "decided", "issue", "anchors", "trees",
   "talk", "fraud", "rating", "addresses", "messages", "pictures",
   "place", "one page", "one report", "two tabs", "two browsers"}
Celled == {"page", "inspection"}

ServicesInit ==
  /\ stretch \in Extended \cup Celled
  /\ IF stretch = "locks" THEN LocksInit ELSE Init
  /\ ListingsInit /\ DisputesInit /\ ConversationsInit
  /\ ProfilesStart /\ ModerationInit /\ FormsStart /\ SessionInit
  /\ IF stretch \in {"fraud", "rating"} THEN ReputationStart ELSE ReputationInit
  /\ IF stretch \in {"issue", "anchors", "trees"} THEN CertificateStart ELSE NoCertificates
  /\ \/ stretch \in Extended /\ From1
     \/ PageInit \/ InspectionInit

UserNext ==
  \/ /\ TalkNext
     /\ UNCHANGED <<reputationVars, profileVars, moderationVars, sessionVars>>
  \/ /\ RatedNext
     /\ UNCHANGED <<conversationVars, profileVars, moderationVars, sessionVars>>
  \/ /\ ProfileNext
     /\ UNCHANGED <<conversationVars, reputationVars, moderationVars, sessionVars>>
  \/ /\ ReportsNext
     /\ UNCHANGED <<conversationVars, reputationVars, profileVars, sessionVars>>
  \/ /\ BrowserNext
     /\ UNCHANGED <<conversationVars, reputationVars, profileVars, moderationVars>>

ServicesNext ==
  /\ UNCHANGED stretch
  /\ \/ MarketNext /\ UNCHANGED <<listingsVars, disputesVars, certificatesVars, userVars, pageVars>>
     \/ ListingNext /\ UNCHANGED <<vars, disputesVars, certificatesVars, userVars, pageVars>>
     \/ DisputeNext /\ UNCHANGED <<goodsVars, certificatesVars, userVars, pageVars>>
     \/ CertificateNext /\ UNCHANGED <<goodsVars, disputesVars, userVars, pageVars>>
     \/ UserNext /\ UNCHANGED <<goodsVars, disputesVars, certificatesVars, pageVars>>
     \/ FormsNext /\ UNCHANGED <<goodsVars, disputesVars, certificatesVars, userVars, cells>>
     \/ /\ PageNext \/ InspectionNext
        /\ UNCHANGED <<goodsVars, disputesVars, certificatesVars, userVars, formVars>>

servicesVars ==
  <<goodsVars, disputesVars, certificatesVars, userVars, pageVars, stretch>>

ServicesSpec == ServicesInit /\ [][ServicesNext]_servicesVars

----------------------------------------------------------------------------
(* The property of the instances, each of the stretches of its component;  *)
(* those of the modules extended are the run's as they are.                *)

\* No button of a page that shows the rows as they are leads to a request
\* that the service refuses.
ButtonsWork ==
  /\ stretch = "offers" => OfferButtonsWork
  /\ stretch = "page" => T!ButtonsWork
  /\ stretch \in {"words", "status"} => ListingButtonsWork
  /\ DisputeButtonsWork
  /\ stretch = "inspection" => I!InspectionButtonsWork

=============================================================================
