------------------------------- MODULE Listings -------------------------------
(***************************************************************************)
(* listing-service, for one listing: its status under the requests of its  *)
(* owner and of moderators, boosts and the messages of trade-service; its  *)
(* images, one question with its replies, favourites and reports           *)
(* (listings.service.ts, user-cleanup.listener.ts).                        *)
(*                                                                         *)
(* A request reads the listing and saves its copy later; save() writes the *)
(* columns in which the copy differs from the row it finds, so an outdated *)
(* copy puts old values back.  Messages set the status without reading it. *)
(***************************************************************************)
EXTENDS Naturals, Sequences

CONSTANTS Deal,         \* trades this listing is part of, one after another
          Visitor,      \* users other than the owner
          Server,       \* executions in flight at a time
          MaxReplies,   \* replies, and replies counted (a bound)
          MaxMishaps    \* executions that die half way (a bound)

VARIABLES
  status, boosted,  \* columns of the listing
  images,           \* the requests whose images are in listing_images
  favorites,        \* users with a row in listing_favorites
  reports,          \* status of the report of each visitor
  question,         \* the question: [asked, answered, count]
  replyRows,        \* rows with its id as parent_id
  inbox,            \* messages of trade-service, in order
  deals,            \* what each trade has announced last
  word,             \* history: the last announcement about this listing
  tasks,            \* the executions in flight
  disturbed,        \* history: what was overwritten from an old copy, or overtaken
  mishaps

listingVars == <<status, boosted, images>>
socialVars == <<favorites, reports, question, replyRows>>
newsVars == <<inbox, deals, word>>
listingsVars == <<listingVars, socialVars, newsVars, tasks, disturbed, mishaps>>

NoTask == [do |-> "none"]
Unused == \A w \in Server : tasks[w] = NoTask
Applying == {w \in Server : tasks[w].do = "apply"}

\* create: with images, ACTIVE.
ListingsInit ==
  /\ status = "active" /\ boosted = FALSE /\ images = {"create"}
  /\ favorites = {} /\ reports = [v \in Visitor |-> "none"]
  /\ question = [asked |-> "no", answered |-> FALSE, count |-> 0]
  /\ replyRows = 0
  /\ inbox = <<>> /\ deals = [d \in Deal |-> "none"] /\ word = "none"
  /\ tasks = [w \in Server |-> NoTask]
  /\ disturbed = {} /\ mishaps = 0

Start(w, task) ==
  /\ tasks[w] = NoTask
  /\ tasks' = [tasks EXCEPT ![w] = task]

Then(w, task) == tasks' = [tasks EXCEPT ![w] = task]

----------------------------------------------------------------------------
(* Messages of trade-service.                                              *)

Announce(d) ==
  \E key \in {"locked", "cancelled", "completed"} :
    /\ <<deals[d], key>> \in {<<"none", "locked">>, <<"none", "cancelled">>,
                               <<"locked", "cancelled">>, <<"locked", "completed">>}
    /\ deals' = [deals EXCEPT ![d] = key]
    /\ inbox' = Append(inbox, key)
    /\ word' = key
    /\ UNCHANGED <<listingVars, socialVars, tasks, disturbed, mishaps>>

\* Messages are handed over in order and their handlers then overlap.
Receive(w) ==
  /\ inbox # <<>>
  /\ Start(w, [do |-> "apply", key |-> Head(inbox)])
  /\ inbox' = Tail(inbox)
  /\ disturbed' = IF Applying = {} THEN disturbed ELSE disturbed \cup {"listing"}
  /\ UNCHANGED <<listingVars, socialVars, deals, word, mishaps>>

\* lockListing, unlockListing, markTraded: an UPDATE of one column.
StatusFor(key) ==
  CASE key = "locked" -> "locked" [] key = "cancelled" -> "active" [] OTHER -> "traded"

Apply(w) ==
  /\ tasks[w].do = "apply"
  /\ status' = StatusFor(tasks[w].key)
  /\ Then(w, NoTask)
  /\ UNCHANGED <<boosted, images, socialVars, newsVars, disturbed, mishaps>>

----------------------------------------------------------------------------
(* Requests that read the listing and save it.                             *)

SaveTask(to, boost, new) ==
  [do |-> "save", to |-> to, read |-> status, boost |-> boost, images |-> new]

\* update, with or without new images.
UpdateListing(w) ==
  /\ status = "active"
  /\ \E new \in BOOLEAN : Start(w, SaveTask(status, boosted, new))
  /\ UNCHANGED <<listingVars, socialVars, newsVars, disturbed, mishaps>>

\* archive and archiveListingByAdmin, in any status.
Archive(w) ==
  /\ Start(w, SaveTask("archived", boosted, FALSE))
  /\ UNCHANGED <<listingVars, socialVars, newsVars, disturbed, mishaps>>

\* Faulty variant, in no specification: without the check of the status.
BoostOnOffer(w) ==
  /\ Start(w, SaveTask("active", TRUE, FALSE))
  /\ UNCHANGED <<listingVars, socialVars, newsVars, disturbed, mishaps>>

\* payment.boost_succeeded: activateBoost, in any status.
ActivateBoost(w) ==
  /\ Start(w, SaveTask(status, TRUE, FALSE))
  /\ UNCHANGED <<listingVars, socialVars, newsVars, disturbed, mishaps>>

SaveListing(w) ==
  LET j == tasks[w]
  IN /\ j.do = "save"
     /\ status' = j.to
     /\ boosted' = j.boost
     /\ disturbed' = IF status = j.read THEN disturbed ELSE disturbed \cup {"listing"}
     /\ Then(w, IF j.images THEN [do |-> "delete"] ELSE NoTask)
     /\ UNCHANGED <<images, socialVars, newsVars, mishaps>>

\* imageRepo.delete, then imageRepo.save.
DeleteImages(w) ==
  /\ tasks[w].do = "delete"
  /\ images' = {}
  /\ Then(w, [do |-> "insert"])
  /\ UNCHANGED <<status, boosted, socialVars, newsVars, disturbed, mishaps>>

InsertImages(w) ==
  /\ tasks[w].do = "insert"
  /\ images' = images \cup {w}
  /\ Then(w, NoTask)
  /\ UNCHANGED <<status, boosted, socialVars, newsVars, disturbed, mishaps>>

----------------------------------------------------------------------------
(* Questions, favourites and reports.                                      *)

AskQuestion ==
  /\ question.asked = "no"
  /\ question' = [question EXCEPT !.asked = "yes"]
  /\ UNCHANGED <<listingVars, favorites, reports, replyRows, newsVars, tasks, disturbed, mishaps>>

\* addReply: save, then an increment in the database.
AddReply(w) ==
  /\ question.asked = "yes" /\ replyRows < MaxReplies /\ question.count < MaxReplies
  /\ replyRows' = replyRows + 1
  /\ Start(w, [do |-> "count", seen |-> question.count])
  /\ UNCHANGED <<listingVars, favorites, reports, question, newsVars, disturbed, mishaps>>

\* Faulty variant, in no specification: saves the count that was read.
CountSeen(w) ==
  /\ tasks[w].do = "count"
  /\ question' = [question EXCEPT !.count = tasks[w].seen + 1]
  /\ Then(w, NoTask)
  /\ UNCHANGED <<listingVars, favorites, reports, replyRows, newsVars, disturbed, mishaps>>

CountReply(w) ==
  /\ tasks[w].do = "count"
  /\ question' = IF question.asked = "yes" THEN [question EXCEPT !.count = @ + 1]
                 ELSE question
  /\ Then(w, NoTask)
  /\ UNCHANGED <<listingVars, favorites, reports, replyRows, newsVars, disturbed, mishaps>>

\* answerQuestion: findOne, then save of the whole copy, which brings a
\* question back that was deleted in between.
AnswerQuestion(w) ==
  /\ question.asked = "yes"
  /\ Start(w, [do |-> "answer", seen |-> question.count])
  /\ UNCHANGED <<listingVars, socialVars, newsVars, disturbed, mishaps>>

SaveAnswer(w) ==
  /\ tasks[w].do = "answer"
  /\ question' = [asked |-> "yes", answered |-> TRUE, count |-> tasks[w].seen]
  /\ disturbed' = IF question.asked = "yes" /\ question.count = tasks[w].seen
                 THEN disturbed ELSE disturbed \cup {"question"}
  /\ Then(w, NoTask)
  /\ UNCHANGED <<listingVars, favorites, reports, replyRows, newsVars, mishaps>>

\* toggleFavorite and createReport: a second insert breaks the unique key.
ToggleFavorite(v) ==
  /\ favorites' = IF v \in favorites THEN favorites \ {v} ELSE favorites \cup {v}
  /\ UNCHANGED <<listingVars, reports, question, replyRows, newsVars, tasks, disturbed, mishaps>>

CreateReport(v) ==
  /\ reports[v] = "none"
  /\ reports' = [reports EXCEPT ![v] = "pending"]
  /\ UNCHANGED <<listingVars, favorites, question, replyRows, newsVars, tasks, disturbed, mishaps>>

\* reviewReport, in any status.
ReviewReport(v) ==
  /\ reports[v] # "none"
  /\ \E verdict \in {"reviewed", "dismissed"} :
       reports' = [reports EXCEPT ![v] = verdict]
  /\ UNCHANGED <<listingVars, favorites, question, replyRows, newsVars, tasks, disturbed, mishaps>>

\* user.deleted: what the user wrote is deleted, and the owner's listing is
\* archived last; a failure is logged and the rest is never done.
DeletedVisitor(v) ==
  /\ favorites' = favorites \ {v}
  /\ reports' \in {reports, [reports EXCEPT ![v] = "none"]}
  /\ UNCHANGED <<listingVars, question, replyRows, newsVars, tasks, disturbed, mishaps>>

\* ... his question with all its replies, or his reply but not its count.
DeletedAsker ==
  /\ question.asked = "yes"
  /\ question' = [asked |-> "gone", answered |-> FALSE, count |-> 0]
  /\ replyRows' = 0
  /\ UNCHANGED <<listingVars, favorites, reports, newsVars, tasks, disturbed, mishaps>>

DeletedReplier ==
  /\ replyRows > 0
  /\ replyRows' = replyRows - 1
  /\ disturbed' = disturbed \cup {"question"}
  /\ UNCHANGED <<listingVars, favorites, reports, question, newsVars, tasks, mishaps>>

DeletedOwner ==
  /\ status' = "archived"
  /\ UNCHANGED <<boosted, images, socialVars, newsVars, tasks, disturbed, mishaps>>

Mishap(w) ==
  /\ tasks[w] # NoTask /\ mishaps < MaxMishaps
  /\ mishaps' = mishaps + 1
  /\ Then(w, NoTask)
  /\ inbox' = IF tasks[w].do = "apply" THEN <<tasks[w].key>> \o inbox ELSE inbox
  /\ UNCHANGED <<listingVars, socialVars, deals, word, disturbed>>

ListingsNext ==
  \/ \E d \in Deal : Announce(d)
  \/ \E w \in Server :
       \/ Receive(w) \/ Apply(w)
       \/ UpdateListing(w) \/ Archive(w) \/ ActivateBoost(w) \/ SaveListing(w)
       \/ DeleteImages(w) \/ InsertImages(w)
       \/ AddReply(w) \/ CountReply(w) \/ AnswerQuestion(w) \/ SaveAnswer(w)
       \/ Mishap(w)
  \/ AskQuestion \/ DeletedAsker \/ DeletedReplier \/ DeletedOwner
  \/ \E v \in Visitor :
       ToggleFavorite(v) \/ CreateReport(v) \/ ReviewReport(v) \/ DeletedVisitor(v)

ListingsSpec == ListingsInit /\ [][ListingsNext]_listingsVars

----------------------------------------------------------------------------
(* Properties.                                                             *)

\* Once every message is dealt with, the listing says what the last trade
\* announced about it, or has been archived: a listing under trade is not
\* on offer, whatever its owner edits, boosts or loses in the meantime.
\* Not so when handlers of two messages overlapped or a copy was outdated.
ListingFollowsTrades ==
  inbox = <<>> /\ Unused /\ "listing" \notin disturbed /\ word # "none" =>
    status \in {StatusFor(word), "archived"}

\* The count of replies is right when nobody is replying, also after two
\* replied at once, unless a process died between the two statements or an
\* answer was saved over the count.
ReplyCountRight ==
  Unused /\ mishaps = 0 /\ "question" \notin disturbed => question.count = replyRows

=============================================================================
