------------------------------- MODULE Profiles -------------------------------
(***************************************************************************)
(* user-service, for one user: the profile with its counters of trades, the*)
(* addresses, of which one is the default, and the clean-up when the user  *)
(* is deleted (profiles.service.ts, addresses.service.ts,                  *)
(* user-cleanup.listener.ts).  A message is acknowledged after its writes, *)
(* and again given to somebody if the process dies before; those of trades *)
(* come from an outbox, which may publish them again.  save() of a row     *)
(* that is gone inserts it again.  The trust score is one more row and not *)
(* modelled.                                                               *)
(***************************************************************************)
EXTENDS Naturals, FiniteSets

CONSTANTS MaxAddresses,  \* MAX_ADDRESSES of the code
          UserTrade,     \* the trades of the user
          UserWorker,    \* executions in flight together
          MaxHitches     \* deaths, failed writes, repeated messages (a bound)

VARIABLES
  profile,     \* no row or one, as <<totalTrades, completedTrades>>
  addresses,   \* the rows, as [id |-> order of creation, default |-> is_default]
  lastId,
  userQueue,   \* messages not yet acknowledged, as <<key, trade or "user">>
  userNews,    \* messages that have been sent
  userJobs,    \* the executions in flight
  beside,      \* history: two executions that write addresses were in flight
  undefaulted, \* history: the default was given up, or lost with an execution,
               \*          and no address has been saved as the default since
  unsettled,   \* history: two that write the profile were in flight, or the
               \*          user was deleted before the registration was done
  counted,     \* history: messages that a counter has counted
  twice,       \* history: how often each counter counted one of those again
  swallowed,   \* history: messages acknowledged and neither counted nor obeyed
  hitches

userHistory == <<beside, undefaulted, unsettled, counted, twice, swallowed, hitches>>
profileVars == <<profile, addresses, lastId, userQueue, userNews, userJobs, userHistory>>

Unoccupied == [at |-> "idle"]
FinishJob(h) == userJobs' = [userJobs EXCEPT ![h] = Unoccupied]
GoOn(h, at) == userJobs' = [userJobs EXCEPT ![h].at = at]
Defaults == {a \in addresses : a.default}
Cleared == {[a EXCEPT !.default = FALSE] : a \in addresses}
WithId(i) == {a \in addresses : a.id = i}
Store(row) == addresses' = (addresses \ WithId(row.id)) \cup {row}

ProfilesInit ==
  /\ profile = {} /\ addresses = {} /\ lastId = 0
  /\ userQueue = {} /\ userNews = {}
  /\ userJobs = [h \in UserWorker |-> Unoccupied]
  /\ beside = FALSE /\ undefaulted = FALSE /\ unsettled = FALSE
  /\ counted = {} /\ twice = <<0, 0>> /\ swallowed = {} /\ hitches = 0

----------------------------------------------------------------------------
(* Addresses.                                                              *)

OnAddresses == {"clear", "save", "remove", "promote"}
Addressing == \E g \in UserWorker : userJobs[g].at \in OnAddresses

StartJob(h, job) ==
  /\ userJobs[h] = Unoccupied
  /\ userJobs' = [userJobs EXCEPT ![h] = job]
  /\ beside' = (beside \/ Addressing)
  /\ UNCHANGED <<profile, addresses, lastId, userQueue, userNews, undefaulted, unsettled,
                 counted, twice, swallowed, hitches>>

\* create: countBy, which also tells whether it is the first one.
Create(h, default) ==
  /\ Cardinality(addresses) < MaxAddresses
  /\ StartJob(h, [at |-> IF default THEN "clear" ELSE "save",
               row |-> [id |-> 0, default |-> default \/ addresses = {}]])

\* update: the row as it was read, with the new isDefault if there is one.
Update(h, a, default) ==
  /\ a \in addresses
  /\ StartJob(h, [at |-> IF default /\ ~a.default THEN "clear" ELSE "save",
               row |-> [a EXCEPT !.default = default]])

\* setDefault clears even the address itself first.
SetDefault(h, a) ==
  /\ a \in addresses
  /\ StartJob(h, [at |-> "clear", row |-> [a EXCEPT !.default = TRUE]])

\* update({ userId }, { isDefault: false })
Clear(h) ==
  /\ userJobs[h].at = "clear"
  /\ addresses' = Cleared
  /\ GoOn(h, "save")
  /\ UNCHANGED <<profile, lastId, userQueue, userNews, userHistory>>

\* An update may save the default as no longer the default.
SaveAddress(h) ==
  LET row == userJobs[h].row
  IN /\ userJobs[h].at = "save"
     /\ lastId' = IF row.id = 0 THEN lastId + 1 ELSE lastId
     /\ Store(IF row.id = 0 THEN [row EXCEPT !.id = lastId + 1] ELSE row)
     /\ undefaulted' = (~row.default /\ (undefaulted \/ Defaults \cap WithId(row.id) # {}))
     /\ FinishJob(h)
     /\ UNCHANGED <<profile, userQueue, userNews, beside, unsettled, counted, twice,
                    swallowed, hitches>>

RemoveAddress(h, a) ==
  /\ a \in addresses
  /\ StartJob(h, [at |-> "remove", row |-> a])

\* Faulty variant, in no specification: promotes none.
DeleteOnly(h) ==
  /\ userJobs[h].at = "remove"
  /\ addresses' = addresses \ WithId(userJobs[h].row.id)
  /\ FinishJob(h)
  /\ UNCHANGED <<profile, lastId, userQueue, userNews, userHistory>>

\* The next default is looked for only if the removed copy was the default.
Delete(h) ==
  /\ userJobs[h].at = "remove"
  /\ addresses' = addresses \ WithId(userJobs[h].row.id)
  /\ IF userJobs[h].row.default THEN GoOn(h, "promote") ELSE FinishJob(h)
  /\ UNCHANGED <<profile, lastId, userQueue, userNews, userHistory>>

NewestAddress == CHOOSE a \in addresses : \A b \in addresses : b.id <= a.id
Promote(h) ==
  /\ userJobs[h].at = "promote"
  /\ IF addresses = {} THEN FinishJob(h)
     ELSE userJobs' = [userJobs EXCEPT ![h] = [at |-> "save",
                                       row |-> [NewestAddress EXCEPT !.default = TRUE]]]
  /\ UNCHANGED <<profile, addresses, lastId, userQueue, userNews, userHistory>>

Hitch == hitches < MaxHitches /\ hitches' = hitches + 1

\* A message that was not acknowledged stays in its queue.
WorkerDies(h) ==
  /\ userJobs[h] # Unoccupied
  /\ Hitch
  /\ undefaulted' = (undefaulted \/ (userJobs[h].at \in {"save", "promote"} /\ Defaults = {}))
  /\ FinishJob(h)
  /\ UNCHANGED <<profile, addresses, lastId, userQueue, userNews, beside, unsettled,
                 counted, twice, swallowed>>

AddressNext ==
  \E h \in UserWorker :
    \/ \E default \in BOOLEAN :
         Create(h, default) \/ \E a \in addresses : Update(h, a, default)
    \/ \E a \in addresses : SetDefault(h, a) \/ RemoveAddress(h, a)
    \/ Clear(h) \/ SaveAddress(h) \/ Delete(h) \/ Promote(h) \/ WorkerDies(h)

----------------------------------------------------------------------------
(* The profile, and the messages about the user.                           *)

Registered == <<"user.registered", "user">>
Deleted == <<"user.deleted", "user">>
TradeKeys == {"trade.initiated", "trade.completed"}

SendNews(msg) ==
  /\ msg \notin userNews
  /\ msg[1] = "trade.completed" => <<"trade.initiated", msg[2]>> \in userNews
  /\ msg # Registered => Registered \in userNews
  /\ userNews' = userNews \cup {msg}
  /\ userQueue' = userQueue \cup {msg}
  /\ UNCHANGED <<profile, addresses, lastId, userJobs, userHistory>>

\* The outbox of trade-service publishes what it failed to mark.
PublishAgain(msg) ==
  /\ msg \in userNews \ userQueue
  /\ Hitch
  /\ userQueue' = userQueue \cup {msg}
  /\ UNCHANGED <<profile, addresses, lastId, userNews, userJobs, beside, undefaulted,
                 unsettled, counted, twice, swallowed>>

OnProfile == {"insert", "count", "edit", "forget", "drop"}
OnMessage == {"insert", "count", "forget", "drop", "ack"}

StartProfileJob(h, job, calm) ==
  /\ userJobs[h] = Unoccupied
  /\ userJobs' = [userJobs EXCEPT ![h] = job]
  /\ unsettled' = (\/ unsettled \/ ~calm
                  \/ \E g \in UserWorker : userJobs[g].at \in OnProfile)
  /\ UNCHANGED <<profile, addresses, lastId, userQueue, userNews, beside, undefaulted,
                 counted, twice, swallowed, hitches>>

ReceiveNews(h, job, calm) ==
  /\ job.msg \in userQueue
  /\ \A g \in UserWorker : userJobs[g].at \in OnMessage => userJobs[g].msg # job.msg
  /\ StartProfileJob(h, job, calm)

\* update: the copy with what the user typed, and the counters it had.
UpdateProfile(h) ==
  /\ profile # {}
  /\ StartProfileJob(h, [at |-> "edit", row |-> profile], TRUE)

SaveEdit(h) ==
  /\ userJobs[h].at = "edit"
  /\ profile' = userJobs[h].row
  /\ FinishJob(h)
  /\ UNCHANGED <<addresses, lastId, userQueue, userNews, userHistory>>

\* createFromRegistration: nothing is done if there is a profile.
UserRegistered(h) ==
  ReceiveNews(h, [at |-> "insert", msg |-> Registered,
                  row |-> IF profile = {} THEN {<<0, 0>>} ELSE {}], TRUE)

\* The INSERT, which the unique column refuses if there is a profile by now.
InsertProfile(h) ==
  /\ userJobs[h].at = "insert"
  /\ profile' = IF profile = {} THEN userJobs[h].row ELSE profile
  /\ GoOn(h, "ack")
  /\ UNCHANGED <<addresses, lastId, userQueue, userNews, userHistory>>

\* incrementTrades and incrementCompletedTrades: the copy with one more,
More(key, row) ==
  IF key = "trade.initiated" THEN <<row[1] + 1, row[2]>> ELSE <<row[1], row[2] + 1>>

\* if findByUserId finds a profile.
TradeNews(h, msg) ==
  ReceiveNews(h, [at |-> "count", msg |-> msg,
                  row |-> {More(msg[1], r) : r \in profile}], TRUE)

SaveProfile(h) ==
  LET job == userJobs[h]
  IN /\ job.at = "count" /\ job.row # {}
     /\ profile' = job.row
     /\ counted' = counted \cup {job.msg}
     /\ twice' = IF job.msg \in counted THEN More(job.msg[1], twice) ELSE twice
     /\ swallowed' = swallowed \ {job.msg}
     /\ GoOn(h, "ack")
     /\ UNCHANGED <<addresses, lastId, userQueue, userNews, beside, undefaulted, unsettled,
                    hitches>>

\* .catch(() => {}): no profile is found, or a statement fails; so, too, the
\* try around the clean-up.
Swallow(h) ==
  LET job == userJobs[h]
  IN /\ job.at \in {"count", "forget", "drop"}
     /\ IF job.at = "count" /\ job.row = {} THEN UNCHANGED hitches ELSE Hitch
     /\ swallowed' = swallowed \cup ({job.msg} \ counted)
     /\ GoOn(h, "ack")
     /\ UNCHANGED <<profile, addresses, lastId, userQueue, userNews, beside, undefaulted,
                    unsettled, counted, twice>>

\* user.deleted: the addresses, then the profile.
UserDeleted(h) ==
  ReceiveNews(h, [at |-> "forget", msg |-> Deleted], Registered \notin userQueue)

DeleteAddresses(h) ==
  /\ userJobs[h].at = "forget"
  /\ addresses' = {}
  /\ beside' = (beside \/ Addressing)
  /\ GoOn(h, "drop")
  /\ UNCHANGED <<profile, lastId, userQueue, userNews, undefaulted, unsettled, counted,
                 twice, swallowed, hitches>>

DeleteProfile(h) ==
  /\ userJobs[h].at = "drop"
  /\ profile' = {}
  /\ GoOn(h, "ack")
  /\ UNCHANGED <<addresses, lastId, userQueue, userNews, userHistory>>

Ack(h) ==
  /\ userJobs[h].at = "ack"
  /\ userQueue' = userQueue \ {userJobs[h].msg}
  /\ FinishJob(h)
  /\ UNCHANGED <<profile, addresses, lastId, userNews, userHistory>>

MessageNext ==
  \/ SendNews(Registered) \/ SendNews(Deleted)
  \/ \E msg \in TradeKeys \X UserTrade : SendNews(msg) \/ PublishAgain(msg)
  \/ \E h \in UserWorker :
       \/ UserRegistered(h) \/ InsertProfile(h) \/ SaveProfile(h) \/ Swallow(h)
       \/ UpdateProfile(h) \/ SaveEdit(h) \/ WorkerDies(h) \/ Ack(h)
       \/ UserDeleted(h) \/ DeleteAddresses(h) \/ DeleteProfile(h)
       \/ \E msg \in TradeKeys \X UserTrade : TradeNews(h, msg)

ProfilesNext == AddressNext \/ MessageNext

ProfilesSpec == ProfilesInit /\ [][ProfilesNext]_profileVars

----------------------------------------------------------------------------
\* Of the addresses of a user, never two are the default, and one is once
\* nothing is in flight, whatever order of create, update, remove and
\* setDefault (addresses.service.ts), unless two of them were in flight at
\* once; and none is only if the user gave the default up or an execution
\* died between its writes, until the next default.
OneDefault ==
  ~beside =>
    /\ Cardinality(Defaults) <= 1
    /\ ~Addressing /\ ~undefaulted /\ addresses # {} => Defaults # {}

\* What the counters of a profile are off by: a message is counted again
\* when a process died after the save and before the acknowledgement or the
\* outbox published it again, and never if the save failed or there was no
\* profile yet; but by nothing else, whatever order of messages and crashes,
\* unless two executions wrote the profile at once.  A user who was deleted
\* has no profile, unless the clean-up failed.
TradesCounted ==
  LET Told(key) == Cardinality({m \in userNews \ swallowed : m[1] = key})
  IN userQueue = {} /\ ~unsettled =>
       IF Deleted \in userNews \ swallowed THEN profile = {}
       ELSE \A row \in profile :
              /\ row[1] = Told("trade.initiated") + twice[1]
              /\ row[2] = Told("trade.completed") + twice[2]

\* What user-service keeps for a user is consistent: both of the above.
UserDataRight == OneDefault /\ TradesCounted
=============================================================================
