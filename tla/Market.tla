-------------------------------- MODULE Market --------------------------------
(***************************************************************************)
(* offer-service and the beginning of trade-service: offers and their      *)
(* answers (offers.service.ts), the trades that come of them, and the      *)
(* Redis keys that keep a listing for one trade (lock.service.ts, lockItems*)
(* and cancelTrade of trades.service.ts).  All that happens between LOCKED *)
(* and the end of a trade is in TradeService.                              *)
(*                                                                         *)
(* A request reads a row, tests its status and saves its copy later; Redis *)
(* takes no part in the transactions of the database.                      *)
(***************************************************************************)
EXTENDS Naturals, FiniteSets

CONSTANTS Listing,
          Offer,
          First(_), Second(_),  \* the listing an offer asks for, and offers
          Clerk,                \* answers to offers in flight at a time
          Worker,               \* requests on trades in flight at a time
          MaxCopies             \* trades created from one offer (a bound)

ASSUME ListingsAssumption ==
  \A o \in Offer : First(o) \in Listing /\ Second(o) \in Listing

VARIABLES
  offers,   \* status of each offer, "none" before it is made
  replies,  \* answers in flight, as <<status to save, offer>>
  accepted, \* offer.accepted messages that wait for trade-service
  trades,   \* state of each trade
  redis,    \* the trade whose id each key listing:lock:... holds
  jobs,     \* the requests on trades in flight
  stale,    \* history: offers and trades saved from an outdated copy
  lost      \* history: how a key was lost that its trade still relied on

offerVars == <<offers, replies, accepted>>
lockVars == <<trades, redis, jobs>>
vars == <<offerVars, lockVars, stale, lost>>

Trade == Offer \X (1 .. MaxCopies)
Nobody == <<"nobody", 0>>
Answer == {"accepted", "rejected", "cancelled", "countered"}

\* The two listings of a trade, in the order in which they are locked.
ItemOf(t, i) == IF i = 1 THEN First(t[1]) ELSE Second(t[1])
Items(t) == {First(t[1]), Second(t[1])}

NoReply == <<"none", "none">>
Idle == [op |-> "none", at |-> "idle", trade |-> Nobody, read |-> "none",
         i |-> 1, won |-> FALSE]

Init ==
  /\ offers = [o \in Offer |-> "none"]
  /\ replies = [c \in Clerk |-> NoReply]
  /\ accepted = {}
  /\ trades = [t \in Trade |-> "none"]
  /\ redis = [l \in Listing |-> Nobody]
  /\ jobs = [w \in Worker |-> Idle]
  /\ stale = {} /\ lost = {}

----------------------------------------------------------------------------
(* Offers.                                                                 *)

MakeOffer(o) ==
  /\ offers[o] = "none"
  /\ offers' = [offers EXCEPT ![o] = "pending"]
  /\ UNCHANGED <<replies, accepted, lockVars, stale, lost>>

\* accept, reject, cancel and counterOffer: findById and the test.
Reply(c, o, answer) ==
  /\ replies[c] = NoReply
  /\ offers[o] = "pending"
  /\ replies' = [replies EXCEPT ![c] = <<answer, o>>]
  /\ UNCHANGED <<offers, accepted, lockVars, stale, lost>>

\* save; an accepted offer has its message yet to be published.
SaveReply(c) ==
  LET answer == replies[c][1]
      o == replies[c][2]
  IN /\ answer \in Answer
     /\ offers' = [offers EXCEPT ![o] = answer]
     /\ stale' = IF offers[o] = "pending" THEN stale ELSE stale \cup {o}
     /\ replies' = [replies EXCEPT ![c] =
                      IF answer = "accepted" THEN <<"publish", o>> ELSE NoReply]
     /\ UNCHANGED <<accepted, lockVars, lost>>

PublishAccepted(c) ==
  /\ replies[c][1] = "publish"
  /\ accepted' = accepted \cup {replies[c][2]}
  /\ replies' = [replies EXCEPT ![c] = NoReply]
  /\ UNCHANGED <<offers, lockVars, stale, lost>>

\* The process dies between the two: there is no outbox here.
ReplyDies(c) ==
  /\ replies[c] # NoReply
  /\ replies' = [replies EXCEPT ![c] = NoReply]
  /\ UNCHANGED <<offers, accepted, lockVars, stale, lost>>

\* Faulty variant, in no specification: cancels offers that were answered, too.
CancelAllOf(mine) ==
  /\ offers' = [o \in Offer |-> IF o \in mine THEN "cancelled" ELSE offers[o]]
  /\ UNCHANGED <<replies, accepted, lockVars, stale, lost>>

\* user.deleted: the pending offers that the user made are cancelled.
CancelOffersOf(mine) ==
  /\ offers' = [o \in Offer |-> IF o \in mine /\ offers[o] = "pending"
                                THEN "cancelled" ELSE offers[o]]
  /\ UNCHANGED <<replies, accepted, lockVars, stale, lost>>

----------------------------------------------------------------------------
(* Trades.                                                                 *)

\* offer.accepted: one transaction; the message may come again if the
\* process dies before it is acknowledged.
CreateFromOffer(t) ==
  /\ t[1] \in accepted
  /\ trades[t] = "none"
  /\ \A n \in 1 .. (t[2] - 1) : trades[<<t[1], n>>] # "none"
  /\ trades' = [trades EXCEPT ![t] = "ACCEPTED"]
  /\ accepted' \in {accepted, accepted \ {t[1]}}
  /\ UNCHANGED <<offers, replies, redis, jobs, stale, lost>>

\* A request reads the trade and asks the state machine.
Request(w, op, at, t, from) ==
  /\ jobs[w] = Idle
  /\ trades[t] \in from
  /\ jobs' = [jobs EXCEPT ![w] = [op |-> op, at |-> at, trade |-> t,
                                  read |-> trades[t], i |-> 1, won |-> FALSE]]
  /\ UNCHANGED <<offerVars, trades, redis, stale, lost>>

LockItems(w, t) == Request(w, "lock", "set", t, {"ACCEPTED"})
CancelTrade(w, t) == Request(w, "cancel", "update", t, {"ACCEPTED", "LOCKED"})
CompleteTrade(w, t) == Request(w, "complete", "save", t, {"LOCKED"})

\* Transactions that have updated the row of a trade and not yet committed.
Releasing(j) == j.op = "cancel" /\ j.at \in {"get", "del", "save"}
Leaving(t) == \E w \in Worker : Releasing(jobs[w]) /\ jobs[w].trade = t
RowLocked(t, w) ==
  \E v \in Worker \ {w} : Releasing(jobs[v]) /\ jobs[v].trade = t

Goto(w, at) == jobs' = [jobs EXCEPT ![w].at = at]
Done(w) == jobs' = [jobs EXCEPT ![w] = Idle]

\* Faulty variant, in no specification: without NX.
SetAnyKey(w) ==
  LET j == jobs[w]
  IN /\ j.at = "set"
     /\ redis' = [redis EXCEPT ![ItemOf(j.trade, j.i)] = j.trade]
     /\ jobs' = IF j.i = 1 THEN [jobs EXCEPT ![w].i = 2, ![w].won = TRUE]
                ELSE [jobs EXCEPT ![w].at = "save"]
     /\ UNCHANGED <<offerVars, trades, stale, lost>>

\* acquireLock for one listing after the other: SET NX.  The second key is
\* tried even if the first one was taken, and is then kept.
SetKey(w) ==
  LET j == jobs[w]
      key == ItemOf(j.trade, j.i)
      free == redis[key] = Nobody
  IN /\ j.at = "set"
     /\ redis' = IF free THEN [redis EXCEPT ![key] = j.trade] ELSE redis
     /\ \/ /\ j.i = 1
           /\ jobs' = [jobs EXCEPT ![w].i = 2, ![w].won = free]
        \/ /\ j.i = 2 /\ ~j.won /\ Done(w)
        \/ /\ j.i = 2 /\ j.won /\ free /\ Goto(w, "save")
        \/ /\ j.i = 2 /\ j.won /\ ~free
           /\ jobs' = [jobs EXCEPT ![w].at = "get", ![w].i = 1]
     /\ UNCHANGED <<offerVars, trades, stale, lost>>

\* cancelTrade: the UPDATE, which locks the row until the COMMIT.
UpdateCancelled(w) ==
  /\ jobs[w].at = "update"
  /\ ~RowLocked(jobs[w].trade, w)
  /\ Goto(w, "get")
  /\ UNCHANGED <<offerVars, trades, redis, stale, lost>>

\* releaseLock: GET, and DEL if the key held this trade.  A failed lockItems
\* releases its first key, a cancellation both.
AfterRelease(w) ==
  IF jobs[w].op = "lock" THEN Done(w)
  ELSE IF jobs[w].i = 1 THEN jobs' = [jobs EXCEPT ![w].at = "get", ![w].i = 2]
  ELSE Goto(w, "save")

GetKey(w) ==
  /\ jobs[w].at = "get"
  /\ IF redis[ItemOf(jobs[w].trade, jobs[w].i)] = jobs[w].trade
     THEN Goto(w, "del") ELSE AfterRelease(w)
  /\ UNCHANGED <<offerVars, trades, redis, stale, lost>>

DelKey(w) ==
  LET j == jobs[w]
      key == ItemOf(j.trade, j.i)
  IN /\ j.at = "del"
     /\ redis' = [redis EXCEPT ![key] = Nobody]
     /\ lost' = IF redis[key] \in {Nobody, j.trade} THEN lost
                ELSE lost \cup {"another's"}
     /\ AfterRelease(w)
     /\ UNCHANGED <<offerVars, trades, stale>>

\* save and COMMIT: nothing compares the row with the copy.
StateAfter(op) ==
  CASE op = "lock" -> "LOCKED" [] op = "cancel" -> "CANCELLED" [] OTHER -> "COMPLETED"

SaveTrade(w) ==
  LET j == jobs[w]
  IN /\ j.at = "save"
     /\ ~RowLocked(j.trade, w)
     /\ trades' = [trades EXCEPT ![j.trade] = StateAfter(j.op)]
     /\ stale' = IF trades[j.trade] = j.read THEN stale ELSE stale \cup {j.trade}
     /\ Done(w)
     /\ UNCHANGED <<offerVars, redis, lost>>

\* The process dies: the transaction rolls back, the keys stay as they are.
RequestDies(w) ==
  /\ jobs[w] # Idle
  /\ lost' = IF Releasing(jobs[w]) THEN lost \cup {"died"} ELSE lost
  /\ Done(w)
  /\ UNCHANGED <<offerVars, trades, redis, stale>>

\* A key lives for an hour and is never renewed.
Expire(l) ==
  /\ redis[l] # Nobody
  /\ redis' = [redis EXCEPT ![l] = Nobody]
  /\ lost' = lost \cup {"expired"}
  /\ UNCHANGED <<offerVars, trades, jobs, stale>>

Next ==
  \/ \E o \in Offer : MakeOffer(o)
  \/ \E c \in Clerk, o \in Offer, answer \in Answer : Reply(c, o, answer)
  \/ \E c \in Clerk : SaveReply(c) \/ PublishAccepted(c) \/ ReplyDies(c)
  \/ \E mine \in SUBSET Offer : CancelOffersOf(mine)
  \/ \E t \in Trade : CreateFromOffer(t)
  \/ \E w \in Worker, t \in Trade :
       LockItems(w, t) \/ CancelTrade(w, t) \/ CompleteTrade(w, t)
  \/ \E w \in Worker :
       \/ SetKey(w) \/ UpdateCancelled(w) \/ GetKey(w) \/ DelKey(w)
       \/ SaveTrade(w) \/ RequestDies(w)
  \/ \E l \in Listing : Expire(l)

Spec == Init /\ [][Next]_vars

----------------------------------------------------------------------------
(* Properties.                                                             *)

JobType ==
  [op : {"none", "lock", "cancel", "complete"},
   at : {"idle", "set", "update", "get", "del", "save"},
   trade : Trade \cup {Nobody}, read : {"none", "ACCEPTED", "LOCKED"},
   i : {1, 2}, won : BOOLEAN]

TypeOK ==
  /\ offers \in [Offer -> Answer \cup {"none", "pending"}]
  /\ replies \in [Clerk -> {NoReply} \cup ((Answer \cup {"publish"}) \X Offer)]
  /\ accepted \subseteq Offer
  /\ trades \in [Trade -> {"none", "ACCEPTED", "LOCKED", "COMPLETED", "CANCELLED"}]
  /\ redis \in [Listing -> Trade \cup {Nobody}]
  /\ jobs \in [Worker -> JobType]
  /\ \A w \in Worker : jobs[w] = Idle \/ jobs[w].trade \in Trade
  /\ stale \subseteq Offer \cup Trade
  /\ lost \subseteq {"expired", "another's", "died"}

\* A trade exists only for an offer that says it was accepted, whichever way
\* requests, deletions of users and redeliveries interleave, unless two
\* answers were given from the same pending copy (offers.service.ts).
TradeMatchesOffer ==
  \A t \in Trade : trades[t] # "none" => offers[t[1]] = "accepted" \/ t[1] \in stale

\* No two trades have the same listing locked: lockItems of both at once,
\* failures half way through, cancellations and crashes included.  The
\* exclusion is lost in four ways only: a key expires, a trade is saved from
\* an outdated copy, releaseLock deletes a key that has changed hands since
\* its GET, or cancelTrade dies with the keys gone and its row rolled back.
Keeps(t) == trades[t] = "LOCKED" /\ ~Leaving(t)
LocksExclude ==
  lost = {} /\ stale \cap Trade = {} =>
    \A t, u \in Trade :
      Keeps(t) /\ Keeps(u) /\ t # u => Items(t) \cap Items(u) = {}

=============================================================================
