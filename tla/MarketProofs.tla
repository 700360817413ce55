---------------------------- MODULE MarketProofs ----------------------------
(***************************************************************************)
(* Proofs about what is offered and promised: Market (types,               *)
(* TradeMatchesOffer and LocksExclude, for every set of listings, offers   *)
(* and executions), Listings (what a listing shows of its trades and of its*)
(* questions), ListingForm (what a form sends of what it shows), and       *)
(* Moderation (what is decided on a reported listing).                     *)
(***************************************************************************)
EXTENDS Market, Listings, ListingForm, Moderation, FiniteSetTheorems, SequenceTheorems,
        TLAPS

\* The requests that can be in flight, by what they are about to do.
JobShape(j) ==
  /\ j.op = "none" => j = Idle
  /\ j.op = "lock" =>
       /\ j.at \in {"set", "get", "del", "save"} /\ j.read = "ACCEPTED"
       /\ j.at = "set" /\ j.i = 1 => ~j.won
       /\ j.at # "set" => j.won
       /\ j.at \in {"get", "del"} => j.i = 1
  /\ j.op = "cancel" => j.at \in {"update", "get", "del", "save"} /\ ~j.won
  /\ j.op = "complete" => j.at = "save" /\ ~j.won

JobsKnown ==
  \A w \in Worker :
    /\ JobShape(jobs[w])
    /\ jobs[w] # Idle => trades[jobs[w].trade] # "none"

\* A message or a reply about to be published tells of an accepted offer.
Sound(o) == offers[o] = "accepted" \/ o \in stale
OffersSound ==
  /\ \A t \in Trade : trades[t] # "none" => Sound(t[1])
  /\ \A o \in accepted : Sound(o)
  /\ \A c \in Clerk : replies[c][1] = "publish" => Sound(replies[c][2])

\* A request of lockItems that took its first key.
Holds(w, t) == jobs[w].op = "lock" /\ jobs[w].won /\ jobs[w].trade = t
Live(t) == trades[t] \in {"ACCEPTED", "LOCKED"} /\ ~Leaving(t)
Unspoiled == lost = {} /\ stale \cap Trade = {}

\* A locked trade has both keys and no request holds one for it; otherwise
\* one request at most holds the first key, and both when it is to save.
KeyHeld(t) ==
  /\ trades[t] = "LOCKED" =>
       /\ redis[First(t[1])] = t /\ redis[Second(t[1])] = t
       /\ \A w \in Worker : ~Holds(w, t)
  /\ \A w \in Worker : Holds(w, t) =>
       /\ redis[First(t[1])] = t
       /\ jobs[w].at = "save" => redis[Second(t[1])] = t
       /\ \A v \in Worker : Holds(v, t) => v = w
KeysHeld == Unspoiled => \A t \in Trade : Live(t) => KeyHeld(t)

IInv == TypeOK /\ JobsKnown /\ OffersSound /\ KeysHeld

----------------------------------------------------------------------------
(* Types.                                                                  *)

LEMMA TradeFacts ==
  /\ \A t \in Trade : t[1] \in Offer /\ \A i : ItemOf(t, i) \in Listing
  /\ Nobody \notin Trade
  /\ \A t \in Trade : ItemOf(t, 1) = First(t[1]) /\ ItemOf(t, 2) = Second(t[1])
  BY ListingsAssumption DEF Trade, ItemOf, Nobody

LEMMA IdleFacts ==
  /\ Idle \in JobType
  /\ Idle.op = "none" /\ Idle.at = "idle" /\ Idle.trade = Nobody /\ ~Idle.won
  BY DEF Idle, JobType

LEMMA TypeInit == Init => TypeOK
<1> SUFFICES ASSUME Init PROVE TypeOK
  OBVIOUS
<1> USE DEF Init
<1>1. jobs \in [Worker -> JobType]
  BY IdleFacts
<1> QED
  BY <1>1 DEF TypeOK, Answer

LEMMA TypeStep == TypeOK /\ [Next]_vars => TypeOK'
<1> SUFFICES ASSUME TypeOK, [Next]_vars PROVE TypeOK'
  OBVIOUS
<1> USE DEF TypeOK
<1>1. CASE UNCHANGED vars
  BY <1>1 DEF vars, offerVars, lockVars
<1>2. ASSUME NEW o \in Offer, MakeOffer(o) PROVE TypeOK'
  BY <1>2 DEF MakeOffer, lockVars
<1>3. ASSUME NEW c \in Clerk, NEW o \in Offer, NEW answer \in Answer,
             Reply(c, o, answer)
      PROVE TypeOK'
  BY <1>3 DEF Reply, lockVars
<1>4. ASSUME NEW c \in Clerk, SaveReply(c) PROVE TypeOK'
  <2>1. replies[c] \in (Answer \cup {"publish"}) \X Offer
    BY <1>4 DEF SaveReply, NoReply, Answer
  <2> QED
    BY <1>4, <2>1 DEF SaveReply, lockVars
<1>5. ASSUME NEW c \in Clerk, PublishAccepted(c) PROVE TypeOK'
  <2>1. replies[c] \in (Answer \cup {"publish"}) \X Offer
    BY <1>5 DEF PublishAccepted, NoReply
  <2> QED
    BY <1>5, <2>1 DEF PublishAccepted, lockVars
<1>6. ASSUME NEW c \in Clerk, ReplyDies(c) PROVE TypeOK'
  BY <1>6 DEF ReplyDies, lockVars
<1>7. ASSUME NEW mine \in SUBSET Offer, CancelOffersOf(mine) PROVE TypeOK'
  BY <1>7 DEF CancelOffersOf, lockVars, Answer
<1>8. ASSUME NEW t \in Trade, CreateFromOffer(t) PROVE TypeOK'
  BY <1>8 DEF CreateFromOffer
<1>9. ASSUME NEW w \in Worker, NEW t \in Trade,
             LockItems(w, t) \/ CancelTrade(w, t) \/ CompleteTrade(w, t)
      PROVE TypeOK'
  <2>1. PICK new \in JobType : new.trade = t /\ jobs' = [jobs EXCEPT ![w] = new]
    BY <1>9 DEF LockItems, CancelTrade, CompleteTrade, Request, JobType
  <2> QED
    BY <1>9, <2>1 DEF LockItems, CancelTrade, CompleteTrade, Request, offerVars
<1>10. ASSUME NEW w \in Worker, jobs[w].at # "idle" PROVE jobs[w].trade \in Trade
  BY <1>10, IdleFacts
<1>11. ASSUME NEW w \in Worker, SetKey(w) PROVE TypeOK'
  <2>1. jobs[w].trade \in Trade
    BY <1>10, <1>11 DEF SetKey
  <2>2. redis' \in [Listing -> Trade \cup {Nobody}]
    BY <1>11, <2>1, TradeFacts DEF SetKey
  <2>3. jobs' \in [Worker -> JobType]
    BY <1>11, IdleFacts DEF SetKey, Done, Goto, JobType
  <2>4. \A v \in Worker : jobs'[v] = Idle \/ jobs'[v].trade \in Trade
    BY <1>11, <2>1 DEF SetKey, Done, Goto, JobType
  <2> QED
    BY <1>11, <2>2, <2>3, <2>4 DEF SetKey, offerVars
<1>12. ASSUME NEW w \in Worker, UpdateCancelled(w) PROVE TypeOK'
  <2>1. jobs[w].trade \in Trade
    BY <1>10, <1>12 DEF UpdateCancelled
  <2> QED
    BY <1>12, <2>1 DEF UpdateCancelled, Goto, offerVars, JobType
<1>13. ASSUME NEW w \in Worker, jobs[w].trade \in Trade,
              AfterRelease(w) \/ Goto(w, "del")
       PROVE /\ jobs' \in [Worker -> JobType]
             /\ \A v \in Worker : jobs'[v] = Idle \/ jobs'[v].trade \in Trade
  BY <1>13, IdleFacts DEF AfterRelease, Goto, Done, JobType
<1>14. ASSUME NEW w \in Worker, GetKey(w) PROVE TypeOK'
  <2>1. jobs[w].trade \in Trade
    BY <1>10, <1>14 DEF GetKey
  <2> QED
    BY <1>13, <1>14, <2>1 DEF GetKey, offerVars
<1>15. ASSUME NEW w \in Worker, DelKey(w) PROVE TypeOK'
  <2>1. jobs[w].trade \in Trade
    BY <1>10, <1>15 DEF DelKey
  <2>2. redis' \in [Listing -> Trade \cup {Nobody}]
    BY <1>15 DEF DelKey
  <2> QED
    BY <1>13, <1>15, <2>1, <2>2 DEF DelKey, offerVars
<1>16. ASSUME NEW w \in Worker, SaveTrade(w) PROVE TypeOK'
  <2>1. jobs[w].trade \in Trade
    BY <1>10, <1>16 DEF SaveTrade
  <2> QED
    BY <1>16, <2>1, IdleFacts DEF SaveTrade, Done, StateAfter, offerVars
<1>17. ASSUME NEW w \in Worker, RequestDies(w) PROVE TypeOK'
  BY <1>17, IdleFacts DEF RequestDies, Done, offerVars
<1>18. ASSUME NEW l \in Listing, Expire(l) PROVE TypeOK'
  BY <1>18 DEF Expire, offerVars
<1> QED
  BY <1>1, <1>2, <1>3, <1>4, <1>5, <1>6, <1>7, <1>8, <1>9, <1>11, <1>12, <1>14,
     <1>15, <1>16, <1>17, <1>18 DEF Next

\* Rows, keys, copies in memory and history keep their types, for every set
\* of listings, offers and executions.
THEOREM TypeCorrect == Spec => []TypeOK
<1> QED
  BY TypeInit, TypeStep, PTL DEF Spec

----------------------------------------------------------------------------
(* Offers.                                                                 *)

LEMMA OffersInit == Init => OffersSound
  BY DEF Init, OffersSound, NoReply

\* Once an offer is accepted, only a save from an outdated copy says
\* otherwise, and the history tells.
LEMMA SoundStays ==
  ASSUME TypeOK, [Next]_vars, NEW o \in Offer, Sound(o)
  PROVE  Sound(o)'
<1> USE DEF Sound, TypeOK
<1>1. CASE UNCHANGED vars
  BY <1>1 DEF vars, offerVars
<1>2. ASSUME NEW p \in Offer, MakeOffer(p) PROVE Sound(o)'
  BY <1>2 DEF MakeOffer
<1>3. ASSUME NEW c \in Clerk, SaveReply(c) PROVE Sound(o)'
  BY <1>3 DEF SaveReply
<1>4. ASSUME NEW mine \in SUBSET Offer, CancelOffersOf(mine) PROVE Sound(o)'
  BY <1>4 DEF CancelOffersOf
<1>5. ASSUME NEW w \in Worker, SaveTrade(w) PROVE Sound(o)'
  BY <1>5 DEF SaveTrade, offerVars
<1>6. ASSUME UNCHANGED <<offers, stale>> PROVE Sound(o)'
  BY <1>6
<1> QED
  BY <1>1, <1>2, <1>3, <1>4, <1>5, <1>6
  DEF Next, Reply, PublishAccepted, ReplyDies, CreateFromOffer, LockItems, CancelTrade,
      CompleteTrade, Request, SetKey, UpdateCancelled, GetKey, DelKey, RequestDies,
      Expire, offerVars

LEMMA OffersStep == TypeOK /\ JobsKnown /\ OffersSound /\ [Next]_vars => OffersSound'
<1> SUFFICES ASSUME TypeOK, JobsKnown, OffersSound, [Next]_vars PROVE OffersSound'
  OBVIOUS
<1>1. \A o \in Offer : Sound(o) => Sound(o)'
  BY SoundStays
<1>2. ASSUME NEW t \in Trade, trades'[t] # "none" PROVE Sound(t[1])'
  <2>1. t[1] \in Offer
    BY TradeFacts
  <2>2. trades[t] # "none" \/ t[1] \in accepted
    <3>1. ASSUME NEW u \in Trade, CreateFromOffer(u)
          PROVE  trades[t] # "none" \/ t[1] \in accepted
      BY <1>2, <3>1 DEF CreateFromOffer, TypeOK
    <3>2. ASSUME NEW w \in Worker, SaveTrade(w), t = jobs[w].trade
          PROVE  trades[t] # "none"
      BY <3>2, IdleFacts DEF SaveTrade, JobsKnown
    <3>3. ASSUME NEW w \in Worker, SaveTrade(w), t # jobs[w].trade
          PROVE  trades'[t] = trades[t]
      BY <3>3 DEF SaveTrade, TypeOK
    <3>4. CASE UNCHANGED trades
      BY <1>2, <3>4
    <3> QED
      BY <1>2, <3>1, <3>2, <3>3, <3>4
      DEF Next, vars, lockVars, MakeOffer, Reply, SaveReply, PublishAccepted, ReplyDies,
          CancelOffersOf, LockItems, CancelTrade, CompleteTrade, Request, SetKey,
          UpdateCancelled, GetKey, DelKey, RequestDies, Expire
  <2> QED
    BY <1>1, <2>1, <2>2 DEF OffersSound
<1>3. ASSUME NEW o \in accepted' PROVE Sound(o)'
  <2>1. CASE o \in accepted
    BY <1>1, <2>1 DEF OffersSound, TypeOK
  <2>2. CASE o \notin accepted
    <3>1. PICK c \in Clerk : PublishAccepted(c)
      BY <1>3, <2>2
      DEF Next, vars, offerVars, MakeOffer, Reply, SaveReply, ReplyDies, CancelOffersOf,
          CreateFromOffer, LockItems, CancelTrade, CompleteTrade, Request, SetKey,
          UpdateCancelled, GetKey, DelKey, SaveTrade, RequestDies, Expire
    <3>2. o = replies[c][2] /\ replies[c][1] = "publish" /\ o \in Offer
      BY <1>3, <2>2, <3>1 DEF PublishAccepted, TypeOK, NoReply
    <3> QED
      BY <1>1, <3>2 DEF OffersSound
  <2> QED
    BY <2>1, <2>2
<1>4. ASSUME NEW c \in Clerk, replies'[c][1] = "publish" PROVE Sound(replies[c][2])'
  <2>1. CASE UNCHANGED <<replies>>
    BY <1>1, <1>4, <2>1 DEF OffersSound, TypeOK, NoReply
  <2>2. ASSUME NEW d \in Clerk, SaveReply(d) PROVE Sound(replies[c][2])'
    <3>1. replies[d] \in (Answer \cup {"publish"}) \X Offer
      BY <2>2 DEF SaveReply, TypeOK, NoReply, Answer
    <3>2. CASE d = c
      BY <1>4, <2>2, <3>1, <3>2 DEF SaveReply, Sound, TypeOK, NoReply
    <3>3. CASE d # c
      BY <1>1, <1>4, <2>2, <3>3 DEF SaveReply, OffersSound, TypeOK, NoReply
    <3> QED
      BY <3>2, <3>3
  <2>3. ASSUME NEW d \in Clerk, PublishAccepted(d) \/ ReplyDies(d)
        PROVE  Sound(replies[c][2])'
    BY <1>1, <1>4, <2>3 DEF PublishAccepted, ReplyDies, OffersSound, TypeOK, NoReply
  <2>4. ASSUME NEW d \in Clerk, NEW o \in Offer, NEW answer \in Answer,
               Reply(d, o, answer)
        PROVE  Sound(replies[c][2])'
    BY <1>1, <1>4, <2>4 DEF Reply, OffersSound, TypeOK, NoReply, Answer
  <2> QED
    BY <2>1, <2>2, <2>3, <2>4
    DEF Next, vars, offerVars, MakeOffer, CancelOffersOf, CreateFromOffer, LockItems,
        CancelTrade, CompleteTrade, Request, SetKey, UpdateCancelled, GetKey, DelKey,
        SaveTrade, RequestDies, Expire
<1> QED
  BY <1>2, <1>3, <1>4 DEF OffersSound, Sound

----------------------------------------------------------------------------
(* Requests.                                                               *)

LEMMA KnownInit == Init => JobsKnown
  BY IdleFacts DEF Init, JobsKnown, JobShape

\* A trade that exists goes on to exist.
LEMMA TradesStay ==
  ASSUME TypeOK, [Next]_vars, NEW t \in Trade, trades[t] # "none"
  PROVE  trades'[t] # "none"
<1>1. ASSUME NEW u \in Trade, CreateFromOffer(u) PROVE trades'[t] # "none"
  BY <1>1 DEF CreateFromOffer, TypeOK
<1>2. ASSUME NEW w \in Worker, SaveTrade(w) PROVE trades'[t] # "none"
  BY <1>2 DEF SaveTrade, StateAfter, TypeOK
<1>3. CASE UNCHANGED trades
  BY <1>3
<1> QED
  BY <1>1, <1>2, <1>3
  DEF Next, vars, lockVars, MakeOffer, Reply, SaveReply, PublishAccepted, ReplyDies,
      CancelOffersOf, LockItems, CancelTrade, CompleteTrade, Request, SetKey,
      UpdateCancelled, GetKey, DelKey, RequestDies, Expire

\* What each step of a request leaves in memory: the rest of memory is as it
\* was, and the request has done, or has gone on.
LEMMA Stepping ==
  ASSUME TypeOK, JobsKnown, NEW w \in Worker,
         SetKey(w) \/ UpdateCancelled(w) \/ GetKey(w) \/ DelKey(w) \/ SaveTrade(w)
           \/ RequestDies(w)
  PROVE  /\ \A v \in Worker \ {w} : jobs'[v] = jobs[v]
         /\ jobs[w] # Idle
         /\ JobShape(jobs'[w])
         /\ \/ jobs'[w] = Idle
            \/ jobs'[w].trade = jobs[w].trade /\ jobs'[w].op = jobs[w].op
               /\ jobs'[w].read = jobs[w].read
<1> USE DEF TypeOK
<1>1. jobs[w] \in JobType /\ JobShape(jobs[w]) /\ JobShape(Idle)
  BY IdleFacts DEF JobsKnown, JobShape
<1>2. CASE SetKey(w)
  <2>1. jobs[w].op = "lock" /\ jobs[w].at = "set" /\ jobs[w].read = "ACCEPTED"
    BY <1>1, <1>2, IdleFacts DEF SetKey, JobShape, JobType
  <2>2. CASE jobs[w].i = 1
    <3>1. jobs' = [jobs EXCEPT ![w].i = 2,
                     ![w].won = (redis[ItemOf(jobs[w].trade, jobs[w].i)] = Nobody)]
      BY <1>2, <2>2 DEF SetKey
    <3> QED
      BY <1>1, <2>1, <3>1, IdleFacts DEF JobShape, JobType
  <2>3. CASE jobs' = [jobs EXCEPT ![w] = Idle]
    BY <1>1, <2>1, <2>3, IdleFacts DEF JobType
  <2>4. CASE jobs' = [jobs EXCEPT ![w].at = "save"] /\ jobs[w].won
    BY <1>1, <2>1, <2>4, IdleFacts DEF JobShape, JobType
  <2>5. CASE jobs' = [jobs EXCEPT ![w].at = "get", ![w].i = 1] /\ jobs[w].won
    BY <1>1, <2>1, <2>5, IdleFacts DEF JobShape, JobType
  <2> QED
    BY <1>2, <2>2, <2>3, <2>4, <2>5 DEF SetKey, Done, Goto
<1>3. CASE UpdateCancelled(w)
  <2>1. jobs[w].op = "cancel" /\ jobs' = [jobs EXCEPT ![w].at = "get"]
    BY <1>1, <1>3, IdleFacts DEF UpdateCancelled, Goto, JobShape, JobType
  <2> QED
    BY <1>1, <1>3, <2>1, IdleFacts DEF JobShape, JobType, UpdateCancelled
<1>4. ASSUME jobs[w].at \in {"get", "del"}, AfterRelease(w) \/ Goto(w, "del")
      PROVE  /\ \A v \in Worker \ {w} : jobs'[v] = jobs[v]
             /\ JobShape(jobs'[w])
             /\ \/ jobs'[w] = Idle
                \/ jobs'[w].trade = jobs[w].trade /\ jobs'[w].op = jobs[w].op
                   /\ jobs'[w].read = jobs[w].read
  <2>1. jobs[w].op \in {"lock", "cancel"}
    BY <1>1, <1>4, IdleFacts DEF JobShape, JobType
  <2>2. CASE jobs' = [jobs EXCEPT ![w] = Idle]
    BY <1>1, <2>2
  <2>3. CASE jobs' = [jobs EXCEPT ![w].at = "del"]
    BY <1>1, <1>4, <2>1, <2>3, IdleFacts DEF JobShape, JobType
  <2>4. CASE jobs' = [jobs EXCEPT ![w].at = "get", ![w].i = 2] /\ jobs[w].op = "cancel"
    BY <1>1, <2>4, IdleFacts DEF JobShape, JobType
  <2>5. CASE jobs' = [jobs EXCEPT ![w].at = "save"] /\ jobs[w].op = "cancel"
    BY <1>1, <2>5, IdleFacts DEF JobShape, JobType
  <2> QED
    BY <1>4, <2>1, <2>2, <2>3, <2>4, <2>5 DEF AfterRelease, Done, Goto
<1>5. CASE GetKey(w)
  BY <1>4, <1>5, IdleFacts DEF GetKey
<1>6. CASE DelKey(w)
  BY <1>4, <1>6, IdleFacts DEF DelKey
<1>7. CASE SaveTrade(w)
  BY <1>1, <1>7, IdleFacts DEF SaveTrade, Done
<1>8. CASE RequestDies(w)
  BY <1>1, <1>8 DEF RequestDies, Done
<1> QED
  BY <1>2, <1>3, <1>5, <1>6, <1>7, <1>8

LEMMA Beginning ==
  ASSUME TypeOK, NEW w \in Worker, NEW t \in Trade,
         LockItems(w, t) \/ CancelTrade(w, t) \/ CompleteTrade(w, t)
  PROVE  /\ \A v \in Worker \ {w} : jobs'[v] = jobs[v]
         /\ jobs[w] = Idle /\ jobs'[w].trade = t /\ trades[t] # "none"
         /\ ~jobs'[w].won /\ jobs'[w].at \notin {"get", "del"}
         /\ JobShape(jobs'[w])
         /\ jobs'[w].op = "cancel" => jobs'[w].at = "update"
<1> USE DEF TypeOK
<1>1. CASE LockItems(w, t)
  BY <1>1 DEF LockItems, Request, JobShape
<1>2. CASE CancelTrade(w, t)
  BY <1>2 DEF CancelTrade, Request, JobShape
<1>3. CASE CompleteTrade(w, t)
  BY <1>3 DEF CompleteTrade, Request, JobShape
<1> QED
  BY <1>1, <1>2, <1>3

LEMMA KnownStep == TypeOK /\ JobsKnown /\ [Next]_vars => JobsKnown'
<1> SUFFICES ASSUME TypeOK, JobsKnown, [Next]_vars PROVE JobsKnown'
  OBVIOUS
<1>1. \A v \in Worker : jobs[v] # Idle => jobs[v].trade \in Trade
  BY DEF TypeOK
<1>2. \A v \in Worker : jobs[v] # Idle => trades'[jobs[v].trade] # "none"
  BY <1>1, TradesStay DEF JobsKnown
<1>3. ASSUME NEW w \in Worker,
             SetKey(w) \/ UpdateCancelled(w) \/ GetKey(w) \/ DelKey(w)
               \/ SaveTrade(w) \/ RequestDies(w)
      PROVE  JobsKnown'
  BY <1>2, <1>3, Stepping DEF JobsKnown
<1>4. ASSUME NEW w \in Worker, NEW t \in Trade,
             LockItems(w, t) \/ CancelTrade(w, t) \/ CompleteTrade(w, t)
      PROVE  JobsKnown'
  <2>1. trades'[t] # "none"
    BY <1>4, Beginning, TradesStay
  <2> QED
    BY <1>2, <1>4, <2>1, Beginning DEF JobsKnown
<1>5. CASE UNCHANGED jobs
  BY <1>2, <1>5 DEF JobsKnown
<1> QED
  BY <1>3, <1>4, <1>5
  DEF Next, vars, lockVars, MakeOffer, Reply, SaveReply, PublishAccepted, ReplyDies,
      CancelOffersOf, CreateFromOffer, Expire

----------------------------------------------------------------------------
(* Keys.                                                                   *)

LEMMA KeysInit == Init => KeysHeld
  BY DEF Init, KeysHeld, Live

LEMMA UnspoiledBefore == TypeOK /\ [Next]_vars /\ Unspoiled' => Unspoiled
<1> SUFFICES ASSUME [Next]_vars PROVE lost \subseteq lost' /\ stale \subseteq stale'
  BY DEF Unspoiled
<1> QED
  BY DEF Next, vars, lockVars, offerVars, MakeOffer, Reply, SaveReply, PublishAccepted,
         ReplyDies, CancelOffersOf, CreateFromOffer, LockItems, CancelTrade,
         CompleteTrade, Request, SetKey, UpdateCancelled, GetKey, DelKey, SaveTrade,
         RequestDies, Expire

\* Keys stay held for t through a step of one request that leaves the row and
\* the keys of t alone, does not take a key for t, and goes on to leave t if
\* it did.
LEMMA KeyFrame ==
  ASSUME TypeOK, KeysHeld, Unspoiled, NEW t \in Trade, Live(t)', NEW w \in Worker,
         trades'[t] = trades[t],
         \A l \in Listing : redis[l] = t => redis'[l] = t,
         \A v \in Worker \ {w} : jobs'[v] = jobs[v],
         Releasing(jobs[w]) /\ jobs[w].trade = t =>
           Releasing(jobs'[w]) /\ jobs'[w].trade = t,
         Holds(w, t)' => Holds(w, t) /\ (jobs'[w].at = "save" => jobs[w].at = "save")
  PROVE  KeyHeld(t)'
<1>1. Live(t)
  BY DEF Live, Leaving
<1>2. KeyHeld(t)
  BY <1>1 DEF KeysHeld
<1>3. First(t[1]) \in Listing /\ Second(t[1]) \in Listing
  BY ListingsAssumption, TradeFacts
<1>4. \A v \in Worker : Holds(v, t)' =>
        Holds(v, t) /\ (jobs'[v].at = "save" => jobs[v].at = "save")
  BY DEF Holds
<1> QED
  BY <1>2, <1>3, <1>4 DEF KeyHeld

\* A key that changes belonged to nobody, or to the trade of the request
\* that takes or deletes it.
LEMMA KeysOfOthers ==
  ASSUME TypeOK, NEW w \in Worker, jobs[w].trade \in Trade, NEW t \in Trade,
         SetKey(w) \/ (DelKey(w) /\ lost' = {} /\ jobs[w].trade # t),
         NEW l \in Listing, redis[l] = t
  PROVE  redis'[l] = t
<1>1. CASE SetKey(w)
  BY <1>1, TradeFacts DEF SetKey, TypeOK
<1>2. CASE DelKey(w) /\ lost' = {} /\ jobs[w].trade # t
  <2>1. redis[ItemOf(jobs[w].trade, jobs[w].i)] \in {Nobody, jobs[w].trade}
    BY <1>2 DEF DelKey
  <2>2. l # ItemOf(jobs[w].trade, jobs[w].i)
    BY <1>2, <2>1, TradeFacts
  <2> QED
    BY <1>2, <2>2 DEF DelKey, TypeOK
<1> QED
  BY <1>1, <1>2

LEMMA SetKeyHolds ==
  ASSUME TypeOK, JobsKnown, KeysHeld, Unspoiled, NEW t \in Trade, Live(t)',
         NEW w \in Worker, SetKey(w)
  PROVE  KeyHeld(t)'
<1> DEFINE u == jobs[w].trade
<1>1. /\ jobs[w].op = "lock" /\ jobs[w].at = "set" /\ u \in Trade
      /\ jobs[w] \in JobType /\ (jobs[w].i = 1 => ~jobs[w].won)
  BY IdleFacts DEF SetKey, JobsKnown, JobShape, JobType, TypeOK
<1>2. /\ \A v \in Worker \ {w} : jobs'[v] = jobs[v]
      /\ jobs'[w] = Idle \/ (jobs'[w].trade = u /\ jobs'[w].op = "lock")
  BY <1>1, Stepping
<1>3. trades'[t] = trades[t]
  BY DEF SetKey
<1>4. \A l \in Listing : redis[l] = t => redis'[l] = t
  BY <1>1, KeysOfOthers
<1>5. ~Releasing(jobs[w])
  BY <1>1 DEF Releasing
<1>6. Live(t)
  BY <1>2, <1>3, <1>5 DEF Live, Leaving
<1>7. KeyHeld(t)
  BY <1>6 DEF KeysHeld
<1>8. CASE Holds(w, t)' => Holds(w, t) /\ (jobs'[w].at = "save" => jobs[w].at = "save")
  BY <1>2, <1>3, <1>4, <1>5, <1>8, KeyFrame
<1>9. ASSUME Holds(w, t)', ~Holds(w, t) \/ jobs'[w].at = "save"
      PROVE  KeyHeld(t)'
  <2>1. u = t /\ jobs'[w].won
    BY <1>2, <1>9, IdleFacts DEF Holds
  <2>2. First(t[1]) \in Listing /\ Second(t[1]) \in Listing
    BY ListingsAssumption, TradeFacts
  <2>3. CASE jobs[w].i = 1
    <3>1. /\ redis[First(t[1])] = Nobody /\ redis'[First(t[1])] = t
          /\ jobs'[w].at = "set"
      <4>1. ItemOf(u, jobs[w].i) = First(t[1])
        BY <1>1, <2>1, <2>3, TradeFacts
      <4>2. jobs' = [jobs EXCEPT ![w].i = 2,
                       ![w].won = (redis[ItemOf(jobs[w].trade, jobs[w].i)] = Nobody)]
        BY <2>3 DEF SetKey
      <4>3. /\ jobs'[w].won <=> redis[ItemOf(jobs[w].trade, jobs[w].i)] = Nobody
            /\ jobs'[w].at = "set"
        BY <1>1, <4>2 DEF TypeOK, JobType
      <4>4. redis[First(t[1])] = Nobody
        BY <2>1, <4>1, <4>3
      <4> QED
        BY <2>1, <2>2, <4>1, <4>3, <4>4 DEF SetKey, TypeOK
    <3>2. trades[t] # "LOCKED" /\ \A v \in Worker : ~Holds(v, t)
      BY <1>7, <3>1, TradeFacts DEF KeyHeld
    <3>3. \A v \in Worker : Holds(v, t)' => v = w
      BY <1>2, <3>2 DEF Holds
    <3> QED
      BY <1>3, <3>1, <3>2, <3>3 DEF KeyHeld
  <2>4. CASE jobs[w].i # 1
    <3>1. Holds(w, t) /\ jobs'[w].at = "save" /\ redis[Second(t[1])] = Nobody
      BY <1>1, <1>9, <2>1, <2>4, IdleFacts, TradeFacts
      DEF SetKey, TypeOK, Done, Goto, Holds, JobType
    <3>2. redis'[Second(t[1])] = t /\ redis'[First(t[1])] = t
      BY <1>1, <1>4, <1>7, <2>1, <2>2, <2>4, <3>1, TradeFacts
      DEF SetKey, TypeOK, KeyHeld, JobType
    <3>3. \A v \in Worker : Holds(v, t)' => v = w
      BY <1>2, <1>7, <3>1 DEF Holds, KeyHeld
    <3>4. trades[t] # "LOCKED"
      BY <1>7, <3>1 DEF KeyHeld
    <3> QED
      BY <1>3, <3>2, <3>3, <3>4 DEF KeyHeld
  <2> QED
    BY <2>3, <2>4
<1> QED
  BY <1>8, <1>9

LEMMA SaveTradeHolds ==
  ASSUME TypeOK, JobsKnown, KeysHeld, Unspoiled, Unspoiled', NEW t \in Trade, Live(t)',
         NEW w \in Worker, SaveTrade(w)
  PROVE  KeyHeld(t)'
<1> DEFINE u == jobs[w].trade
<1>1. /\ jobs[w].at = "save" /\ jobs[w].op \in {"lock", "cancel", "complete"}
      /\ u \in Trade /\ jobs[w] \in JobType /\ JobShape(jobs[w])
  BY IdleFacts DEF SaveTrade, JobsKnown, JobShape, JobType, TypeOK
<1>2. jobs' = [jobs EXCEPT ![w] = Idle] /\ redis' = redis
  BY DEF SaveTrade, Done
<1>3. CASE t # u
  BY <1>2, <1>3, IdleFacts, KeyFrame DEF SaveTrade, TypeOK, Holds
<1>4. CASE t = u
  <2>1. jobs[w].op = "lock"
    BY <1>1, <1>4 DEF SaveTrade, StateAfter, Live, TypeOK
  <2>2. trades[t] = "ACCEPTED"
    BY <1>1, <1>4, <2>1 DEF SaveTrade, Unspoiled, JobShape
  <2>3. ~Leaving(t)
    BY <1>4, <2>1 DEF SaveTrade, RowLocked, Leaving, Releasing
  <2>4. KeyHeld(t) /\ Holds(w, t)
    BY <1>1, <1>4, <2>1, <2>2, <2>3 DEF KeysHeld, Live, Holds, JobShape
  <2>5. \A v \in Worker : ~Holds(v, t)'
    BY <1>2, <2>4, IdleFacts DEF Holds, KeyHeld, TypeOK
  <2> QED
    BY <1>1, <1>2, <2>4, <2>5 DEF KeyHeld
<1> QED
  BY <1>3, <1>4

LEMMA ReleaseHolds ==
  ASSUME TypeOK, JobsKnown, KeysHeld, Unspoiled, Unspoiled', NEW t \in Trade, Live(t)',
         NEW w \in Worker, GetKey(w) \/ DelKey(w)
  PROVE  KeyHeld(t)'
<1> DEFINE u == jobs[w].trade
<1>1. /\ jobs[w].op \in {"lock", "cancel"} /\ jobs[w].at \in {"get", "del"}
      /\ u \in Trade /\ jobs[w] \in JobType /\ JobShape(jobs[w])
  BY IdleFacts DEF GetKey, DelKey, JobsKnown, JobShape, JobType, TypeOK
<1>2. /\ \A v \in Worker \ {w} : jobs'[v] = jobs[v]
      /\ jobs'[w] = Idle \/ (jobs'[w].trade = u /\ jobs'[w].op = jobs[w].op)
  BY Stepping
<1>3. trades'[t] = trades[t]
  BY DEF GetKey, DelKey
<1>4. Releasing(jobs[w]) => Releasing(jobs'[w]) /\ jobs'[w].trade = u
  BY <1>1, IdleFacts
  DEF GetKey, DelKey, AfterRelease, Releasing, Goto, Done, JobType, TypeOK
<1>5. Holds(w, t)' => Holds(w, t) /\ jobs'[w].at # "save"
  BY <1>1, <1>2, IdleFacts
  DEF GetKey, DelKey, AfterRelease, Holds, Goto, Done, JobType, TypeOK, JobShape
<1>6. CASE GetKey(w) \/ t # u
  <2>1. \A l \in Listing : redis[l] = t => redis'[l] = t
    BY <1>1, <1>6, KeysOfOthers DEF GetKey, Unspoiled
  <2> QED
    BY <1>2, <1>3, <1>4, <1>5, <2>1, KeyFrame
<1>7. CASE DelKey(w) /\ t = u
  <2>1. jobs[w].op = "lock"
    BY <1>1, <1>4, <1>7 DEF Live, Leaving, Releasing
  <2>2. Holds(w, t) /\ jobs'[w] = Idle
    BY <1>1, <1>7, <2>1 DEF Holds, JobShape, DelKey, AfterRelease, Done, TypeOK
  <2>3. Live(t)
    BY <1>2, <1>3, <1>4 DEF Live, Leaving
  <2>4. KeyHeld(t)
    BY <2>3 DEF KeysHeld
  <2>5. trades'[t] # "LOCKED" /\ \A v \in Worker : ~Holds(v, t)'
    BY <1>2, <1>3, <2>2, <2>4, IdleFacts DEF Holds, KeyHeld
  <2> QED
    BY <2>5 DEF KeyHeld
<1> QED
  BY <1>6, <1>7

LEMMA KeysStep == TypeOK /\ JobsKnown /\ KeysHeld /\ [Next]_vars => KeysHeld'
<1> SUFFICES ASSUME TypeOK, JobsKnown, KeysHeld, [Next]_vars, Unspoiled',
                    NEW t \in Trade, Live(t)'
             PROVE  KeyHeld(t)'
  BY DEF KeysHeld
<1>1. Unspoiled
  BY UnspoiledBefore
<1>2. CASE UNCHANGED lockVars
  BY <1>1, <1>2 DEF lockVars, KeysHeld, Live, Leaving, Releasing, KeyHeld, Holds
<1>3. ASSUME NEW u \in Trade, CreateFromOffer(u) PROVE KeyHeld(t)'
  <2>1. CASE t = u
    <3>1. \A w \in Worker : ~Holds(w, t)
      BY <1>3, <2>1, IdleFacts DEF CreateFromOffer, JobsKnown, Holds
    <3> QED
      BY <1>3, <2>1, <3>1 DEF CreateFromOffer, KeyHeld, Holds, TypeOK
  <2>2. CASE t # u
    BY <1>1, <1>3, <2>2
    DEF CreateFromOffer, KeysHeld, Live, Leaving, Releasing, KeyHeld, Holds, TypeOK
  <2> QED
    BY <2>1, <2>2
<1>4. ASSUME NEW w \in Worker, NEW u \in Trade,
             LockItems(w, u) \/ CancelTrade(w, u) \/ CompleteTrade(w, u)
      PROVE  KeyHeld(t)'
  <2>1. trades' = trades /\ redis' = redis
    BY <1>4 DEF LockItems, CancelTrade, CompleteTrade, Request
  <2>2. ~Releasing(jobs[w]) /\ ~Holds(w, t)'
    BY <1>4, Beginning, IdleFacts DEF Releasing, Holds
  <2> QED
    BY <1>1, <1>4, <2>1, <2>2, Beginning, KeyFrame
<1>5. ASSUME NEW w \in Worker, SetKey(w) PROVE KeyHeld(t)'
  BY <1>1, <1>5, SetKeyHolds
<1>6. ASSUME NEW w \in Worker, UpdateCancelled(w) PROVE KeyHeld(t)'
  <2>1. ~Releasing(jobs[w]) /\ jobs[w].op = "cancel"
    BY <1>6, IdleFacts DEF UpdateCancelled, Releasing, JobsKnown, JobShape, TypeOK, JobType
  <2>2. /\ \A v \in Worker \ {w} : jobs'[v] = jobs[v]
        /\ jobs'[w].op = "cancel"
    BY <1>6, <2>1 DEF UpdateCancelled, Goto, TypeOK, JobType
  <2>3. trades' = trades /\ redis' = redis /\ ~Holds(w, t)'
    BY <1>6, <2>2 DEF UpdateCancelled, Holds
  <2> QED
    BY <1>1, <2>1, <2>2, <2>3, KeyFrame
<1>7. ASSUME NEW w \in Worker, GetKey(w) \/ DelKey(w) PROVE KeyHeld(t)'
  BY <1>1, <1>7, ReleaseHolds
<1>8. ASSUME NEW w \in Worker, SaveTrade(w) PROVE KeyHeld(t)'
  BY <1>1, <1>8, SaveTradeHolds
<1>9. ASSUME NEW w \in Worker, RequestDies(w) PROVE KeyHeld(t)'
  <2>1. ~Releasing(jobs[w]) /\ jobs' = [jobs EXCEPT ![w] = Idle]
    BY <1>9 DEF RequestDies, Unspoiled, Done
  <2>2. trades' = trades /\ redis' = redis /\ ~Holds(w, t)'
    BY <1>9, <2>1, IdleFacts DEF RequestDies, Holds, TypeOK
  <2> QED
    BY <1>1, <2>1, <2>2, KeyFrame DEF TypeOK
<1>10. ASSUME NEW l \in Listing, Expire(l) PROVE KeyHeld(t)'
  BY <1>10 DEF Expire, Unspoiled
<1> QED
  BY <1>2, <1>3, <1>4, <1>5, <1>6, <1>7, <1>8, <1>9, <1>10
  DEF Next, vars, MakeOffer, Reply, SaveReply, PublishAccepted, ReplyDies, CancelOffersOf

----------------------------------------------------------------------------
(* The theorems.                                                           *)

LEMMA Inductive == Spec => []IInv
<1>1. Init => IInv
  BY TypeInit, KnownInit, OffersInit, KeysInit DEF IInv
<1>2. IInv /\ [Next]_vars => IInv'
  BY TypeStep, KnownStep, OffersStep, KeysStep DEF IInv
<1> QED
  BY <1>1, <1>2, PTL DEF Spec

\* A trade exists only for an offer that says it was accepted, or that two
\* answers were given to from the same pending copy, for any number of offers,
\* requests at once, redeliveries and crashes.
THEOREM OfferWasAccepted == Spec => []TradeMatchesOffer
<1>1. IInv => TradeMatchesOffer
  BY DEF IInv, OffersSound, Sound, TradeMatchesOffer
<1> QED
  BY <1>1, Inductive, PTL

\* No listing is locked for two trades, for any number of listings, trades
\* and executions, unless the exclusion was lost in one of the four ways that
\* LocksExclude names.
THEOREM ListingsAreExclusive == Spec => []LocksExclude
<1>1. IInv => LocksExclude
  <2> SUFFICES ASSUME IInv, lost = {}, stale \cap Trade = {},
                      NEW t \in Trade, NEW u \in Trade, Keeps(t), Keeps(u), t # u
               PROVE  Items(t) \cap Items(u) = {}
    BY DEF LocksExclude
  <2>1. KeyHeld(t) /\ KeyHeld(u)
    BY DEF IInv, KeysHeld, Unspoiled, Keeps, Live
  <2>2. /\ redis[First(t[1])] = t /\ redis[Second(t[1])] = t
        /\ redis[First(u[1])] = u /\ redis[Second(u[1])] = u
    BY <2>1 DEF KeyHeld, Keeps
  <2> QED
    BY <2>2 DEF Items
<1> QED
  BY <1>1, Inductive, PTL

----------------------------------------------------------------------------
(* Listings: ListingFollowsTrades and ReplyCountRight, for every number of *)
(* trades, visitors and executions.                                        *)

Keys == {"locked", "cancelled", "completed"}
Statuses == {"active", "locked", "traded", "archived"}
QuestionType == [asked : {"no", "yes", "gone"}, answered : BOOLEAN, count : Nat]
TaskType ==
  {NoTask} \cup [do : {"delete", "insert"}] \cup [do : {"apply"}, key : Keys]
    \cup [do : {"save"}, to : Statuses, read : Statuses, boost : BOOLEAN, images : BOOLEAN]
    \cup [do : {"count", "answer"}, seen : Nat]

ListingsTypeOK ==
  /\ status \in Statuses /\ boosted \in BOOLEAN
  /\ question \in QuestionType /\ replyRows \in Nat
  /\ inbox \in Seq(Keys) /\ word \in Keys \cup {"none"}
  /\ tasks \in [Server -> TaskType]
  /\ mishaps \in Nat

\* The handlers of messages, one at a time, take the last word there: it is
\* the last in the inbox, or the one that is being applied, or has been.
Told ==
  "listing" \notin disturbed =>
    /\ \A v, w \in Applying : v = w
    /\ inbox # <<>> => inbox[Len(inbox)] = word
    /\ inbox = <<>> => \A w \in Applying : tasks[w].key = word
    /\ inbox = <<>> /\ Applying = {} /\ word # "none" => status \in {StatusFor(word), "archived"}

\* A copy that is saved has the status that was read, or archives.
Copies == \A w \in Server : tasks[w].do = "save" => tasks[w].to \in {tasks[w].read, "archived"}

\* Each reply is counted or about to be.
Counting == {w \in Server : tasks[w].do = "count"}
Replied ==
  /\ question.asked = "no" => Counting = {}
  /\ question.asked # "yes" => replyRows = 0 /\ question.count = 0
  /\ mishaps = 0 /\ "question" \notin disturbed /\ question.asked = "yes" =>
       IsFiniteSet(Counting) /\ question.count + Cardinality(Counting) = replyRows

ListingInv == ListingsTypeOK /\ Told /\ Copies /\ Replied

LEMMA TaskShapes ==
  /\ NoTask \in TaskType /\ NoTask.do = "none"
  /\ \A task \in TaskType :
       /\ task.do \in {"none", "delete", "insert", "apply", "save", "count", "answer"}
       /\ task.do = "none" <=> task = NoTask
       /\ task.do = "apply" => task.key \in Keys
       /\ task.do = "save" => /\ task.to \in Statuses /\ task.read \in Statuses
                             /\ task.boost \in BOOLEAN /\ task.images \in BOOLEAN
       /\ task.do = "answer" => task.seen \in Nat
  BY DEF NoTask, TaskType

LEMMA ListingsStart == ListingsInit => ListingInv
<1> SUFFICES ASSUME ListingsInit PROVE ListingInv
  OBVIOUS
<1>1. ListingsTypeOK
  <2>1. question = [asked |-> "no", answered |-> FALSE, count |-> 0]
    BY DEF ListingsInit
  <2>2. question \in QuestionType
    BY <2>1 DEF QuestionType
  <2>3. tasks \in [Server -> TaskType]
    BY TaskShapes DEF ListingsInit
  <2>4. inbox \in Seq(Keys)
    BY DEF ListingsInit
  <2> QED
    BY <2>2, <2>3, <2>4 DEF ListingsInit, ListingsTypeOK, Statuses
<1>2. \A w \in Server : tasks[w].do = "none"
  BY TaskShapes DEF ListingsInit
<1>3. Applying = {} /\ Counting = {} /\ Copies
  BY <1>2 DEF Applying, Counting, Copies
<1>4. Told
  BY <1>3 DEF ListingsInit, Told
<1>5. Replied
  BY <1>3 DEF ListingsInit, Replied
<1> QED
  BY <1>1, <1>3, <1>4, <1>5 DEF ListingInv

\* A step beside the messages of trade-service, that may archive the listing.
LEMMA BesideNews ==
  ASSUME ListingInv, NEW w \in Server, NEW new \in TaskType, new.do # "apply",
         tasks[w].do # "apply" \/ new = tasks[w], tasks' = [tasks EXCEPT ![w] = new],
         UNCHANGED <<inbox, word>>,
         "listing" \notin disturbed' =>
           "listing" \notin disturbed /\ status' \in {status, "archived"}
  PROVE  Told'
<1>1. tasks \in [Server -> TaskType]
  BY DEF ListingInv, ListingsTypeOK
<1>2. Applying' = Applying /\ \A v \in Applying : tasks'[v] = tasks[v]
  BY <1>1 DEF Applying
<1> QED
  BY <1>2 DEF ListingInv, Told

\* A step beside the replies.
LEMMA BesideReplies ==
  ASSUME ListingInv, NEW w \in Server, NEW new \in TaskType, new.do # "count",
         tasks[w].do # "count", tasks' = [tasks EXCEPT ![w] = new],
         UNCHANGED <<question, replyRows, mishaps>>,
         "question" \notin disturbed' => "question" \notin disturbed
  PROVE  Replied'
<1>1. Counting' = Counting
  BY DEF Counting, ListingInv, ListingsTypeOK
<1> QED
  BY <1>1 DEF ListingInv, Replied

LEMMA SameTasks ==
  ASSUME ListingInv, UNCHANGED tasks
  PROVE  /\ Copies' /\ Counting' = Counting
         /\ UNCHANGED <<inbox, word>> /\ disturbed \subseteq disturbed'
            /\ status' \in {status, "archived"} => Told'
         /\ UNCHANGED <<question, replyRows, mishaps>> /\ disturbed \subseteq disturbed' =>
              Replied'
<1>1. Counting' = Counting /\ Applying' = Applying
  BY DEF Counting, Applying
<1> QED
  BY <1>1 DEF ListingInv, Copies, Told, Replied

----------------------------------------------------------------------------
LEMMA AnnounceKeeps ==
  ASSUME ListingInv, NEW d \in Deal, Announce(d)
  PROVE  ListingInv'
<1>1. PICK key \in Keys :
        /\ inbox' = Append(inbox, key) /\ word' = key
        /\ UNCHANGED <<status, boosted, images, favorites, reports, question, replyRows,
                       tasks, disturbed, mishaps>>
  BY DEF Announce, Keys, listingVars, socialVars
<1>2. inbox \in Seq(Keys)
  BY DEF ListingInv, ListingsTypeOK
<1>3. inbox' \in Seq(Keys) /\ inbox' # <<>> /\ inbox'[Len(inbox')] = word'
  BY <1>1, <1>2, AppendProperties
<1>4. ListingsTypeOK'
  BY <1>1, <1>3 DEF ListingInv, ListingsTypeOK
<1>5. Applying' = Applying
  BY <1>1 DEF Applying
<1>6. Told'
  BY <1>1, <1>3, <1>5 DEF ListingInv, Told
<1> QED
  BY <1>1, <1>4, <1>6, SameTasks DEF ListingInv

LEMMA ReceiveKeeps ==
  ASSUME ListingInv, NEW w \in Server, Receive(w)
  PROVE  ListingInv'
<1> DEFINE new == [do |-> "apply", key |-> Head(inbox)]
<1>1. /\ inbox \in Seq(Keys) /\ inbox # <<>> /\ inbox' = Tail(inbox)
      /\ tasks[w] = NoTask /\ tasks' = [tasks EXCEPT ![w] = new]
      /\ disturbed' = IF Applying = {} THEN disturbed ELSE disturbed \cup {"listing"}
      /\ UNCHANGED <<status, boosted, images, favorites, reports, question, replyRows,
                     deals, word, mishaps>>
      /\ tasks \in [Server -> TaskType]
  BY DEF Receive, Start, ListingInv, ListingsTypeOK, listingVars, socialVars
<1>2. /\ Head(inbox) \in Keys /\ inbox' \in Seq(Keys)
      /\ inbox' # <<>> => inbox'[Len(inbox')] = inbox[Len(inbox)]
      /\ inbox' = <<>> => Head(inbox) = inbox[Len(inbox)]
  <2>1. /\ Head(inbox) = inbox[1] /\ Head(inbox) \in Keys /\ inbox' \in Seq(Keys)
        /\ Len(inbox') = Len(inbox) - 1 /\ Len(inbox) \in Nat /\ Len(inbox) # 0
        /\ \A i \in 1 .. Len(inbox') : inbox'[i] = inbox[i + 1]
    BY <1>1, HeadTailProperties, EmptySeq, LenProperties
  <2>2. inbox' = <<>> <=> Len(inbox') = 0
    BY <2>1, EmptySeq
  <2> QED
    BY <2>1, <2>2
<1>3. new \in TaskType /\ new.do = "apply" /\ new.key = Head(inbox)
  BY <1>2 DEF TaskType
<1> HIDE DEF new
<1>4. ListingsTypeOK'
  BY <1>1, <1>2, <1>3 DEF ListingInv, ListingsTypeOK
<1>5. Copies' /\ Replied'
  BY <1>1, <1>3, TaskShapes, BesideReplies DEF ListingInv, Copies
<1>6. Told'
  <2> SUFFICES ASSUME "listing" \notin disturbed'
               PROVE  /\ Applying' = {w}
                      /\ inbox' # <<>> => inbox'[Len(inbox')] = word
                      /\ inbox' = <<>> => tasks'[w].key = word
    BY <1>1 DEF Told
  <2>1. Applying = {} /\ "listing" \notin disturbed
    BY <1>1
  <2>2. Applying' = {w}
    BY <1>1, <1>3, <2>1 DEF Applying
  <2> QED
    BY <1>1, <1>2, <1>3, <2>1, <2>2 DEF ListingInv, Told
<1> QED
  BY <1>4, <1>5, <1>6 DEF ListingInv

LEMMA ApplyKeeps ==
  ASSUME ListingInv, NEW w \in Server, Apply(w)
  PROVE  ListingInv'
<1>1. /\ tasks[w].do = "apply" /\ tasks[w].key \in Keys
      /\ status' = StatusFor(tasks[w].key) /\ tasks' = [tasks EXCEPT ![w] = NoTask]
      /\ UNCHANGED <<boosted, images, question, replyRows, inbox, deals, word,
                     disturbed, mishaps>>
      /\ tasks \in [Server -> TaskType]
  BY TaskShapes DEF Apply, Then, ListingInv, ListingsTypeOK, socialVars, newsVars
<1>2. ListingsTypeOK'
  BY <1>1, TaskShapes DEF ListingInv, ListingsTypeOK, StatusFor, Statuses
<1>3. Copies' /\ Replied'
  BY <1>1, TaskShapes, BesideReplies DEF ListingInv, Copies
<1>4. Told'
  <2>1. Applying' = Applying \ {w} /\ w \in Applying
    BY <1>1, TaskShapes DEF Applying
  <2> QED
    BY <1>1, <2>1 DEF ListingInv, Told
<1> QED
  BY <1>2, <1>3, <1>4 DEF ListingInv

\* A request that reads the listing, and the copy that it will save.
LEMMA ReadKeeps ==
  ASSUME ListingInv, NEW w \in Server, NEW to \in {status, "archived"},
         NEW boost \in BOOLEAN, NEW new \in BOOLEAN, Start(w, SaveTask(to, boost, new)),
         UNCHANGED <<listingVars, socialVars, newsVars, disturbed, mishaps>>
  PROVE  ListingInv'
<1> DEFINE task == SaveTask(to, boost, new)
<1>1. /\ tasks[w] = NoTask /\ tasks' = [tasks EXCEPT ![w] = task]
      /\ tasks \in [Server -> TaskType]
      /\ UNCHANGED <<status, boosted, question, replyRows, inbox, word, disturbed, mishaps>>
  BY DEF Start, ListingInv, ListingsTypeOK, listingVars, socialVars, newsVars
<1>2. /\ task \in TaskType /\ task.do = "save"
      /\ task.to = to /\ task.read = status
  BY DEF SaveTask, TaskType, ListingInv, ListingsTypeOK, Statuses
<1> HIDE DEF task
<1>3. ListingsTypeOK' /\ Copies'
  BY <1>1, <1>2 DEF ListingInv, ListingsTypeOK, Copies
<1> QED
  BY <1>1, <1>2, <1>3, TaskShapes, BesideNews, BesideReplies DEF ListingInv

LEMMA SaveListingKeeps ==
  ASSUME ListingInv, NEW w \in Server, SaveListing(w)
  PROVE  ListingInv'
<1> DEFINE new == IF tasks[w].images THEN [do |-> "delete"] ELSE NoTask
<1>1. /\ tasks[w].do = "save" /\ status' = tasks[w].to /\ boosted' = tasks[w].boost
      /\ disturbed' = IF status = tasks[w].read THEN disturbed
                      ELSE disturbed \cup {"listing"}
      /\ tasks' = [tasks EXCEPT ![w] = new] /\ tasks \in [Server -> TaskType]
      /\ UNCHANGED <<question, replyRows, inbox, word, mishaps>>
  BY DEF SaveListing, Then, ListingInv, ListingsTypeOK, socialVars, newsVars
<1>2. new \in TaskType /\ new.do \in {"delete", "none"}
  BY TaskShapes DEF TaskType
<1> HIDE DEF new
<1>3. ListingsTypeOK' /\ Copies'
  BY <1>1, <1>2, TaskShapes DEF ListingInv, ListingsTypeOK, Copies
<1>4. tasks[w].to \in {tasks[w].read, "archived"}
  BY <1>1 DEF ListingInv, Copies
<1>5. Told'
  BY <1>1, <1>2, <1>4, BesideNews
<1>6. Replied'
  BY <1>1, <1>2, BesideReplies
<1> QED
  BY <1>3, <1>5, <1>6 DEF ListingInv

\* Steps of the images and of an answer that is begun.
LEMMA MoveOn ==
  ASSUME ListingInv, NEW w \in Server, NEW new \in TaskType,
         tasks[w].do \notin {"apply", "count"},
         new.do \notin {"apply", "save", "count"}, tasks' = [tasks EXCEPT ![w] = new],
         UNCHANGED <<status, boosted, socialVars, newsVars, disturbed, mishaps>>
  PROVE  ListingInv'
<1>1. ListingsTypeOK' /\ Copies'
  BY DEF ListingInv, ListingsTypeOK, Copies, socialVars, newsVars
<1>2. Told' /\ Replied'
  BY BesideNews, BesideReplies DEF socialVars, newsVars
<1> QED
  BY <1>1, <1>2 DEF ListingInv

LEMMA AddReplyKeeps ==
  ASSUME ListingInv, NEW w \in Server, AddReply(w)
  PROVE  ListingInv'
<1> DEFINE new == [do |-> "count", seen |-> question.count]
<1>1. /\ question.asked = "yes" /\ replyRows' = replyRows + 1 /\ replyRows \in Nat
      /\ tasks[w] = NoTask /\ tasks' = [tasks EXCEPT ![w] = new]
      /\ tasks \in [Server -> TaskType] /\ question \in QuestionType
      /\ UNCHANGED <<status, boosted, question, inbox, word, disturbed, mishaps>>
  BY DEF AddReply, Start, ListingInv, ListingsTypeOK, listingVars, newsVars
<1>2. new \in TaskType /\ new.do = "count"
  BY <1>1 DEF TaskType, QuestionType
<1> HIDE DEF new
<1>3. ListingsTypeOK' /\ Copies'
  BY <1>1, <1>2 DEF ListingInv, ListingsTypeOK, Copies
<1>4. Told'
  BY <1>1, <1>2, TaskShapes, BesideNews
<1>5. Replied'
  <2> SUFFICES ASSUME mishaps = 0, "question" \notin disturbed
               PROVE  /\ IsFiniteSet(Counting')
                      /\ question'.count + Cardinality(Counting') = replyRows'
    <3>1. question'.asked = "yes"
      BY <1>1
    <3> QED
      BY <1>1, <3>1 DEF Replied
  <2>1. IsFiniteSet(Counting) /\ question.count + Cardinality(Counting) = replyRows
    BY <1>1 DEF ListingInv, Replied
  <2>2. Counting' = Counting \cup {w} /\ w \notin Counting
    BY <1>1, <1>2, TaskShapes DEF Counting
  <2>3. question.count \in Nat /\ Cardinality(Counting) \in Nat
    BY <1>1, <2>1, FS_CardinalityType DEF QuestionType
  <2> QED
    <3>1. /\ IsFiniteSet(Counting \cup {w})
          /\ Cardinality(Counting \cup {w}) = Cardinality(Counting) + 1
      BY <2>1, <2>2, FS_AddElement
    <3> QED
      BY <1>1, <2>1, <2>2, <2>3, <3>1
<1> QED
  BY <1>3, <1>4, <1>5 DEF ListingInv

LEMMA CountReplyKeeps ==
  ASSUME ListingInv, NEW w \in Server, CountReply(w)
  PROVE  ListingInv'
<1>1. /\ tasks[w].do = "count" /\ tasks' = [tasks EXCEPT ![w] = NoTask]
      /\ question' = IF question.asked = "yes" THEN [question EXCEPT !.count = @ + 1]
                     ELSE question
      /\ tasks \in [Server -> TaskType] /\ question \in QuestionType /\ replyRows \in Nat
      /\ UNCHANGED <<status, boosted, replyRows, inbox, word, disturbed, mishaps>>
  BY DEF CountReply, Then, ListingInv, ListingsTypeOK, listingVars, newsVars
<1>2. ListingsTypeOK' /\ Copies'
  BY <1>1, TaskShapes DEF ListingInv, ListingsTypeOK, Copies, QuestionType
<1>3. Told'
  BY <1>1, TaskShapes, BesideNews
<1>4. Counting' = Counting \ {w} /\ w \in Counting
  BY <1>1, TaskShapes DEF Counting
<1>5. Replied'
  <2>1. CASE question.asked = "yes"
    <3>1. /\ question'.asked = "yes" /\ question'.count = question.count + 1
          /\ question.count \in Nat
      BY <1>1, <2>1 DEF QuestionType
    <3> SUFFICES ASSUME mishaps = 0, "question" \notin disturbed
                 PROVE  /\ IsFiniteSet(Counting')
                        /\ question'.count + Cardinality(Counting') = replyRows'
      BY <1>1, <3>1 DEF Replied
    <3>2. IsFiniteSet(Counting) /\ question.count + Cardinality(Counting) = replyRows
      BY <2>1 DEF ListingInv, Replied
    <3>3. Cardinality(Counting) \in Nat
      BY <3>2, FS_CardinalityType
    <3>4. IsFiniteSet(Counting') /\ Cardinality(Counting') = Cardinality(Counting) - 1
      BY <1>4, <3>2, FS_RemoveElement
    <3> QED
      BY <1>1, <3>1, <3>2, <3>3, <3>4
  <2>2. CASE question.asked # "yes"
    BY <1>1, <1>4, <2>2 DEF ListingInv, Replied
  <2> QED
    BY <2>1, <2>2
<1> QED
  BY <1>2, <1>3, <1>5 DEF ListingInv

LEMMA SaveAnswerKeeps ==
  ASSUME ListingInv, NEW w \in Server, SaveAnswer(w)
  PROVE  ListingInv'
<1>1. /\ tasks[w].do = "answer" /\ tasks' = [tasks EXCEPT ![w] = NoTask]
      /\ question' = [asked |-> "yes", answered |-> TRUE, count |-> tasks[w].seen]
      /\ disturbed' = IF question.asked = "yes" /\ question.count = tasks[w].seen
                      THEN disturbed ELSE disturbed \cup {"question"}
      /\ tasks \in [Server -> TaskType] /\ tasks[w].seen \in Nat
      /\ UNCHANGED <<status, boosted, replyRows, inbox, word, mishaps>>
  BY TaskShapes DEF SaveAnswer, Then, ListingInv, ListingsTypeOK, listingVars, newsVars
<1>2. ListingsTypeOK' /\ Copies'
  BY <1>1, TaskShapes DEF ListingInv, ListingsTypeOK, Copies, QuestionType
<1>3. Told'
  BY <1>1, TaskShapes, BesideNews
<1>4. Counting' = Counting
  BY <1>1, TaskShapes DEF Counting
<1>5. Replied'
  BY <1>1, <1>4 DEF ListingInv, Replied
<1> QED
  BY <1>2, <1>3, <1>5 DEF ListingInv

LEMMA MishapKeeps ==
  ASSUME ListingInv, NEW w \in Server, Mishap(w)
  PROVE  ListingInv'
<1>1. /\ tasks' = [tasks EXCEPT ![w] = NoTask] /\ mishaps' = mishaps + 1
      /\ inbox' = IF tasks[w].do = "apply" THEN <<tasks[w].key>> \o inbox ELSE inbox
      /\ UNCHANGED <<status, boosted, question, replyRows, word, disturbed>>
      /\ tasks \in [Server -> TaskType] /\ inbox \in Seq(Keys) /\ mishaps \in Nat
      /\ tasks[w].do = "apply" => tasks[w].key \in Keys
  BY TaskShapes DEF Mishap, Then, ListingInv, ListingsTypeOK, listingVars, socialVars
<1>2. mishaps' # 0
  BY <1>1
<1>3. Counting' = Counting \ {w}
  BY <1>1, TaskShapes DEF Counting
<1>4. Replied' /\ Copies'
  BY <1>1, <1>2, <1>3, TaskShapes DEF ListingInv, Replied, Copies
<1>5. CASE tasks[w].do = "apply"
  <2> DEFINE key == tasks[w].key
  <2>1. /\ inbox' \in Seq(Keys) /\ inbox' # <<>>
        /\ inbox = <<>> => inbox'[Len(inbox')] = key
        /\ inbox # <<>> => inbox'[Len(inbox')] = inbox[Len(inbox)]
    <3>1. <<key>> \in Seq(Keys) /\ Len(<<key>>) = 1 /\ <<key>>[1] = key
      BY <1>1, <1>5
    <3>2. /\ inbox' \in Seq(Keys) /\ Len(inbox') = 1 + Len(inbox) /\ Len(inbox) \in Nat
          /\ \A i \in 1 .. Len(inbox') :
               inbox'[i] = IF i <= 1 THEN <<key>>[i] ELSE inbox[i - 1]
      BY <1>1, <1>5, <3>1, ConcatProperties, LenProperties
    <3>3. inbox = <<>> <=> Len(inbox) = 0
      BY <1>1, EmptySeq
    <3>4. inbox' # <<>>
      BY <3>2, EmptySeq
    <3> QED
      BY <3>1, <3>2, <3>3, <3>4
  <2> HIDE DEF key
  <2>2. Applying' = Applying \ {w} /\ w \in Applying
    BY <1>1, <1>5, TaskShapes DEF Applying
  <2>3. Told'
    <3> SUFFICES ASSUME "listing" \notin disturbed
                 PROVE  (\A u, v \in Applying' : u = v) /\ inbox'[Len(inbox')] = word
      BY <1>1, <2>1 DEF Told
    <3>1. inbox = <<>> => key = word
      BY <2>2 DEF ListingInv, Told, key
    <3> QED
      BY <2>1, <2>2, <3>1 DEF ListingInv, Told
  <2>4. ListingsTypeOK'
    BY <1>1, <2>1, TaskShapes DEF ListingInv, ListingsTypeOK
  <2> QED
    BY <1>4, <2>3, <2>4 DEF ListingInv
<1>6. CASE tasks[w].do # "apply"
  <2>1. ListingsTypeOK'
    BY <1>1, <1>6, TaskShapes DEF ListingInv, ListingsTypeOK
  <2>2. Told'
    BY <1>1, <1>6, TaskShapes, BesideNews
  <2> QED
    BY <1>4, <2>1, <2>2 DEF ListingInv
<1> QED
  BY <1>5, <1>6

LEMMA ListingStep == ListingInv /\ [ListingsNext]_listingsVars => ListingInv'
<1> SUFFICES ASSUME ListingInv, [ListingsNext]_listingsVars PROVE ListingInv'
  OBVIOUS
<1> USE DEF listingVars, socialVars, newsVars
<1>1. ASSUME UNCHANGED <<status, boosted, question, replyRows, inbox, word, tasks, disturbed,
                         mishaps>>
      PROVE  ListingInv'
  <2>1. ListingsTypeOK'
    BY <1>1 DEF ListingInv, ListingsTypeOK
  <2> QED
    BY <1>1, <2>1, SameTasks DEF ListingInv
<1>2. CASE UNCHANGED listingsVars
  BY <1>1, <1>2 DEF listingsVars
<1>3. ASSUME NEW w \in Server, UpdateListing(w) \/ Archive(w) \/ ActivateBoost(w)
      PROVE  ListingInv'
  <2>1. boosted \in BOOLEAN
    BY DEF ListingInv, ListingsTypeOK
  <2>2. PICK to \in {status, "archived"}, boost \in BOOLEAN, new \in BOOLEAN :
          Start(w, SaveTask(to, boost, new))
    BY <1>3, <2>1 DEF UpdateListing, Archive, ActivateBoost
  <2>3. UNCHANGED <<listingVars, socialVars, newsVars, disturbed, mishaps>>
    BY <1>3 DEF UpdateListing, Archive, ActivateBoost
  <2> QED
    BY <2>2, <2>3, ReadKeeps
<1>4. ASSUME NEW w \in Server, DeleteImages(w) PROVE ListingInv'
  <2>1. [do |-> "insert"] \in TaskType
    BY DEF TaskType
  <2> QED
    BY <1>4, <2>1, MoveOn DEF DeleteImages, Then
<1>5. ASSUME NEW w \in Server, InsertImages(w) PROVE ListingInv'
  BY <1>5, TaskShapes, MoveOn DEF InsertImages, Then
<1>6. ASSUME NEW w \in Server, AnswerQuestion(w) PROVE ListingInv'
  <2>1. [do |-> "answer", seen |-> question.count] \in TaskType
    BY DEF TaskType, ListingInv, ListingsTypeOK, QuestionType
  <2> QED
    BY <1>6, <2>1, TaskShapes, MoveOn DEF AnswerQuestion, Start
<1>7. CASE AskQuestion \/ DeletedAsker \/ DeletedReplier
  <2>1. /\ UNCHANGED <<status, boosted, inbox, word, tasks, mishaps>>
        /\ disturbed \subseteq disturbed'
        /\ question \in QuestionType /\ replyRows \in Nat
    BY <1>7 DEF AskQuestion, DeletedAsker, DeletedReplier, ListingInv, ListingsTypeOK
  <2>2. Copies' /\ Told' /\ Counting' = Counting
    BY <2>1, SameTasks
  <2>3. CASE AskQuestion
    <3>1. /\ question.asked = "no" /\ question'.asked = "yes" /\ question' \in QuestionType
          /\ question'.count = question.count /\ UNCHANGED <<replyRows, disturbed>>
      BY <2>1, <2>3 DEF AskQuestion, QuestionType
    <3>2. Counting = {} /\ replyRows = 0 /\ question.count = 0
      BY <3>1 DEF ListingInv, Replied
    <3>3. Replied' /\ ListingsTypeOK'
      BY <2>1, <2>2, <3>1, <3>2, FS_EmptySet DEF Replied, ListingInv, ListingsTypeOK
    <3> QED
      BY <2>2, <3>3 DEF ListingInv
  <2>4. CASE DeletedAsker
    <3>1. question'.asked = "gone" /\ question'.count = 0 /\ replyRows' = 0
          /\ question' \in QuestionType
      BY <2>4 DEF DeletedAsker, QuestionType
    <3>2. Replied' /\ ListingsTypeOK'
      BY <2>1, <3>1 DEF Replied, ListingInv, ListingsTypeOK
    <3> QED
      BY <2>2, <3>2 DEF ListingInv
  <2>5. CASE DeletedReplier
    <3>1. /\ replyRows > 0 /\ replyRows' = replyRows - 1 /\ question' = question
          /\ "question" \in disturbed'
      BY <2>5 DEF DeletedReplier
    <3>2. question.asked = "yes"
      BY <3>1 DEF ListingInv, Replied
    <3>3. Replied' /\ ListingsTypeOK'
      BY <2>1, <3>1, <3>2 DEF Replied, ListingInv, ListingsTypeOK
    <3> QED
      BY <2>2, <3>3 DEF ListingInv
  <2> QED
    BY <1>7, <2>3, <2>4, <2>5
<1>8. CASE DeletedOwner
  <2>1. /\ status' = "archived"
        /\ UNCHANGED <<boosted, question, replyRows, inbox, word, tasks, disturbed, mishaps>>
    BY <1>8 DEF DeletedOwner
  <2>2. ListingsTypeOK'
    BY <2>1 DEF ListingInv, ListingsTypeOK, Statuses
  <2> QED
    BY <2>1, <2>2, SameTasks DEF ListingInv
<1>9. ASSUME NEW v \in Visitor,
             ToggleFavorite(v) \/ CreateReport(v) \/ ReviewReport(v) \/ DeletedVisitor(v)
      PROVE  ListingInv'
  BY <1>1, <1>9 DEF ToggleFavorite, CreateReport, ReviewReport, DeletedVisitor
<1> QED
  BY <1>2, <1>3, <1>4, <1>5, <1>6, <1>7, <1>8, <1>9, AnnounceKeeps, ReceiveKeeps, ApplyKeeps,
     SaveListingKeeps, AddReplyKeeps, CountReplyKeeps, SaveAnswerKeeps, MishapKeeps
  DEF ListingsNext

\* What the trades of a listing say of it (lockListing, unlockListing,
\* markTraded) is what it shows once every message is handled, or it is in the
\* archive: for every owner's edit, boost and copy in between.
THEOREM ListingsFollow == ListingsSpec => []ListingFollowsTrades
<1>1. ListingInv => ListingFollowsTrades
  <2> SUFFICES ASSUME ListingInv, Unused, inbox = <<>>, "listing" \notin disturbed,
                      word # "none"
               PROVE  status \in {StatusFor(word), "archived"}
    BY DEF ListingFollowsTrades
  <2>1. Applying = {}
    BY TaskShapes DEF Unused, Applying
  <2> QED
    BY <2>1 DEF ListingInv, Told
<1> QED
  BY <1>1, ListingsStart, ListingStep, PTL DEF ListingsSpec

\* addReply counts every reply it stores, in two statements, while others
\* reply and the owner answers from a copy.
THEOREM RepliesAreCounted == ListingsSpec => []ReplyCountRight
<1>1. ListingInv => ReplyCountRight
  <2> SUFFICES ASSUME ListingInv, Unused, mishaps = 0, "question" \notin disturbed
               PROVE  question.count = replyRows
    BY DEF ReplyCountRight
  <2>1. Counting = {}
    BY TaskShapes DEF Unused, Counting
  <2> QED
    BY <2>1, FS_EmptySet DEF ListingInv, ListingsTypeOK, QuestionType, Replied
<1> QED
  BY <1>1, ListingsStart, ListingStep, PTL DEF ListingsSpec

----------------------------------------------------------------------------
(* Moderation: ModerationRight, for every set of reports and moderators.   *)

What == {"dismissed", "warned", "banned"}
DecisionWork ==
  [do : {"review", "archive", "mark", "ban"}, report : Report, what : What]
ReportsPage ==
  [known : SUBSET Report, report : SUBSET Report, confirmed : BOOLEAN,
   warned : {NoSeller} \cup {SellerOf[r] : r \in Report}, work : {AtHand} \cup DecisionWork]

ModerationTypeOK ==
  /\ reportRows \in [Report -> {"pending", "reviewed", "dismissed"}]
  /\ archived \subseteq Report
  /\ pages \in [Moderator -> ReportsPage]

\* Whatever is carried out was decided, and only that.
WorkDecided ==
  \A m \in Moderator : LET job == pages[m].work IN job # AtHand =>
    /\ [by |-> m, report |-> job.report, what |-> job.what] \in decisions
    /\ job.do \in {"archive", "mark", "ban"} => job.what # "dismissed"
    /\ job.do = "ban" => job.what = "banned"

\* Only a decision archives or bans.
OnlyDecided ==
  /\ \A d \in decisions : d.by \in Moderator /\ d.report \in Report
  /\ \A r \in archived : \E d \in decisions : d.report = r
  /\ \A seller \in bannedSellers :
       \E d \in decisions : d.what = "banned" /\ SellerOf[d.report] = seller

\* A decision that is the only one on its report and did not fail.
Sole(d) == d.report \notin failed /\ \A e \in decisions : e.report = d.report => e = d
CarriedOut(d) == pages[d.by].work # AtHand /\ pages[d.by].work.report = d.report

\* It has its effects, or those of the requests that were answered.
Effects(d) ==
  LET job == pages[d.by].work
      r == d.report
  IN /\ d.what = "dismissed" => r \notin archived
     /\ ~CarriedOut(d) =>
          /\ reportRows[r] = IF d.what = "dismissed" THEN "dismissed" ELSE "reviewed"
          /\ d.what # "dismissed" => r \in archived
          /\ d.what = "banned" => SellerOf[r] \in bannedSellers
     /\ CarriedOut(d) =>
          /\ d.what # "dismissed" /\ job.do # "archive" => r \in archived
          /\ job.do = "ban" => reportRows[r] = "reviewed"
          /\ d.what = "banned" /\ job.do = "review" => SellerOf[r] \in bannedSellers

Effective == \A d \in decisions : Sole(d) => Effects(d)

ModerationInv ==
  ModerationTypeOK /\ WorkDecided /\ OnlyDecided /\ Effective /\ WarningsAreTheSellers

LEMMA ModerationStarts == ModerationInit => ModerationInv
<1> SUFFICES ASSUME ModerationInit PROVE ModerationInv
  OBVIOUS
<1>1. ModerationTypeOK
  BY DEF ModerationInit, ModerationTypeOK, ReportsPage
<1>2. \A m \in Moderator : pages[m].work = AtHand /\ pages[m].report = {}
  BY DEF ModerationInit
<1> QED
  BY <1>1, <1>2 DEF ModerationInit, ModerationInv, WorkDecided, OnlyDecided, Effective,
     WarningsAreTheSellers

LEMMA ModerationInvFollows == ModerationInv => ModerationRight
<1> SUFFICES ASSUME ModerationInv PROVE ModerationRight
  OBVIOUS
<1>1. ASSUME NEW d \in decisions, \A e \in decisions : e.report = d.report => e = d,
             d.report \notin failed, Settled(d.report)
      PROVE  /\ reportRows[d.report] = IF d.what = "dismissed" THEN "dismissed" ELSE "reviewed"
             /\ (d.report \in archived) = (d.what # "dismissed")
             /\ d.what = "banned" => SellerOf[d.report] \in bannedSellers
  <2>1. Sole(d) /\ ~CarriedOut(d)
    BY <1>1 DEF Sole, CarriedOut, Settled, ModerationInv, OnlyDecided
  <2>2. Effects(d)
    BY <2>1 DEF ModerationInv, Effective
  <2> QED
    BY <2>1, <2>2 DEF Effects
<1>2. DecisionsTakeEffect
  BY <1>1 DEF DecisionsTakeEffect, ModerationInv, OnlyDecided
<1> QED
  BY <1>2 DEF ModerationRight, ModerationInv

----------------------------------------------------------------------------
\* A step of the list or the modal: no work and no row changes.
LEMMA BesideDecisions ==
  ASSUME ModerationInv, NEW m \in Moderator, NEW page \in ReportsPage,
         pages' = [pages EXCEPT ![m] = page], page.work = pages[m].work,
         UNCHANGED <<reportRows, archived, bannedSellers, decisions, failed>>,
         late' \in {late, late \cup {m}},
         m \notin late' => \A r \in page.report : page.warned \in {NoSeller, SellerOf[r]}
  PROVE  ModerationInv'
<1>1. \A n \in Moderator : pages'[n] = IF n = m THEN page ELSE pages[n]
  BY DEF ModerationInv, ModerationTypeOK
<1>2. ModerationTypeOK' /\ OnlyDecided'
  BY DEF ModerationInv, ModerationTypeOK, OnlyDecided
<1>3. WarningsAreTheSellers'
  BY <1>1 DEF ModerationInv, WarningsAreTheSellers
<1>4. \A n \in Moderator : pages'[n].work = pages[n].work
  BY <1>1
<1>5. WorkDecided'
  BY <1>4 DEF ModerationInv, WorkDecided
<1>6. \A d \in decisions : d.by \in Moderator
  BY DEF ModerationInv, OnlyDecided
<1>7. \A d \in decisions : Sole(d)' = Sole(d)
  BY DEF Sole
<1>8. \A d \in decisions : CarriedOut(d)' = CarriedOut(d)
  BY <1>4, <1>6 DEF CarriedOut
<1>9. \A d \in decisions : Effects(d) => Effects(d)'
  BY <1>4, <1>6, <1>8 DEF Effects
<1> QED
  BY <1>2, <1>3, <1>5, <1>7, <1>9 DEF ModerationInv, Effective

LEMMA ListKeeps ==
  ASSUME ModerationInv, NEW m \in Moderator,
         \/ \E r \in Report : OpenActionModal(m, r)
         \/ \E seller \in {SellerOf[r] : r \in Report} : WarningsArrive(m, seller)
         \/ CloseModal(m) \/ LoadReports(m) \/ ConfirmBan(m)
  PROVE  ModerationInv'
<1> USE DEF rowVars, traceVars
<1> DEFINE p == pages[m]
           closed == [p EXCEPT !.report = {}, !.confirmed = FALSE, !.warned = NoSeller]
<1>1. p \in ReportsPage
  BY DEF ModerationInv, ModerationTypeOK
<1>2. closed \in ReportsPage /\ closed.work = p.work /\ closed.report = {}
      /\ closed.warned = NoSeller /\ closed = Closed(p)
  BY <1>1 DEF ReportsPage, Closed
<1>3. m \notin late => \A r \in p.report : p.warned \in {NoSeller, SellerOf[r]}
  BY DEF ModerationInv, WarningsAreTheSellers
<1> HIDE DEF closed
<1>4. ASSUME NEW r \in Report, OpenActionModal(m, r) PROVE ModerationInv'
  <2> DEFINE page == [closed EXCEPT !.report = {r}]
  <2>1. pages' = [pages EXCEPT ![m] = page]
    BY <1>2, <1>4 DEF OpenActionModal
  <2>2. page \in ReportsPage /\ page.work = p.work /\ page.warned = NoSeller
    BY <1>2 DEF ReportsPage
  <2> HIDE DEF page
  <2> QED
    BY <1>4, <2>1, <2>2, BesideDecisions DEF OpenActionModal
<1>5. ASSUME NEW seller \in {SellerOf[r] : r \in Report}, WarningsArrive(m, seller)
      PROVE  ModerationInv'
  <2> DEFINE page == [p EXCEPT !.warned = seller]
  <2>1. pages' = [pages EXCEPT ![m] = page]
    BY <1>5 DEF WarningsArrive
  <2>2. page \in ReportsPage /\ page.work = p.work /\ page.warned = seller
        /\ page.report = p.report
    BY <1>1 DEF ReportsPage
  <2> HIDE DEF page
  <2>3. late' \in {late, late \cup {m}}
        /\ (m \notin late' => \A r \in p.report : SellerOf[r] = seller)
    BY <1>5 DEF WarningsArrive
  <2> QED
    BY <1>5, <2>1, <2>2, <2>3, BesideDecisions DEF WarningsArrive
<1>6. ASSUME CloseModal(m) PROVE ModerationInv'
  <2>1. pages' = [pages EXCEPT ![m] = closed]
    BY <1>2, <1>6 DEF CloseModal
  <2> QED
    BY <1>2, <1>6, <2>1, BesideDecisions DEF CloseModal
<1>7. ASSUME LoadReports(m) PROVE ModerationInv'
  <2> DEFINE pending == {r \in Report : reportRows[r] = "pending"}
             page == [closed EXCEPT !.known = pending]
  <2>1. pages' = [pages EXCEPT ![m] = page]
    BY <1>2, <1>7 DEF LoadReports
  <2>2. page \in ReportsPage /\ page.work = p.work /\ page.report = {}
    BY <1>2 DEF ReportsPage
  <2> HIDE DEF page
  <2> QED
    BY <1>7, <2>1, <2>2, BesideDecisions DEF LoadReports
<1>8. ASSUME ConfirmBan(m) PROVE ModerationInv'
  <2> DEFINE page == [p EXCEPT !.confirmed = TRUE]
  <2>1. pages' = [pages EXCEPT ![m] = page]
    BY <1>8 DEF ConfirmBan
  <2>2. page \in ReportsPage /\ page.work = p.work /\ page.report = p.report
        /\ page.warned = p.warned
    BY <1>1 DEF ReportsPage
  <2> HIDE DEF page
  <2> QED
    BY <1>3, <1>8, <2>1, <2>2, BesideDecisions DEF ConfirmBan
<1> QED
  BY <1>4, <1>5, <1>6, <1>7, <1>8

----------------------------------------------------------------------------
\* A step of a decision d' that moderator m made on report r: what is to be
\* shown of the others, and of it.
LEMMA OtherDecisions ==
  ASSUME ModerationInv, NEW m \in Moderator, NEW r \in Report, NEW page \in ReportsPage,
         pages' = [pages EXCEPT ![m] = page],
         pages[m].work = AtHand \/ pages[m].work.report = r,
         page.work = AtHand \/ page.work.report = r,
         \A q \in Report \ {r} : /\ reportRows'[q] = reportRows[q]
                                 /\ q \in archived' <=> q \in archived,
         bannedSellers \subseteq bannedSellers',
         NEW d \in decisions, d.report # r, Effects(d)
  PROVE  Effects(d)'
<1>1. \A n \in Moderator : pages'[n] = IF n = m THEN page ELSE pages[n]
  BY DEF ModerationInv, ModerationTypeOK
<1>2. d.by \in Moderator /\ d.report \in Report
  BY DEF ModerationInv, OnlyDecided
<1>3. CarriedOut(d)' = CarriedOut(d)
  BY <1>1, <1>2 DEF CarriedOut
<1>4. CarriedOut(d) => pages'[d.by].work = pages[d.by].work
  BY <1>1, <1>2 DEF CarriedOut
<1> QED
  BY <1>2, <1>3, <1>4 DEF Effects

LEMMA DecideKeeps ==
  ASSUME ModerationInv, NEW m \in Moderator,
         HandleDismiss(m) \/ HandleDeleteAndWarn(m) \/ HandleDeleteAndBan(m)
  PROVE  ModerationInv'
<1>1. PICK first \in {"review", "archive"}, what \in What :
        StartDecision(m, first, what) /\ (what = "dismissed" <=> first = "review")
  BY DEF HandleDismiss, HandleDeleteAndWarn, HandleDeleteAndBan, What
<1>2. PICK r \in pages[m].report :
        /\ pages' = [pages EXCEPT ![m].work = [do |-> first, report |-> r, what |-> what]]
        /\ decisions' = decisions \cup {[by |-> m, report |-> r, what |-> what]}
  BY <1>1 DEF StartDecision
<1> DEFINE p == pages[m]
           job == [do |-> first, report |-> r, what |-> what]
           page == [p EXCEPT !.work = job]
           new == [by |-> m, report |-> r, what |-> what]
<1>3. /\ p \in ReportsPage /\ r \in Report /\ p.work = AtHand
      /\ UNCHANGED <<reportRows, archived, bannedSellers, failed, late>>
  BY <1>1 DEF StartDecision, rowVars, ModerationInv, ModerationTypeOK, ReportsPage
<1>4. /\ job \in DecisionWork /\ job # AtHand /\ job.do = first /\ job.report = r
      /\ job.what = what
  BY <1>3 DEF DecisionWork, AtHand
<1>5. page \in ReportsPage /\ page.work = job /\ page.report = p.report
      /\ page.warned = p.warned /\ pages' = [pages EXCEPT ![m] = page]
  BY <1>2, <1>3, <1>4 DEF ReportsPage
<1>6. new.by = m /\ new.report = r /\ new.what = what
  OBVIOUS
<1>7. decisions' = decisions \cup {new}
  BY <1>2
<1>8. new = [by |-> m, report |-> job.report, what |-> job.what]
  BY <1>4
<1> HIDE DEF job, page, new
<1>9. \A n \in Moderator : pages'[n] = IF n = m THEN page ELSE pages[n]
  BY <1>5 DEF ModerationInv, ModerationTypeOK
<1>10. ModerationTypeOK'
  BY <1>3, <1>5 DEF ModerationInv, ModerationTypeOK
<1>11. WorkDecided'
  <2>1. ASSUME NEW n \in Moderator, n # m, pages'[n].work # AtHand
        PROVE  LET w == pages'[n].work
               IN /\ [by |-> n, report |-> w.report, what |-> w.what] \in decisions'
                  /\ w.do \in {"archive", "mark", "ban"} => w.what # "dismissed"
                  /\ w.do = "ban" => w.what = "banned"
    BY <1>7, <1>9, <2>1 DEF ModerationInv, WorkDecided
  <2>2. /\ [by |-> m, report |-> job.report, what |-> job.what] \in decisions'
        /\ job.do \in {"archive", "mark", "ban"} => job.what # "dismissed"
        /\ job.do # "ban"
    BY <1>1, <1>4, <1>7, <1>8
  <2> QED
    BY <1>5, <1>9, <2>1, <2>2 DEF WorkDecided
<1>12. OnlyDecided'
  BY <1>3, <1>6, <1>7 DEF ModerationInv, OnlyDecided
<1>13. WarningsAreTheSellers'
  BY <1>3, <1>5, <1>9 DEF ModerationInv, WarningsAreTheSellers
<1>14. ASSUME NEW d \in decisions', Sole(d)' PROVE Effects(d)'
  <2>1. CASE d.report # r
    <3>1. d \in decisions /\ Sole(d)
      BY <1>3, <1>6, <1>7, <1>14, <2>1 DEF Sole
    <3> QED
      BY <1>3, <1>4, <1>5, <2>1, <3>1, OtherDecisions DEF ModerationInv, Effective
  <2>2. CASE d.report = r
    <3>1. d = new
      BY <1>6, <1>7, <1>14, <2>2 DEF Sole
    <3>2. CarriedOut(d)'
      BY <1>4, <1>5, <1>6, <1>9, <3>1 DEF CarriedOut
    <3>3. what = "dismissed" => r \notin archived
      <4>1. CASE new \in decisions
        <5>1. Sole(new)
          BY <1>3, <1>7, <1>14, <3>1 DEF Sole
        <5> QED
          BY <1>6, <4>1, <5>1 DEF ModerationInv, Effective, Effects
      <4>2. CASE new \notin decisions
        <5>1. \A e \in decisions : e.report # r
          BY <1>6, <1>7, <1>14, <3>1, <4>2 DEF Sole
        <5> QED
          BY <5>1 DEF ModerationInv, OnlyDecided
      <4> QED
        BY <4>1, <4>2
    <3> QED
      BY <1>1, <1>3, <1>4, <1>5, <1>6, <1>9, <3>1, <3>2, <3>3 DEF Effects
  <2> QED
    BY <2>1, <2>2
<1> QED
  BY <1>10, <1>11, <1>12, <1>13, <1>14 DEF ModerationInv, Effective

----------------------------------------------------------------------------
(* The requests of a decision, by moderator m, on report r.                *)

Mine(m) == [by |-> m, report |-> pages[m].work.report, what |-> pages[m].work.what]

LEMMA WorkFacts ==
  ASSUME ModerationInv, NEW m \in Moderator, pages[m].work # AtHand
  PROVE  /\ pages[m] \in ReportsPage /\ pages[m].work \in DecisionWork
         /\ pages[m].work.report \in Report /\ pages[m].work.what \in What
         /\ Mine(m) \in decisions /\ Mine(m).by = m
         /\ Mine(m).report = pages[m].work.report /\ Mine(m).what = pages[m].work.what
         /\ pages[m].work.do \in {"archive", "mark", "ban"} => pages[m].work.what # "dismissed"
         /\ pages[m].work.do = "ban" => pages[m].work.what = "banned"
         /\ m \notin late =>
              \A q \in pages[m].report : pages[m].warned \in {NoSeller, SellerOf[q]}
<1>1. pages[m] \in ReportsPage
  BY DEF ModerationInv, ModerationTypeOK
<1>2. pages[m].work \in DecisionWork
  BY <1>1 DEF ReportsPage
<1>3. pages[m].work.report \in Report /\ pages[m].work.what \in What
  BY <1>2 DEF DecisionWork
<1> QED
  BY <1>1, <1>2, <1>3 DEF Mine, ModerationInv, WorkDecided, WarningsAreTheSellers

LEMMA RequestKeeps ==
  ASSUME ModerationInv, NEW m \in Moderator, NEW page \in ReportsPage, pages[m].work # AtHand,
         pages' = [pages EXCEPT ![m] = page],
         page.work # AtHand =>
           /\ page.work.report = pages[m].work.report /\ page.work.what = pages[m].work.what
           /\ page.work.do \in {"archive", "mark", "ban"} => page.work.what # "dismissed"
           /\ page.work.do = "ban" => page.work.what = "banned",
         m \notin late => \A q \in page.report : page.warned \in {NoSeller, SellerOf[q]},
         NEW to \in {"pending", "reviewed", "dismissed"},
         reportRows' \in {reportRows, [reportRows EXCEPT ![pages[m].work.report] = to]},
         archived' \in {archived, archived \cup {pages[m].work.report}},
         \/ bannedSellers' = bannedSellers
         \/ /\ bannedSellers' = bannedSellers \cup {SellerOf[pages[m].work.report]}
            /\ pages[m].work.what = "banned",
         failed \subseteq failed', UNCHANGED <<decisions, late>>,
         \A d : d = Mine(m) /\ Sole(d)' /\ Effects(d) => Effects(d)'
  PROVE  ModerationInv'
<1> DEFINE r == pages[m].work.report
<1>1. \A n \in Moderator : pages'[n] = IF n = m THEN page ELSE pages[n]
  BY DEF ModerationInv, ModerationTypeOK
<1>2. /\ r \in Report /\ Mine(m) \in decisions /\ Mine(m).report = r
      /\ Mine(m).what = pages[m].work.what
      /\ Mine(m).by = m
  BY WorkFacts
<1>3. ModerationTypeOK'
  BY <1>2 DEF ModerationInv, ModerationTypeOK
<1>4. \A q \in Report \ {r} : /\ reportRows'[q] = reportRows[q]
                              /\ q \in archived' <=> q \in archived
  BY <1>2 DEF ModerationInv, ModerationTypeOK
<1>5. WorkDecided'
  <2>1. ASSUME NEW n \in Moderator, n # m PROVE pages'[n].work = pages[n].work
    BY <1>1, <2>1
  <2>2. page.work # AtHand =>
          [by |-> m, report |-> page.work.report, what |-> page.work.what] \in decisions
    BY <1>2 DEF Mine
  <2> QED
    BY <1>1, <2>1, <2>2 DEF ModerationInv, WorkDecided
<1>6. OnlyDecided'
  BY <1>2 DEF ModerationInv, OnlyDecided
<1>7. WarningsAreTheSellers'
  BY <1>1 DEF ModerationInv, WarningsAreTheSellers
<1>8. ASSUME NEW d \in decisions', Sole(d)' PROVE Effects(d)'
  <2>1. d \in decisions /\ Sole(d) /\ Effects(d)
    BY <1>8 DEF Sole, ModerationInv, Effective
  <2>2. CASE d.report # r
    BY <1>2, <1>4, <2>1, <2>2, OtherDecisions
  <2>3. CASE d.report = r
    <3>1. d = Mine(m)
      BY <1>2, <2>1, <2>3 DEF Sole
    <3> QED
      BY <1>8, <2>1, <3>1
  <2> QED
    BY <2>2, <2>3
<1> QED
  BY <1>3, <1>5, <1>6, <1>7, <1>8 DEF ModerationInv, Effective

LEMMA ArchiveListingKeeps ==
  ASSUME ModerationInv, NEW m \in Moderator, ArchiveListing(m) PROVE ModerationInv'
<1> DEFINE p == pages[m]
           job == [p.work EXCEPT !.do = "mark"]
           page == [p EXCEPT !.work = job]
<1>1. /\ p.work.do = "archive" /\ p.work # AtHand
      /\ archived' = archived \cup {p.work.report} /\ pages' = [pages EXCEPT ![m] = page]
      /\ UNCHANGED <<reportRows, bannedSellers, decisions, failed, late>>
  BY DEF ArchiveListing, Proceed, AtHand, traceVars
<1>2. /\ p \in ReportsPage /\ p.work \in DecisionWork /\ p.work.what # "dismissed"
      /\ m \notin late => \A q \in p.report : p.warned \in {NoSeller, SellerOf[q]}
  BY <1>1, WorkFacts
<1>3. /\ job \in DecisionWork /\ job.do = "mark" /\ job.report = p.work.report
      /\ job.what = p.work.what /\ job # AtHand
  BY <1>2 DEF DecisionWork, AtHand
<1> HIDE DEF job
<1>4. page \in ReportsPage /\ page.work = job /\ page.report = p.report
      /\ page.warned = p.warned
  BY <1>2, <1>3 DEF ReportsPage
<1> HIDE DEF page
<1>5. ASSUME NEW d, d = Mine(m), Effects(d) PROVE Effects(d)'
  <2>1. /\ d.by = m /\ d.report = p.work.report /\ d.what = p.work.what
        /\ CarriedOut(d)
    BY <1>1, <1>5, WorkFacts DEF CarriedOut
  <2>2. pages'[m].work = job
    BY <1>1, <1>4 DEF ModerationInv, ModerationTypeOK
  <2>3. CarriedOut(d)'
    BY <1>3, <2>1, <2>2 DEF CarriedOut
  <2> QED
    BY <1>1, <1>2, <1>3, <2>1, <2>2, <2>3 DEF Effects
<1> QED
  BY <1>1, <1>2, <1>3, <1>4, <1>5, RequestKeeps

LEMMA MarkReviewedKeeps ==
  ASSUME ModerationInv, NEW m \in Moderator, MarkReviewed(m) PROVE ModerationInv'
<1> DEFINE p == pages[m]
           step == IF p.work.what = "banned" THEN "ban" ELSE "review"
           job == [p.work EXCEPT !.do = step]
           page == [p EXCEPT !.work = job]
<1>1. /\ p.work.do = "mark" /\ p.work # AtHand
      /\ reportRows' = [reportRows EXCEPT ![p.work.report] = "reviewed"]
      /\ pages' = [pages EXCEPT ![m] = page]
      /\ UNCHANGED <<archived, bannedSellers, decisions, failed, late>>
  BY DEF MarkReviewed, Proceed, AtHand, traceVars
<1>2. /\ p \in ReportsPage /\ p.work \in DecisionWork /\ p.work.what # "dismissed"
      /\ m \notin late => \A q \in p.report : p.warned \in {NoSeller, SellerOf[q]}
  BY <1>1, WorkFacts
<1>3. /\ job \in DecisionWork /\ job.do = step /\ job.report = p.work.report
      /\ job.what = p.work.what /\ job # AtHand /\ step \in {"ban", "review"}
  BY <1>2 DEF DecisionWork, AtHand
<1> HIDE DEF job
<1>4. page \in ReportsPage /\ page.work = job /\ page.report = p.report
      /\ page.warned = p.warned
  BY <1>2, <1>3 DEF ReportsPage
<1> HIDE DEF page
<1>5. ASSUME NEW d, d = Mine(m), Effects(d) PROVE Effects(d)'
  <2>1. /\ d.by = m /\ d.report = p.work.report /\ d.what = p.work.what
        /\ CarriedOut(d) /\ d.report \in Report
    BY <1>1, <1>5, WorkFacts DEF CarriedOut
  <2>2. pages'[m].work = job /\ reportRows'[d.report] = "reviewed"
    BY <1>1, <1>4, <2>1 DEF ModerationInv, ModerationTypeOK
  <2>3. CarriedOut(d)'
    BY <1>3, <2>1, <2>2 DEF CarriedOut
  <2>4. d.report \in archived
    BY <1>1, <1>2, <1>5, <2>1 DEF Effects
  <2> QED
    BY <1>1, <1>2, <1>3, <2>1, <2>2, <2>3, <2>4 DEF Effects
<1> QED
  BY <1>1, <1>2, <1>3, <1>4, <1>5, RequestKeeps

LEMMA BanSellerKeeps ==
  ASSUME ModerationInv, NEW m \in Moderator, BanSeller(m) PROVE ModerationInv'
<1> DEFINE p == pages[m]
           seller == SellerOf[p.work.report]
           job == IF seller \in bannedSellers THEN AtHand ELSE [p.work EXCEPT !.do = "review"]
           page == [p EXCEPT !.work = job]
<1>1. /\ p.work.do = "ban" /\ p.work # AtHand
      /\ bannedSellers' = bannedSellers \cup {seller}
      /\ pages' = [pages EXCEPT ![m] = page]
      /\ UNCHANGED <<reportRows, archived, decisions, failed, late>>
  BY DEF BanSeller, Proceed, AtHand, traceVars
<1>2. /\ p \in ReportsPage /\ p.work \in DecisionWork /\ p.work.what = "banned"
      /\ m \notin late => \A q \in p.report : p.warned \in {NoSeller, SellerOf[q]}
  BY <1>1, WorkFacts
<1>3. /\ job \in {AtHand} \cup DecisionWork
      /\ job # AtHand => job.do = "review" /\ job.report = p.work.report /\ job.what = p.work.what
  BY <1>2 DEF DecisionWork, AtHand
<1> HIDE DEF job
<1>4. page \in ReportsPage /\ page.work = job /\ page.report = p.report
      /\ page.warned = p.warned
  BY <1>2, <1>3 DEF ReportsPage
<1> HIDE DEF page
<1>5. ASSUME NEW d, d = Mine(m), Effects(d) PROVE Effects(d)'
  <2>1. /\ d.by = m /\ d.report = p.work.report /\ d.what = p.work.what
        /\ CarriedOut(d)
    BY <1>1, <1>5, WorkFacts DEF CarriedOut
  <2>2. pages'[m].work = job
    BY <1>1, <1>4 DEF ModerationInv, ModerationTypeOK
  <2>3. CarriedOut(d)' => job # AtHand
    BY <2>1, <2>2 DEF CarriedOut
  <2>4. d.report \in archived /\ reportRows[d.report] = "reviewed"
    BY <1>1, <1>2, <1>5, <2>1 DEF Effects
  <2> QED
    BY <1>1, <1>2, <1>3, <2>1, <2>2, <2>3, <2>4 DEF Effects
<1> QED
  BY <1>1, <1>2, <1>3, <1>4, <1>5, RequestKeeps

LEMMA SubmitReviewKeeps ==
  ASSUME ModerationInv, NEW m \in Moderator, SubmitReview(m) PROVE ModerationInv'
<1> DEFINE p == pages[m]
           to == IF p.work.what = "dismissed" THEN "dismissed" ELSE "reviewed"
           page == [Closed(p) EXCEPT !.known = p.known \ {p.work.report}, !.work = AtHand]
<1>1. /\ p.work.do = "review" /\ p.work # AtHand
      /\ reportRows' = [reportRows EXCEPT ![p.work.report] = to]
      /\ pages' = [pages EXCEPT ![m] = page]
      /\ UNCHANGED <<archived, bannedSellers, decisions, failed, late>>
  BY DEF SubmitReview, AtHand, traceVars
<1>2. p \in ReportsPage /\ p.work.report \in Report
  BY <1>1, WorkFacts
<1>3. page \in ReportsPage /\ page.work = AtHand /\ page.report = {}
  BY <1>2 DEF ReportsPage, Closed
<1> HIDE DEF page
<1>4. ASSUME NEW d, d = Mine(m), Effects(d) PROVE Effects(d)'
  <2>1. /\ d.by = m /\ d.report = p.work.report /\ d.what = p.work.what
        /\ CarriedOut(d)
    BY <1>1, <1>4, WorkFacts DEF CarriedOut
  <2>2. pages'[m].work = AtHand /\ reportRows'[d.report] = to
    BY <1>1, <1>2, <1>3, <2>1 DEF ModerationInv, ModerationTypeOK
  <2>3. ~CarriedOut(d)'
    BY <2>1, <2>2 DEF CarriedOut
  <2>4. /\ d.what = "dismissed" => d.report \notin archived
        /\ d.what # "dismissed" => d.report \in archived
        /\ d.what = "banned" => SellerOf[d.report] \in bannedSellers
    BY <1>1, <1>4, <2>1 DEF Effects
  <2> QED
    BY <1>1, <2>1, <2>2, <2>3, <2>4 DEF Effects
<1>5. to \in {"pending", "reviewed", "dismissed"}
  OBVIOUS
<1> QED
  BY <1>1, <1>2, <1>3, <1>4, <1>5, RequestKeeps

LEMMA RequestFailsKeeps ==
  ASSUME ModerationInv, NEW m \in Moderator, RequestFails(m) PROVE ModerationInv'
<1> DEFINE p == pages[m]
           page == [p EXCEPT !.work = AtHand]
<1>1. /\ p.work # AtHand /\ failed' = failed \cup {p.work.report}
      /\ pages' = [pages EXCEPT ![m] = page]
      /\ UNCHANGED <<reportRows, archived, bannedSellers, decisions, late>>
  BY DEF RequestFails, rowVars
<1>2. /\ p \in ReportsPage
      /\ m \notin late => \A q \in p.report : p.warned \in {NoSeller, SellerOf[q]}
  BY <1>1, WorkFacts
<1>3. page \in ReportsPage /\ page.work = AtHand /\ page.report = p.report
      /\ page.warned = p.warned
  BY <1>2 DEF ReportsPage
<1> HIDE DEF page
<1>4. \A d : d = Mine(m) => ~Sole(d)'
  BY <1>1, WorkFacts DEF Sole
<1> QED
  BY <1>1, <1>2, <1>3, <1>4, RequestKeeps

LEMMA ModerationSteps ==
  ModerationInv /\ [ModerationNext]_moderationVars => ModerationInv'
<1> SUFFICES ASSUME ModerationInv, [ModerationNext]_moderationVars PROVE ModerationInv'
  OBVIOUS
<1>1. CASE ModerationNext
  BY <1>1, ListKeeps, DecideKeeps, ArchiveListingKeeps, MarkReviewedKeeps, BanSellerKeeps,
     SubmitReviewKeeps, RequestFailsKeeps DEF ModerationNext
<1>2. CASE UNCHANGED moderationVars
  BY <1>2 DEF moderationVars, ModerationInv, ModerationTypeOK, WorkDecided, OnlyDecided,
     Effective, WarningsAreTheSellers, Sole, Effects, CarriedOut
<1> QED
  BY <1>1, <1>2

\* A moderator's decision on a report takes effect on that report, its
\* listing and its seller, whatever is in the modal by then, unless there is
\* another on the same report or one of its requests failed; nobody is banned
\* without one; and the warnings in a modal are its seller's, unless an older
\* answer came late (admin/reports/page.tsx, handleDismiss to
\* handleDeleteAndBan).
THEOREM DecisionsAreKept == ModerationSpec => []ModerationRight
<1>1. ModerationSpec => []ModerationInv
  BY ModerationStarts, ModerationSteps, PTL DEF ModerationSpec
<1> QED
  BY <1>1, ModerationInvFollows, PTL

----------------------------------------------------------------------------
(* ListingForm: PicturesAsShown and PlaceAsChosen, for every set of        *)
(* pictures and countries, and any number of edits.                        *)

Row == [pic : Picture, thumb : SUBSET Picture]
CountryType == {Nowhere} \cup {<<c>> : c \in Country}
CityType == {Nowhere} \cup City
PlaceType == [country : CountryType, city : CityType, quarter : CityType]
SearchType ==
  [field : {"city"}, in : {<<c>> : c \in Country}] \cup [field : {"quarter"}, in : City]

\* What the create form sends is what it shows and will show.
FilesFollow ==
  form = "create" =>
    /\ Len(files) = Len(shown) + Len(reading)
    /\ "overtaken" \in oddities \/ files = shown \o reading

ThumbsAreTheirs ==
  \A i \in DOMAIN stored :
    \/ stored[i].thumb \subseteq {stored[i].pic}
    \/ \E j \in 1..i : stored[j].pic \in Plain

PicturesInv ==
  /\ files \in Seq(Picture) /\ shown \in Seq(Picture) /\ reading \in Seq(Picture)
  /\ stored \in Seq(Row)
  /\ FilesFollow /\ ThumbsAreTheirs
  /\ form = "left" => "overtaken" \in oddities \/ IsPrefix(shown, PicturesOf(stored))

\* What is selected, and what is suggested for it, is in one place.
PlaceInv ==
  /\ place \in PlaceType /\ location \in PlaceType
  /\ hints \in [city : SUBSET City, quarter : SUBSET City]
  /\ searches \subseteq SearchType
  /\ "late" \notin oddities =>
       /\ place.country # Nowhere /\ place.city # Nowhere =>
            place.city[1] = place.country[1]
       /\ place.country # Nowhere => \A c \in hints.city : c[1] = place.country[1]
       /\ place.city # Nowhere => hints.quarter \subseteq {place.city}
       /\ place.quarter \in {Nowhere, place.city}
       /\ form = "left" =>
            /\ location.city[1] = location.country[1]
            /\ location.quarter \in {Nowhere, location.city}

FormInv == PicturesInv /\ PlaceInv

LEMMA FormStarts == FormInit => FormInv
<1> SUFFICES ASSUME FormInit PROVE FormInv
  OBVIOUS
<1>1. PicturesInv
  BY DEF FormInit, PicturesInv, FilesFollow, ThumbsAreTheirs
<1>2. PlaceInv
  BY DEF FormInit, PlaceInv, PlaceType, NoPlace, CountryType, CityType, NoHints, Nowhere
<1> QED
  BY <1>1, <1>2 DEF FormInv

\* A step that has nothing to do with the pictures, or with the place.
LEMMA PicturesBeside ==
  ASSUME PicturesInv, UNCHANGED <<form, files, shown, reading, stored>>,
         "overtaken" \in oddities => "overtaken" \in oddities'
  PROVE  PicturesInv'
BY DEF PicturesInv, FilesFollow, ThumbsAreTheirs

LEMMA PlaceBeside ==
  ASSUME PlaceInv, UNCHANGED <<form, place, hints, searches, location>>,
         "late" \in oddities => "late" \in oddities'
  PROVE  PlaceInv'
BY DEF PlaceInv

----------------------------------------------------------------------------
(* The operators on lists of pictures.                                     *)

\* On lists that are not taken apart.
LEMMA JoinGives ==
  ASSUME NEW S, NEW a \in Seq(S), NEW b \in Seq(S)
  PROVE  a \o b \in Seq(S) /\ Len(a \o b) = Len(a) + Len(b)
OBVIOUS

LEMMA Joins ==
  ASSUME NEW S, NEW a \in Seq(S), NEW b \in Seq(S), NEW c \in Seq(S)
  PROVE  (a \o b) \o c = a \o (b \o c)
OBVIOUS

\* The end of a sequence, from position m on.
LEMMA EndGives ==
  ASSUME NEW S, NEW w \in Seq(S), NEW m \in 1..Len(w) + 1
  PROVE  LET e == SubSeq(w, m, Len(w))
         IN  /\ e \in Seq(S) /\ Len(e) = Len(w) + 1 - m
             /\ \A k \in 1..Len(w) + 1 - m : e[k] = w[k + m - 1]
OBVIOUS

LEMMA EndOfJoin ==
  ASSUME NEW S, NEW s \in Seq(S), NEW t \in Seq(S), NEW m \in 1..Len(s) + 1
  PROVE  SubSeq(s \o t, m, Len(s \o t)) = SubSeq(s, m, Len(s)) \o t
<1> DEFINE l == SubSeq(s \o t, m, Len(s \o t))
           u == SubSeq(s, m, Len(s))
<1>1. s \o t \in Seq(S) /\ Len(s \o t) = Len(s) + Len(t)
  OBVIOUS
<1>2. /\ l \in Seq(S) /\ Len(l) = Len(s) + Len(t) + 1 - m
      /\ \A k \in 1..Len(s) + Len(t) + 1 - m : l[k] = (s \o t)[k + m - 1]
  <2> DEFINE w == s \o t
  <2>1. w \in Seq(S) /\ Len(w) = Len(s) + Len(t) /\ m \in 1..Len(w) + 1
    BY <1>1
  <2> HIDE DEF w
  <2>2. /\ SubSeq(w, m, Len(w)) \in Seq(S)
        /\ Len(SubSeq(w, m, Len(w))) = Len(w) + 1 - m
        /\ \A k \in 1..Len(w) + 1 - m : SubSeq(w, m, Len(w))[k] = w[k + m - 1]
    BY <2>1, EndGives
  <2>3. l = SubSeq(w, m, Len(w))
    BY DEF w
  <2> HIDE DEF l
  <2>4. /\ l \in Seq(S) /\ Len(l) = Len(s) + Len(t) + 1 - m
        /\ \A k \in 1..Len(s) + Len(t) + 1 - m : l[k] = w[k + m - 1]
    BY <2>1, <2>2, <2>3
  <2> QED
    BY <2>4 DEF w
<1>3. /\ u \in Seq(S) /\ Len(u) = Len(s) + 1 - m
      /\ \A k \in 1..Len(s) + 1 - m : u[k] = s[k + m - 1]
  BY EndGives
<1> HIDE DEF l, u
<1>4. u \o t \in Seq(S) /\ Len(u \o t) = Len(l)
  <2>1. u \o t \in Seq(S) /\ Len(u \o t) = Len(u) + Len(t)
    BY <1>3, JoinGives
  <2>2. Len(s) + 1 - m + Len(t) = Len(s) + Len(t) + 1 - m
    OBVIOUS
  <2> QED
    BY <1>2, <1>3, <2>1, <2>2
<1>5. ASSUME NEW k \in 1..Len(l) PROVE l[k] = (u \o t)[k]
  <2>1. k + m - 1 \in 1..Len(s) + Len(t) /\ l[k] = (s \o t)[k + m - 1]
    BY <1>2
  <2>2. CASE k <= Len(u)
    BY <1>2, <1>3, <2>1, <2>2
  <2>3. CASE ~(k <= Len(u))
    <3>1. (s \o t)[k + m - 1] = t[k + m - 1 - Len(s)]
      BY <1>2, <1>3, <2>1, <2>3
    <3>2. (u \o t)[k] = t[k - Len(u)]
      BY <1>2, <1>3, <1>4, <2>3
    <3>3. k + m - 1 - Len(s) = k - Len(u)
      BY <1>3
    <3> QED
      BY <2>1, <3>1, <3>2, <3>3
  <2> QED
    BY <2>2, <2>3
<1> DEFINE r == u \o t
<1>6. r \in Seq(S) /\ Len(l) = Len(r) /\ \A k \in 1..Len(l) : l[k] = r[k]
  BY <1>4, <1>5
<1> HIDE DEF r
<1>7. l = r
  BY <1>2, <1>6, SeqEqual
<1> QED
  BY <1>7 DEF l, u, r

LEMMA RemoveAtGives ==
  ASSUME NEW S, NEW s \in Seq(S), NEW i \in 1..Len(s)
  PROVE  RemoveAt(s, i) \in Seq(S) /\ Len(RemoveAt(s, i)) = Len(s) - 1
<1> DEFINE before == SubSeq(s, 1, i - 1)
           after == SubSeq(s, i + 1, Len(s))
<1>1. before \in Seq(S) /\ Len(before) = i - 1 /\ after \in Seq(S) /\ Len(after) = Len(s) - i
  OBVIOUS
<1>2. RemoveAt(s, i) = before \o after
  BY DEF RemoveAt
<1> HIDE DEF before, after
<1> QED
  BY <1>1, <1>2

\* What is done to the pictures shown can be done to all of them.
LEMMA RemoveAtBefore ==
  ASSUME NEW S, NEW s \in Seq(S), NEW t \in Seq(S), NEW i \in 1..Len(s)
  PROVE  RemoveAt(s \o t, i) = RemoveAt(s, i) \o t
<1> DEFINE before == SubSeq(s, 1, i - 1)
           after == SubSeq(s, i + 1, Len(s))
<1>1. SubSeq(s \o t, 1, i - 1) = before
  OBVIOUS
<1>2. i + 1 \in 1..Len(s) + 1
  OBVIOUS
<1>3. SubSeq(s \o t, i + 1, Len(s \o t)) = after \o t
  BY <1>2, EndOfJoin
<1>4. before \in Seq(S) /\ after \in Seq(S)
  OBVIOUS
<1>5. RemoveAt(s \o t, i) = before \o (after \o t) /\ RemoveAt(s, i) = before \o after
  BY <1>1, <1>3 DEF RemoveAt
<1> HIDE DEF before, after
<1> QED
  BY <1>4, <1>5

LEMMA MovedGives ==
  ASSUME NEW S, NEW s \in Seq(S), NEW from \in 1..Len(s), NEW to \in 1..Len(s)
  PROVE  Moved(s, from, to) \in Seq(S) /\ Len(Moved(s, from, to)) = Len(s)
<1> DEFINE rest == RemoveAt(s, from)
           before == SubSeq(rest, 1, to - 1)
           after == SubSeq(rest, to, Len(rest))
           one == <<s[from]>>
<1>1. /\ rest \in Seq(S) /\ Len(rest) = Len(s) - 1
      /\ one \in Seq(S) /\ Len(one) = 1
  BY RemoveAtGives
<1>2. Moved(s, from, to) = before \o one \o after
  BY DEF Moved, InsertAt
<1> HIDE DEF rest
<1>3. before \in Seq(S) /\ Len(before) = to - 1 /\ after \in Seq(S) /\ Len(after) = Len(s) - to
  BY <1>1
<1> HIDE DEF before, after, one
<1>4. before \o one \in Seq(S) /\ Len(before \o one) = Len(before) + Len(one)
  BY <1>1, <1>3, JoinGives
<1> DEFINE front == before \o one
<1>5. front \in Seq(S) /\ Len(front) = to
  BY <1>1, <1>3, <1>4
<1> HIDE DEF front
<1>6. front \o after \in Seq(S) /\ Len(front \o after) = Len(front) + Len(after)
  BY <1>3, <1>5, JoinGives
<1>7. Moved(s, from, to) = front \o after
  BY <1>2 DEF front
<1>8. to + (Len(s) - to) = Len(s)
  OBVIOUS
<1> QED
  BY <1>3, <1>5, <1>6, <1>7, <1>8

LEMMA MovedBefore ==
  ASSUME NEW S, NEW s \in Seq(S), NEW t \in Seq(S), NEW from \in 1..Len(s), NEW to \in 1..Len(s)
  PROVE  Moved(s \o t, from, to) = Moved(s, from, to) \o t
<1> DEFINE rest == RemoveAt(s, from)
           before == SubSeq(rest, 1, to - 1)
           after == SubSeq(rest, to, Len(rest))
           one == <<s[from]>>
<1>1. rest \in Seq(S) /\ Len(rest) = Len(s) - 1 /\ RemoveAt(s \o t, from) = rest \o t
  BY RemoveAtGives, RemoveAtBefore
<1>2. Moved(s, from, to) = before \o one \o after
  BY DEF Moved, InsertAt
<1>3. one \in Seq(S) /\ <<(s \o t)[from]>> = one
  OBVIOUS
<1> HIDE DEF rest
<1>4. SubSeq(rest \o t, 1, to - 1) = before
  BY <1>1
<1>5. to \in 1..Len(rest) + 1
  BY <1>1
<1>6. SubSeq(rest \o t, to, Len(rest \o t)) = after \o t
  BY <1>1, <1>5, EndOfJoin
<1>7. before \in Seq(S) /\ after \in Seq(S)
  BY <1>1
<1> HIDE DEF before, after, one
<1>8. Moved(s \o t, from, to) = before \o one \o (after \o t)
  BY <1>1, <1>3, <1>4, <1>6 DEF Moved, InsertAt
<1>9. before \o one \in Seq(S)
  BY <1>3, <1>7
<1> QED
  <2> DEFINE front == before \o one
  <2> HIDE DEF front
  <2>1. front \in Seq(S)
    BY <1>9 DEF front
  <2>2. (front \o after) \o t = front \o (after \o t)
    BY <1>7, <2>1
  <2> QED
    BY <1>2, <1>8, <2>2 DEF front

----------------------------------------------------------------------------
(* The steps on pictures.                                                  *)

\* A step on pictures of an open form.
PicturesGoOn ==
  /\ form \in {"create", "edit"}
  /\ files' \in Seq(Picture) /\ shown' \in Seq(Picture) /\ reading' \in Seq(Picture)
  /\ UNCHANGED <<form, stored>>
  /\ form = "create" /\ FilesFollow =>
       /\ Len(files') = Len(shown') + Len(reading')
       /\ "overtaken" \in oddities' \/ files' = shown' \o reading'

LEMMA PicturesStep == PicturesInv /\ PicturesGoOn => PicturesInv'
BY DEF PicturesInv, PicturesGoOn, FilesFollow, ThumbsAreTheirs

LEMMA SelectImagesKeeps ==
  ASSUME PicturesInv, NEW chosen \in Seq(Picture), SelectImages(chosen) PROVE PicturesInv'
<1>1. /\ form \in {"create", "edit"} /\ shown' = shown /\ reading' = reading \o chosen
      /\ UNCHANGED <<form, stored, oddities>>
      /\ files' = IF form = "create" THEN files \o chosen ELSE files
  BY DEF SelectImages, Open, storedVars
<1>2. files \in Seq(Picture) /\ shown \in Seq(Picture) /\ reading \in Seq(Picture)
  BY DEF PicturesInv
<1>3. files' \in Seq(Picture) /\ reading' \in Seq(Picture)
  BY <1>1, <1>2, JoinGives
<1>4. ASSUME form = "create", FilesFollow
      PROVE  /\ Len(files') = Len(shown') + Len(reading')
             /\ "overtaken" \in oddities' \/ files' = shown' \o reading'
  <2>1. /\ Len(files') = Len(files) + Len(chosen)
        /\ Len(reading') = Len(reading) + Len(chosen) /\ Len(shown') = Len(shown)
    BY <1>1, <1>2, <1>4, JoinGives
  <2>2. (shown \o reading) \o chosen = shown \o (reading \o chosen)
    BY <1>2, Joins
  <2>3. Len(files) = Len(shown) + Len(reading)
    BY <1>4 DEF FilesFollow
  <2>4. Len(shown) + Len(reading) + Len(chosen) = Len(shown) + (Len(reading) + Len(chosen))
    BY <1>2
  <2>5. Len(files') = Len(shown') + Len(reading')
    BY <2>1, <2>3, <2>4
  <2> QED
    BY <1>1, <1>4, <2>2, <2>5 DEF FilesFollow
<1>5. PicturesGoOn
  BY <1>1, <1>2, <1>3, <1>4 DEF PicturesGoOn
<1> QED
  BY <1>5, PicturesStep

LEMMA ReaderLoadedKeeps ==
  ASSUME PicturesInv, NEW i, ReaderLoaded(i) PROVE PicturesInv'
<1>1. /\ form \in {"create", "edit"} /\ i \in DOMAIN reading
      /\ shown' = Append(shown, reading[i]) /\ reading' = RemoveAt(reading, i)
      /\ UNCHANGED <<form, stored, files>>
      /\ i # 1 => "overtaken" \in oddities'
      /\ "overtaken" \in oddities => "overtaken" \in oddities'
  BY DEF ReaderLoaded, Open, storedVars
<1>2. files \in Seq(Picture) /\ shown \in Seq(Picture) /\ reading \in Seq(Picture)
  BY DEF PicturesInv
<1>3. i \in 1..Len(reading)
  BY <1>1, <1>2
<1>4. reading' \in Seq(Picture) /\ Len(reading') = Len(reading) - 1
  BY <1>1, <1>2, <1>3, RemoveAtGives
<1>5. shown' \in Seq(Picture) /\ Len(shown') = Len(shown) + 1
  BY <1>1, <1>2, <1>3
<1>6. i = 1 => shown' \o reading' = shown \o reading
  <2> SUFFICES ASSUME i = 1 PROVE shown' \o reading' = shown \o reading
    OBVIOUS
  <2> DEFINE rest == Tail(reading)
             one == <<reading[1]>>
  <2>1. rest \in Seq(Picture) /\ one \in Seq(Picture) /\ reading = one \o rest
    BY <1>2, <1>3
  <2>2. SubSeq(reading, 1, 1 - 1) = <<>> /\ SubSeq(reading, 1 + 1, Len(reading)) = rest
    BY <1>2, <1>3
  <2>3. reading' = <<>> \o rest
    BY <1>1, <2>2 DEF RemoveAt
  <2>4. reading' = rest
    BY <2>1, <2>3
  <2>5. shown' = shown \o one
    BY <1>1, <1>2, <1>3
  <2> HIDE DEF rest, one
  <2>6. (shown \o one) \o rest = shown \o (one \o rest)
    BY <1>2, <2>1, Joins
  <2> QED
    BY <2>1, <2>4, <2>5, <2>6
<1>7. ASSUME form = "create", FilesFollow
      PROVE  /\ Len(files') = Len(shown') + Len(reading')
             /\ "overtaken" \in oddities' \/ files' = shown' \o reading'
  <2>1. Len(shown) + 1 + (Len(reading) - 1) = Len(shown) + Len(reading)
    BY <1>2
  <2> QED
    BY <1>1, <1>4, <1>5, <1>6, <1>7, <2>1 DEF FilesFollow
<1>8. PicturesGoOn
  BY <1>1, <1>2, <1>4, <1>5, <1>7 DEF PicturesGoOn
<1> QED
  BY <1>8, PicturesStep

LEMMA RemoveImageKeeps ==
  ASSUME PicturesInv, NEW i, RemoveImage(i) PROVE PicturesInv'
<1>1. /\ form \in {"create", "edit"} /\ i \in DOMAIN shown
      /\ shown' = RemoveAt(shown, i)
      /\ files' = IF form = "create" THEN RemoveAt(files, i) ELSE files
      /\ UNCHANGED <<form, stored, reading, oddities>>
  BY DEF RemoveImage, Open, storedVars
<1>2. files \in Seq(Picture) /\ shown \in Seq(Picture) /\ reading \in Seq(Picture)
  BY DEF PicturesInv
<1>3. i \in 1..Len(shown)
  BY <1>1, <1>2
<1>4. form = "create" => i \in 1..Len(files) /\ Len(files) = Len(shown) + Len(reading)
  BY <1>2, <1>3 DEF PicturesInv, FilesFollow
<1>5. shown' \in Seq(Picture) /\ Len(shown') = Len(shown) - 1
  BY <1>1, <1>2, <1>3, RemoveAtGives
<1>6. files' \in Seq(Picture) /\ (form = "create" => Len(files') = Len(files) - 1)
  BY <1>1, <1>2, <1>4, RemoveAtGives
<1>7. RemoveAt(shown \o reading, i) = RemoveAt(shown, i) \o reading
  BY <1>2, <1>3, RemoveAtBefore
<1>8. ASSUME form = "create", FilesFollow
      PROVE  /\ Len(files') = Len(shown') + Len(reading')
             /\ "overtaken" \in oddities' \/ files' = shown' \o reading'
  <2>1. Len(shown) + Len(reading) - 1 = Len(shown) - 1 + Len(reading)
    BY <1>2
  <2>2. Len(files') = Len(shown') + Len(reading')
    BY <1>1, <1>4, <1>5, <1>6, <1>8, <2>1
  <2> QED
    BY <1>1, <1>7, <1>8, <2>2 DEF FilesFollow
<1>9. PicturesGoOn
  BY <1>1, <1>2, <1>5, <1>6, <1>8 DEF PicturesGoOn
<1> QED
  BY <1>9, PicturesStep

LEMMA DropImageKeeps ==
  ASSUME PicturesInv, NEW from, NEW to, DropImage(from, to) PROVE PicturesInv'
<1>1. /\ form \in {"create", "edit"} /\ from \in DOMAIN shown /\ to \in DOMAIN shown
      /\ shown' = Moved(shown, from, to)
      /\ files' = IF form = "create" THEN Moved(files, from, to) ELSE files
      /\ UNCHANGED <<form, stored, reading, oddities>>
  BY DEF DropImage, Open, storedVars
<1>2. files \in Seq(Picture) /\ shown \in Seq(Picture) /\ reading \in Seq(Picture)
  BY DEF PicturesInv
<1>3. from \in 1..Len(shown) /\ to \in 1..Len(shown)
  BY <1>1, <1>2
<1>4. form = "create" =>
        from \in 1..Len(files) /\ to \in 1..Len(files) /\ Len(files) = Len(shown) + Len(reading)
  BY <1>2, <1>3 DEF PicturesInv, FilesFollow
<1>5. shown' \in Seq(Picture) /\ Len(shown') = Len(shown)
  BY <1>1, <1>2, <1>3, MovedGives
<1>6. files' \in Seq(Picture) /\ (form = "create" => Len(files') = Len(files))
  BY <1>1, <1>2, <1>4, MovedGives
<1>7. Moved(shown \o reading, from, to) = Moved(shown, from, to) \o reading
  BY <1>2, <1>3, MovedBefore
<1>8. ASSUME form = "create", FilesFollow
      PROVE  /\ Len(files') = Len(shown') + Len(reading')
             /\ "overtaken" \in oddities' \/ files' = shown' \o reading'
  <2>1. Len(files') = Len(shown') + Len(reading')
    BY <1>1, <1>4, <1>5, <1>6, <1>8
  <2> QED
    BY <1>1, <1>7, <1>8, <2>1 DEF FilesFollow
<1>9. PicturesGoOn
  BY <1>1, <1>2, <1>5, <1>6, <1>8 DEF PicturesGoOn
<1> QED
  BY <1>9, PicturesStep

----------------------------------------------------------------------------
(* What is stored.                                                         *)

\* The thumbnails of a created listing come in the order of the pictures.
LEMMA CreatedThumbs ==
  ASSUME files \in Seq(Picture), NEW i \in DOMAIN files, \A j \in 1..i : files[j] \notin Plain
  PROVE  CreatedRows[i].thumb \subseteq {files[i]}
<1> DEFINE with(j) == {k \in 1..j : files[k] \notin Plain}
<1>1. i \in 1..Len(files) /\ DOMAIN files = 1..Len(files) /\ Len(files) \in Nat
  OBVIOUS
<1>2. \A j \in Nat : IsFiniteSet(1..j) /\ Cardinality(1..j) = j
  BY FS_Interval
<1>3. \A j \in 0..i : with(j) = 1..j
  BY <1>1
<1>4. SUFFICES ASSUME NEW j \in 1..Len(files), files[j] \notin Plain, ThumbsUpTo(j) = i PROVE j = i
  BY <1>1 DEF CreatedRows
<1>5. CASE j < i
  <2>1. with(j) = 1..j /\ j \in Nat
    BY <1>1, <1>3, <1>5
  <2>2. ThumbsUpTo(j) = Cardinality(1..j)
    BY <2>1 DEF ThumbsUpTo
  <2> QED
    BY <1>2, <1>4, <2>1, <2>2
<1>6. CASE j > i
  <2>1. IsFiniteSet(with(j))
    BY <1>2, FS_Subset
  <2>2. with(i) \cup {j} \subseteq with(j) /\ with(i) = 1..i /\ j \notin 1..i
    BY <1>1, <1>3, <1>4, <1>6
  <2> DEFINE first == 1..i
  <2>3. IsFiniteSet(first) /\ Cardinality(first) = i /\ j \notin first
    BY <1>1, <1>2, <2>2
  <2> HIDE DEF first
  <2>4. Cardinality(first \cup {j}) = i + 1 /\ IsFiniteSet(first \cup {j})
    BY <2>3, FS_AddElement
  <2>5. Cardinality(1..i \cup {j}) = i + 1 /\ IsFiniteSet(1..i \cup {j})
    BY <2>4 DEF first
  <2>6. Cardinality(1..i \cup {j}) <= Cardinality(with(j))
    BY <2>1, <2>2, <2>5, FS_Subset
  <2>7. Cardinality(with(j)) = i
    BY <1>4 DEF ThumbsUpTo
  <2> QED
    BY <1>1, <2>5, <2>6, <2>7
<1> QED
  BY <1>1, <1>5, <1>6

LEMMA CreatedKeeps ==
  ASSUME files \in Seq(Picture)
  PROVE  /\ CreatedRows \in Seq(Row) /\ PicturesOf(CreatedRows) = files
         /\ \A i \in DOMAIN CreatedRows :
              \/ CreatedRows[i].thumb \subseteq {CreatedRows[i].pic}
              \/ \E j \in 1..i : CreatedRows[j].pic \in Plain
<1>1. DOMAIN CreatedRows = DOMAIN files /\ DOMAIN files = 1..Len(files) /\ Len(files) \in Nat
  BY DEF CreatedRows
<1>2. \A i \in DOMAIN files : CreatedRows[i] \in Row /\ CreatedRows[i].pic = files[i]
  BY DEF CreatedRows, Row
<1>3. CreatedRows \in [1..Len(files) -> Row]
  BY <1>1, <1>2 DEF CreatedRows
<1>4. CreatedRows \in Seq(Row)
  BY <1>1, <1>3
<1>5. PicturesOf(CreatedRows) = files
  <2>1. PicturesOf(CreatedRows) = [i \in 1..Len(files) |-> files[i]]
    BY <1>1, <1>2 DEF PicturesOf
  <2> QED
    BY <2>1
<1>6. ASSUME NEW i \in DOMAIN files, \A j \in 1..i : files[j] \notin Plain
      PROVE  CreatedRows[i].thumb \subseteq {files[i]}
  BY <1>6, CreatedThumbs
<1>7. \A i \in DOMAIN files : \A j \in 1..i : CreatedRows[j].pic = files[j]
  BY <1>1, <1>2
<1> QED
  BY <1>1, <1>2, <1>4, <1>5, <1>6, <1>7

LEMMA EditedKeeps ==
  ASSUME shown \in Seq(Picture)
  PROVE  /\ EditedRows \in Seq(Row) /\ PicturesOf(EditedRows) = shown
         /\ \A i \in DOMAIN EditedRows : EditedRows[i].thumb \subseteq {EditedRows[i].pic}
<1>1. DOMAIN EditedRows = DOMAIN shown /\ DOMAIN shown = 1..Len(shown) /\ Len(shown) \in Nat
  BY DEF EditedRows
<1>2. \A i \in DOMAIN shown :
        /\ EditedRows[i] \in Row /\ EditedRows[i].pic = shown[i]
        /\ EditedRows[i].thumb \subseteq {shown[i]}
  BY DEF EditedRows, Row, Thumb
<1>3. EditedRows \in [1..Len(shown) -> Row]
  BY <1>1, <1>2 DEF EditedRows
<1>4. EditedRows \in Seq(Row)
  BY <1>1, <1>3
<1>5. PicturesOf(EditedRows) = shown
  <2>1. PicturesOf(EditedRows) = [i \in 1..Len(shown) |-> shown[i]]
    BY <1>1, <1>2 DEF PicturesOf
  <2> QED
    BY <2>1
<1> QED
  BY <1>1, <1>2, <1>4, <1>5

LEMMA SubmitKeeps ==
  ASSUME PicturesInv, Submit PROVE PicturesInv'
<1>1. /\ form \in {"create", "edit"} /\ form' = "left"
      /\ stored' = IF form = "create" THEN CreatedRows ELSE EditedRows
      /\ UNCHANGED <<files, shown, reading, oddities>>
  BY DEF Submit, Open, pictureVars
<1>2. files \in Seq(Picture) /\ shown \in Seq(Picture) /\ reading \in Seq(Picture)
  BY DEF PicturesInv
<1>3. /\ stored' \in Seq(Row) /\ PicturesOf(stored') = IF form = "create" THEN files ELSE shown
      /\ \A i \in DOMAIN stored' :
           \/ stored'[i].thumb \subseteq {stored'[i].pic}
           \/ \E j \in 1..i : stored'[j].pic \in Plain
  BY <1>1, <1>2, CreatedKeeps, EditedKeeps
<1>4. IsPrefix(shown, shown) /\ IsPrefix(shown, shown \o reading)
  BY <1>2 DEF IsPrefix
<1>5. "overtaken" \in oddities \/ IsPrefix(shown, PicturesOf(stored'))
  BY <1>1, <1>3, <1>4 DEF PicturesInv, FilesFollow
<1> QED
  BY <1>1, <1>2, <1>3, <1>5 DEF PicturesInv, FilesFollow, ThumbsAreTheirs

LEMMA LoadKeeps ==
  ASSUME PicturesInv, Load PROVE PicturesInv'
<1>1. /\ form' = "edit" /\ shown' = PicturesOf(stored) /\ files' = <<>> /\ reading' = <<>>
      /\ stored' = stored
  BY DEF Load, storedVars
<1>2. PicturesOf(stored) \in Seq(Picture)
  <2>1. stored \in [1..Len(stored) -> Row] /\ Len(stored) \in Nat
    BY DEF PicturesInv
  <2>2. PicturesOf(stored) \in [1..Len(stored) -> Picture]
    BY <2>1 DEF PicturesOf, Row
  <2> QED
    BY <2>1, <2>2
<1> QED
  BY <1>1, <1>2 DEF PicturesInv, FilesFollow, ThumbsAreTheirs

----------------------------------------------------------------------------
(* The steps on the place.                                                 *)

Typed(p, h, s) ==
  /\ p \in PlaceType /\ h \in [city : SUBSET City, quarter : SUBSET City]
  /\ s \subseteq SearchType

\* What is selected and suggested is in one place.
Fits(p, h) ==
  /\ p.country # Nowhere /\ p.city # Nowhere => p.city[1] = p.country[1]
  /\ p.country # Nowhere => \A c \in h.city : c[1] = p.country[1]
  /\ p.city # Nowhere => h.quarter \subseteq {p.city}
  /\ p.quarter \in {Nowhere, p.city}

\* A step on the place in an open form.
PlaceGoesOn ==
  /\ form \in {"create", "edit"} /\ UNCHANGED <<form, location>>
  /\ Typed(place', hints', searches')
  /\ "late" \in oddities => "late" \in oddities'
  /\ Fits(place, hints) /\ "late" \notin oddities' => Fits(place', hints')

LEMMA PlaceStep == PlaceInv /\ PlaceGoesOn => PlaceInv'
BY DEF PlaceInv, PlaceGoesOn, Typed, Fits

LEMMA PlaceTypes ==
  ASSUME PlaceInv
  PROVE  /\ Typed(place, hints, searches)
         /\ place.country # Nowhere => \E c \in Country : place.country = <<c>>
         /\ place.city # Nowhere => place.city \in City
  BY DEF PlaceInv, Typed, PlaceType, CountryType, CityType

LEMMA NothingSelected ==
  /\ NoPlace \in PlaceType /\ NoPlace.country = Nowhere /\ NoPlace.city = Nowhere
  /\ NoPlace.quarter = Nowhere
  /\ NoHints \in [city : SUBSET City, quarter : SUBSET City]
  /\ NoHints.city = {} /\ NoHints.quarter = {}
  BY DEF NoPlace, NoHints, PlaceType, CountryType, CityType

LEMMA SelectCountryKeeps ==
  ASSUME PlaceInv, NEW c \in Country, SelectCountry(c) PROVE PlaceInv'
<1>1. /\ form \in {"create", "edit"} /\ place' = [NoPlace EXCEPT !.country = <<c>>]
      /\ hints' = NoHints /\ UNCHANGED <<form, location, searches, oddities>>
  BY DEF SelectCountry, Open, storedVars
<1>2. /\ place' \in PlaceType /\ place'.city = Nowhere /\ place'.quarter = Nowhere
  BY <1>1, NothingSelected DEF PlaceType, CountryType
<1>3. Typed(place', hints', searches')
  BY <1>1, <1>2, NothingSelected, PlaceTypes DEF Typed
<1>4. Fits(place', hints')
  BY <1>1, <1>2, NothingSelected DEF Fits
<1> QED
  BY <1>1, <1>3, <1>4, PlaceStep DEF PlaceGoesOn

LEMMA SearchesKeep ==
  ASSUME PlaceInv, SearchCity \/ SearchQuarter PROVE PlaceInv'
<1>1. /\ form \in {"create", "edit"} /\ UNCHANGED <<form, location, place, oddities>>
  BY DEF SearchCity, SearchQuarter, Open, storedVars
<1>2. hints \in [city : SUBSET City, quarter : SUBSET City]
  BY PlaceTypes DEF Typed
<1>3. /\ hints' \in [city : SUBSET City, quarter : SUBSET City]
      /\ hints'.city \subseteq hints.city
      /\ hints'.quarter \subseteq hints.quarter
  BY <1>2 DEF SearchCity, SearchQuarter
<1>4. searches' \subseteq SearchType
  <2>1. CASE SearchCity
    <3>1. PICK c \in Country : place.country = <<c>>
      BY <2>1, PlaceTypes DEF SearchCity, CityField, CountryField
    <3>2. [field |-> "city", in |-> <<c>>] \in SearchType
      BY DEF SearchType
    <3> QED
      BY <2>1, <3>1, <3>2, PlaceTypes DEF SearchCity, Typed
  <2>2. CASE SearchQuarter
    <3>1. place.city \in City
      BY <2>2, PlaceTypes DEF SearchQuarter, QuarterField
    <3>2. [field |-> "quarter", in |-> place.city] \in SearchType
      BY <3>1 DEF SearchType
    <3> QED
      BY <2>2, <3>2, PlaceTypes DEF SearchQuarter, Typed
  <2> QED
    BY <2>1, <2>2
<1>5. Typed(place', hints', searches')
  BY <1>1, <1>3, <1>4, PlaceTypes DEF Typed
<1>6. Fits(place, hints) => Fits(place', hints')
  BY <1>1, <1>3 DEF Fits
<1> QED
  BY <1>1, <1>5, <1>6, PlaceStep DEF PlaceGoesOn

LEMMA AnsweredKeeps ==
  ASSUME PlaceInv, NEW search \in searches, Answered(search) PROVE PlaceInv'
<1> DEFINE found == IF search.field = "city" THEN {c \in City : c[1] = search.in[1]}
                    ELSE {search.in}
           now == IF search.field = "city" THEN place.country ELSE place.city
<1>1. /\ form \in {"create", "edit"} /\ UNCHANGED <<form, location, place>>
      /\ searches' = searches \ {search}
      /\ hints' \in {[hints EXCEPT ![search.field] = found],
                     [hints EXCEPT ![search.field] = {}]}
      /\ "late" \in oddities => "late" \in oddities'
      /\ "late" \notin oddities' => now \in {search.in, Nowhere}
  BY DEF Answered, Open, storedVars
<1>2. hints \in [city : SUBSET City, quarter : SUBSET City] /\ search \in SearchType
  BY PlaceTypes DEF Typed
<1>3. search.field = "city" \/ (search.field = "quarter" /\ search.in \in City)
  BY <1>2 DEF SearchType
<1>4. found \subseteq City
  BY <1>3
<1> HIDE DEF found
<1>5. /\ hints' \in [city : SUBSET City, quarter : SUBSET City]
      /\ search.field = "city" => hints'.quarter = hints.quarter /\ hints'.city \subseteq found
      /\ search.field = "quarter" => hints'.city = hints.city /\ hints'.quarter \subseteq found
  <2>1. CASE search.field = "city"
    BY <1>1, <1>2, <1>4, <2>1
  <2>2. CASE search.field = "quarter"
    BY <1>1, <1>2, <1>4, <2>2
  <2> QED
    BY <1>3, <2>1, <2>2
<1>6. Typed(place', hints', searches')
  BY <1>1, <1>5, PlaceTypes DEF Typed
<1>7. ASSUME Fits(place, hints), "late" \notin oddities' PROVE Fits(place', hints')
  <2>1. CASE search.field = "city"
    <3>1. place.country # Nowhere => \A c \in found : c[1] = place.country[1]
      BY <1>1, <1>7, <2>1 DEF found
    <3> QED
      BY <1>1, <1>5, <1>7, <2>1, <3>1 DEF Fits
  <2>2. CASE search.field = "quarter"
    <3>1. place.city # Nowhere => found \subseteq {place.city}
      BY <1>1, <1>7, <2>2 DEF found
    <3> QED
      BY <1>1, <1>5, <1>7, <2>2, <3>1 DEF Fits
  <2> QED
    BY <1>3, <2>1, <2>2
<1> QED
  BY <1>1, <1>6, <1>7, PlaceStep DEF PlaceGoesOn

LEMMA SelectionsKeep ==
  ASSUME PlaceInv, NEW c \in City, SelectCity(c) \/ SelectQuarter(c) PROVE PlaceInv'
<1>1. /\ form \in {"create", "edit"} /\ UNCHANGED <<form, location, searches, oddities>>
  BY DEF SelectCity, SelectQuarter, Open, storedVars
<1>2. /\ place \in PlaceType /\ hints \in [city : SUBSET City, quarter : SUBSET City]
      /\ c \in CityType /\ Nowhere \in CityType
  BY PlaceTypes DEF Typed, CityType
<1>3. CASE SelectCity(c)
  <2>1. /\ place' \in PlaceType /\ hints' = NoHints
        /\ place'.country = place.country /\ place'.city = c /\ place'.quarter = Nowhere
        /\ place.country # Nowhere /\ c \in hints.city
    BY <1>2, <1>3 DEF SelectCity, PlaceType, CityField, CountryField
  <2>2. Typed(place', hints', searches')
    BY <1>1, <2>1, NothingSelected, PlaceTypes DEF Typed
  <2>3. Fits(place, hints) => Fits(place', hints')
    BY <2>1, NothingSelected DEF Fits
  <2> QED
    BY <1>1, <2>2, <2>3, PlaceStep DEF PlaceGoesOn
<1>4. CASE SelectQuarter(c)
  <2>1. /\ place' \in PlaceType
        /\ place'.country = place.country /\ place'.city = place.city /\ place'.quarter = c
        /\ place.city # Nowhere /\ c \in hints.quarter
    BY <1>2, <1>4 DEF SelectQuarter, PlaceType, QuarterField
  <2>2. /\ hints' \in [city : SUBSET City, quarter : SUBSET City]
        /\ hints'.city = hints.city /\ hints'.quarter = {}
    BY <1>2, <1>4 DEF SelectQuarter
  <2>3. Typed(place', hints', searches')
    BY <1>1, <2>1, <2>2, PlaceTypes DEF Typed
  <2>4. Fits(place, hints) => Fits(place', hints')
    BY <2>1, <2>2 DEF Fits
  <2> QED
    BY <1>1, <2>3, <2>4, PlaceStep DEF PlaceGoesOn
<1> QED
  BY <1>3, <1>4

LEMMA ChangesKeep ==
  ASSUME PlaceInv, ChangeCountry \/ ChangeCity \/ ChangeQuarter PROVE PlaceInv'
<1>1. /\ form \in {"create", "edit"} /\ UNCHANGED <<form, location, hints, searches, oddities>>
  BY DEF ChangeCountry, ChangeCity, ChangeQuarter, Open, storedVars
<1>2. place \in PlaceType /\ Nowhere \in CityType
  BY PlaceTypes DEF Typed, CityType
<1>3. CASE ChangeCountry
  BY <1>1, <1>3, NothingSelected, PlaceTypes, PlaceStep
     DEF ChangeCountry, PlaceGoesOn, Typed, Fits
<1>4. CASE ChangeCity \/ ChangeQuarter
  <2>1. /\ place' \in PlaceType /\ place'.country = place.country
        /\ place'.city \in {Nowhere, place.city} /\ place'.quarter = Nowhere
    BY <1>2, <1>4 DEF ChangeCity, ChangeQuarter, PlaceType
  <2>2. Typed(place', hints', searches')
    BY <1>1, <2>1, PlaceTypes DEF Typed
  <2>3. Fits(place, hints) => Fits(place', hints')
    BY <1>1, <2>1 DEF Fits
  <2> QED
    BY <1>1, <2>2, <2>3, PlaceStep DEF PlaceGoesOn
<1> QED
  BY <1>3, <1>4

LEMMA SubmitKeepsPlace ==
  ASSUME PlaceInv, Submit PROVE PlaceInv'
<1>1. /\ location' = place /\ place.country # Nowhere /\ place.city # Nowhere
      /\ UNCHANGED <<place, hints, searches, oddities>>
  BY DEF Submit, placeVars
<1> QED
  BY <1>1 DEF PlaceInv

LEMMA LoadKeepsPlace ==
  ASSUME PlaceInv, Load PROVE PlaceInv'
<1>1. PICK c \in {<<x>> : x \in Country} \cup {Nowhere} :
        /\ place' = [location EXCEPT !.country = c]
        /\ oddities' = IF c \in {location.country, Nowhere} THEN oddities \ {"overtaken"}
                       ELSE (oddities \ {"overtaken"}) \cup {"late"}
  BY DEF Load
<1>2. /\ form = "left" /\ form' = "edit" /\ location' = location
      /\ hints' = NoHints /\ searches' = {}
  BY DEF Load, storedVars
<1>3. location \in PlaceType /\ c \in CountryType
  BY DEF PlaceInv, CountryType
<1>4. /\ place' \in PlaceType /\ place'.country = c
      /\ place'.city = location.city /\ place'.quarter = location.quarter
  BY <1>1, <1>3 DEF PlaceType
<1>5. "late" \notin oddities' => "late" \notin oddities /\ c \in {location.country, Nowhere}
  BY <1>1
<1> QED
  BY <1>2, <1>3, <1>4, <1>5, NothingSelected DEF PlaceInv

----------------------------------------------------------------------------
LEMMA PictureActionsKeep ==
  ASSUME PicturesInv,
         \/ \E p \in Picture : SelectImages(<<p>>)
         \/ \E p, q \in Picture : p # q /\ SelectImages(<<p, q>>)
         \/ \E i \in 1..MaxShown : ReaderLoaded(i) \/ RemoveImage(i)
         \/ \E from, to \in 1..MaxShown : DropImage(from, to)
  PROVE  PicturesInv' /\ (PlaceInv => PlaceInv')
<1>1. \A p, q \in Picture : <<p>> \in Seq(Picture) /\ <<p, q>> \in Seq(Picture)
  OBVIOUS
<1>2. PicturesInv'
  BY <1>1, SelectImagesKeeps, ReaderLoadedKeeps, RemoveImageKeeps, DropImageKeeps
<1>3. /\ UNCHANGED <<form, place, hints, searches, location>>
      /\ "late" \in oddities => "late" \in oddities'
  BY DEF SelectImages, ReaderLoaded, RemoveImage, DropImage, placeVars, storedVars
<1> QED
  BY <1>2, <1>3, PlaceBeside

LEMMA PlaceActionsKeep ==
  ASSUME PlaceInv,
         \/ \E c \in Country : SelectCountry(c)
         \/ SearchCity \/ SearchQuarter
         \/ \E search \in searches : Answered(search)
         \/ \E c \in City : SelectCity(c) \/ SelectQuarter(c)
         \/ ChangeCountry \/ ChangeCity \/ ChangeQuarter
  PROVE  PlaceInv' /\ (PicturesInv => PicturesInv')
<1>1. PlaceInv'
  BY SelectCountryKeeps, SearchesKeep, AnsweredKeeps, SelectionsKeep, ChangesKeep
<1>2. /\ UNCHANGED <<form, files, shown, reading, stored>>
      /\ "overtaken" \in oddities => "overtaken" \in oddities'
  BY DEF SelectCountry, SearchCity, SearchQuarter, Answered, SelectCity, SelectQuarter,
     ChangeCountry, ChangeCity, ChangeQuarter, pictureVars, storedVars
<1> QED
  BY <1>1, <1>2, PicturesBeside

LEMMA FormSteps == FormInv /\ [FormNext]_formVars => FormInv'
<1> SUFFICES ASSUME PicturesInv, PlaceInv, [FormNext]_formVars PROVE PicturesInv' /\ PlaceInv'
  BY DEF FormInv
<1>1. CASE Submit \/ Load
  BY <1>1, SubmitKeeps, LoadKeeps, SubmitKeepsPlace, LoadKeepsPlace
<1>2. CASE UNCHANGED formVars
  BY <1>2, PicturesBeside, PlaceBeside DEF formVars, pictureVars, placeVars, storedVars
<1> QED
  BY <1>1, <1>2, PictureActionsKeep, PlaceActionsKeep DEF FormNext

\* A listing gets the pictures its form showed, in that order and with their
\* own thumbnails, unless a FileReader of the create form overtook another or
\* a picture without a thumbnail was among the first uploaded
\* (create/page.tsx and edit/page.tsx, handleImageSelect to handleSubmit).
THEOREM PicturesAreStored == FormSpec => []PicturesAsShown
<1>1. FormInv => PicturesAsShown
  BY DEF FormInv, PicturesInv, ThumbsAreTheirs, PicturesAsShown
<1> QED
  BY <1>1, FormStarts, FormSteps, PTL DEF FormSpec

\* The place of a listing is a city of its country and, if there is one, a
\* quarter of that city, whatever was changed before, unless an answer to an
\* old search came late or the country was found by part of its name
\* (create/page.tsx and edit/page.tsx, handleSelectCountry to
\* handleSelectNeighbourhood).
THEOREM PlacesAreOne == FormSpec => []PlaceAsChosen
<1>1. FormInv => PlaceAsChosen
  BY DEF FormInv, PlaceInv, PlaceAsChosen
<1> QED
  BY <1>1, FormStarts, FormSteps, PTL DEF FormSpec
=============================================================================
