------------------------------ MODULE Reputation ------------------------------
(***************************************************************************)
(* reputation-service, for the trades between two users: the trades it has *)
(* been told are completed, the ratings, the trust scores computed from    *)
(* them, and the fraud flags (ratings.service.ts, trust-score.service.ts,  *)
(* fraud-detection.service.ts).  trade.completed goes to two queues, whose *)
(* handlers run in either order or at once; a message is given again when  *)
(* the process dies before it is acknowledged.                             *)
(***************************************************************************)
EXTENDS FiniteSets, Naturals

CONSTANTS User, PairTrade,
          Outsider,    \* users who are no party to these trades
          PartyA(_),   \* the first party of a trade
          Assessor,    \* executions in flight together
          MaxCrashes   \* a bound

ASSUME TwoParties ==
  /\ \E u, v \in User : u # v /\ User = {u, v}
  /\ \A t \in PairTrade : PartyA(t) \in User
  /\ User \cap Outsider = {}

VARIABLES
  announced,  \* completed trades that trade-service has announced
  queued,     \* messages not yet acknowledged, as <<queue, trade>>
  completed,  \* rows of completed_trades
  ratings,    \* rows of ratings
  snapshots,  \* the ratings counted in the last snapshot of each user
  trust,      \* those counted in the score user-service was last told
  flags,      \* fraud_flags, as <<user, type, what it is about>>
  work,       \* the executions in flight
  early,      \* history: trades counted by the fraud check before they had a row
  mixed,      \* history: users whose scores were computed at once or not at all,
              \*          until one is computed by itself
  untold,     \* history: users whose last score user-service was not told
  halved,     \* history: a check died between its two flags, or a user left
  crashes

reputationVars == <<announced, queued, completed, ratings, snapshots, trust,
                    flags, work, early, mixed, untold, halved, crashes>>
reputationRows == <<completed, ratings, snapshots, flags>>
history == <<early, mixed, untold, halved, crashes>>

Everyone == User \cup Outsider
Other(u) == CHOOSE v \in User : v # u
NoWork == [at |-> "idle", queue |-> "none", trade |-> "none"]
MoveTo(h, at) == work' = [work EXCEPT ![h].at = at]
FinishWork(h) == work' = [work EXCEPT ![h] = NoWork]
Acknowledge(h) == FinishWork(h) /\ queued' = queued \ {<<work[h].queue, work[h].trade>>}
About(h) == work[h].trade
A(h) == PartyA(About(h))
B(h) == Other(PartyA(About(h)))

ReputationInit ==
  /\ announced = {} /\ queued = {} /\ completed = {} /\ ratings = {}
  /\ snapshots = [u \in Everyone |-> {}]
  /\ trust = [u \in Everyone |-> {}]
  /\ flags = {}
  /\ work = [h \in Assessor |-> NoWork]
  /\ early = {} /\ mixed = {} /\ untold = {} /\ halved = FALSE /\ crashes = 0

\* trade.completed reaches both queues.
TradeCompleted(t) ==
  /\ t \notin announced
  /\ announced' = announced \cup {t}
  /\ queued' = queued \cup ({"ratings", "fraud"} \X {t})
  /\ UNCHANGED <<reputationRows, trust, work, history>>

Deliver(h, queue, t) ==
  /\ work[h] = NoWork
  /\ <<queue, t>> \in queued
  /\ \A g \in Assessor : <<work[g].queue, work[g].trade>> # <<queue, t>>
  /\ work' = [work EXCEPT ![h] = [at |-> queue, queue |-> queue, trade |-> t]]
  /\ UNCHANGED <<announced, queued, reputationRows, trust, history>>

\* A trade open for ratings: its row, once.
OpenRatings(h) ==
  /\ work[h].at = "ratings"
  /\ completed' = completed \cup {About(h)}
  /\ Acknowledge(h)
  /\ UNCHANGED <<announced, ratings, snapshots, flags, trust, history>>

----------------------------------------------------------------------------
(* Fraud checks.                                                           *)

Circular(u) == <<u, "circular_trading", Other(u)>>
Rapid(u, t) == <<u, "rapid_rating", t>>

\* checkCircularTrading: the rows of the pair, with this trade or without.
CountTrades(h) ==
  /\ work[h].at = "fraud"
  /\ MoveTo(h, IF Cardinality(completed) >= 3 THEN "flagged?" ELSE "rapid")
  /\ early' = IF About(h) \in completed THEN early ELSE early \cup {About(h)}
  /\ UNCHANGED <<announced, queued, reputationRows, trust, mixed, untold, halved, crashes>>

\* A pair that has its flags is left alone, rapid ratings apart.
FindFlag(h) ==
  /\ work[h].at = "flagged?"
  /\ MoveTo(h, IF Circular(A(h)) \in flags THEN "rapid" ELSE "flagA")
  /\ UNCHANGED <<announced, queued, reputationRows, trust, history>>

\* Faulty variant, in no specification: flags one party only.
FlagOne(h) ==
  /\ work[h].at \in {"flagA", "flagB"}
  /\ flags' = flags \cup {Circular(A(h))}
  /\ MoveTo(h, IF work[h].at = "flagA" THEN "flagB" ELSE "rapid")
  /\ UNCHANGED <<announced, queued, completed, ratings, snapshots, trust, history>>

SaveFlag(h) ==
  /\ work[h].at \in {"flagA", "flagB"}
  /\ flags' = flags \cup {Circular(IF work[h].at = "flagA" THEN A(h) ELSE B(h))}
  /\ MoveTo(h, IF work[h].at = "flagA" THEN "flagB" ELSE "rapid")
  /\ UNCHANGED <<announced, queued, completed, ratings, snapshots, trust, history>>

\* checkRapidRatingExchange: high ratings both ways within a day.
High(from, to) ==
  \E r \in ratings : r.rater = from /\ r.rated = to /\ r.high /\ r.recent

CheckRapidRatingExchange(h) ==
  /\ work[h].at = "rapid"
  /\ flags' = IF High(A(h), B(h)) /\ High(B(h), A(h))
              THEN flags \cup {Rapid(A(h), About(h))} ELSE flags
  /\ Acknowledge(h)
  /\ UNCHANGED <<announced, completed, ratings, snapshots, trust, history>>

\* duplicate proofs and AI-generated images: a flag of the user, once.
Reported(u, kind, t) ==
  /\ <<u, kind, t>> \notin flags
  /\ flags' = flags \cup {<<u, kind, t>>}
  /\ UNCHANGED <<announced, queued, completed, ratings, snapshots, trust, work, history>>

----------------------------------------------------------------------------
(* Ratings and scores.                                                     *)

RatedBy(t, u) == \E r \in ratings : r.trade = t /\ r.rater = u
RatingsOf(u) == {r \in ratings : r.rated = u}

\* submitRating: of a completed trade, by a party, once; who is rated is
\* taken from the request, and need not be the other party.
SubmitRating(h, t, u, v) ==
  /\ work[h] = NoWork
  /\ t \in completed
  /\ u # v
  /\ ~RatedBy(t, u)
  /\ work' = [work EXCEPT ![h] = [at |-> "rate", queue |-> "none", trade |-> t,
                                  by |-> u, rated |-> v]]
  /\ UNCHANGED <<announced, queued, reputationRows, trust, history>>

\* The unique pair of trade and rater refuses a second row.
InsertRating(h, high) ==
  LET j == work[h]
  IN /\ j.at = "rate"
     /\ IF RatedBy(j.trade, j.by)
        THEN FinishWork(h) /\ UNCHANGED ratings
        ELSE /\ ratings' = ratings \cup
                  {[trade |-> j.trade, rater |-> j.by, rated |-> j.rated,
                    high |-> high, recent |-> TRUE]}
             /\ MoveTo(h, "recalculate")
     /\ UNCHANGED <<announced, queued, completed, snapshots, flags, trust, history>>

Scoring(u) == {h \in Assessor : work[h].at \in {"snapshot", "publish"} /\ work[h].user = u}

Score(u, counts) ==
  [at |-> "snapshot", queue |-> "none", trade |-> "none", user |-> u, counts |-> counts]

\* Faulty variant, in no specification: leaves out the rating just given.
RecalculateBefore(h) ==
  LET u == work[h].rated
  IN /\ work[h].at = "recalculate"
     /\ work' = [work EXCEPT ![h] = Score(u,
          {<<r.trade, r.rater>> : r \in {q \in RatingsOf(u) : q.trade # work[h].trade}})]
     /\ mixed' = IF Scoring(u) = {} THEN mixed \ {u} ELSE mixed \cup {u}
     /\ UNCHANGED <<announced, queued, reputationRows, trust, early, untold, halved, crashes>>

\* recalculate: the ratings of the user as they are now ...
Recalculate(h) ==
  LET u == work[h].rated
  IN /\ work[h].at = "recalculate"
     /\ work' = [work EXCEPT ![h] = Score(u, {<<r.trade, r.rater>> : r \in RatingsOf(u)})]
     /\ mixed' = IF Scoring(u) = {} THEN mixed \ {u} ELSE mixed \cup {u}
     /\ UNCHANGED <<announced, queued, reputationRows, trust, early, untold, halved, crashes>>

\* ... the weight of each rater and the disputes, which other tables and
\* another service tell, and the snapshot ...
SaveSnapshot(h) ==
  /\ work[h].at = "snapshot"
  /\ snapshots' = [snapshots EXCEPT ![work[h].user] = work[h].counts]
  /\ MoveTo(h, "publish")
  /\ UNCHANGED <<announced, queued, completed, ratings, flags, trust, history>>

\* ... and the message for user-service,
PublishScore(h) ==
  /\ work[h].at = "publish"
  /\ trust' = [trust EXCEPT ![work[h].user] = work[h].counts]
  /\ untold' = untold \ {work[h].user}
  /\ FinishWork(h)
  /\ UNCHANGED <<announced, queued, reputationRows, early, mixed, halved, crashes>>

\* which is lost with the channel, or fails on a closed one: no outbox here.
LoseScore(h) ==
  /\ work[h].at = "publish"
  /\ untold' = untold \cup {work[h].user}
  /\ FinishWork(h)
  /\ UNCHANGED <<announced, queued, reputationRows, trust, early, mixed, halved, crashes>>

ADayLater ==
  /\ ratings' = {[r EXCEPT !.recent = FALSE] : r \in ratings}
  /\ ratings' # ratings
  /\ UNCHANGED <<announced, queued, completed, snapshots, flags, trust, work, history>>

----------------------------------------------------------------------------
\* user.deleted: the flags go; the ratings stay as they are, because the
\* UPDATE writes a text into a uuid column and its failure is swallowed.
DeletedUser(u) ==
  /\ \E f \in flags : f[1] = u
  /\ flags' = {f \in flags : f[1] # u}
  /\ halved' = TRUE
  /\ UNCHANGED <<announced, queued, completed, ratings, snapshots, trust, work,
                 early, mixed, untold, crashes>>

\* A message that was not acknowledged stays in its queue.
AssessorDies(h) ==
  /\ work[h] # NoWork
  /\ crashes < MaxCrashes
  /\ crashes' = crashes + 1
  /\ halved' = (halved \/ work[h].at = "flagB")
  /\ mixed' = CASE work[h].at = "recalculate" -> mixed \cup {work[h].rated}
                [] work[h].at = "snapshot" -> mixed \cup {work[h].user}
                [] OTHER -> mixed
  /\ untold' = IF work[h].at = "publish" THEN untold \cup {work[h].user} ELSE untold
  /\ FinishWork(h)
  /\ UNCHANGED <<announced, queued, reputationRows, trust, early>>

FraudNext ==
  \/ \E t \in PairTrade : TradeCompleted(t)
  \/ \E h \in Assessor :
       \/ \E t \in PairTrade, queue \in {"ratings", "fraud"} : Deliver(h, queue, t)
       \/ OpenRatings(h) \/ CountTrades(h) \/ FindFlag(h) \/ SaveFlag(h)
       \/ CheckRapidRatingExchange(h) \/ AssessorDies(h)
  \/ \E u \in User : DeletedUser(u)

RatingNext ==
  \/ \E h \in Assessor :
       \/ \E t \in PairTrade, u \in User, v \in Everyone : SubmitRating(h, t, u, v)
       \/ \E high \in BOOLEAN : InsertRating(h, high)
       \/ Recalculate(h) \/ SaveSnapshot(h) \/ PublishScore(h) \/ LoseScore(h)
       \/ AssessorDies(h)
  \/ ADayLater
  \/ \E u \in User, t \in PairTrade, kind \in {"duplicate_proof", "ai_generated_image"} :
       Reported(u, kind, t)

ReputationNext == FraudNext \/ RatingNext

ReputationSpec == ReputationInit /\ [][ReputationNext]_reputationVars

----------------------------------------------------------------------------
Quiet == queued = {} /\ \A h \in Assessor : work[h] = NoWork

\* "Flag both users" (fraud-detection.service.ts 110-146): two users with
\* three completed trades end up with a circular_trading flag each, whichever
\* of the two queues is faster, whoever is the first party, and when messages
\* come again after a crash.  Two ways lead past it: a fraud check that
\* counts before the other queue has stored the trade, and a crash between the
\* two flags, after which the first flag stops every later check.
CircularIsFlagged ==
  Quiet /\ Cardinality(completed) >= 3 /\ early = {} /\ ~halved =>
    \A u \in User : Circular(u) \in flags

\* The last snapshot of a user counts every rating the user has received,
\* whoever gave it and however the executions die (submitRating,
\* recalculate), unless the last scores of that user were computed at once
\* or not finished; and the score user-service was told is that one, unless
\* the message was lost.  The next score makes up for all of these.
ScoreCountsRatings ==
  Quiet => \A u \in Everyone \ mixed :
    /\ snapshots[u] = {<<r.trade, r.rater>> : r \in RatingsOf(u)}
    /\ u \notin untold => trust[u] = snapshots[u]

\* What reputation-service says of the users follows from their trades and
\* ratings (onModuleInit, submitRating): both of the above.
ReputationFollows == CircularIsFlagged /\ ScoreCountsRatings
=============================================================================
