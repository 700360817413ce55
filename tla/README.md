# Verification of the exchange platform

TLA+ models, TLC runs and TLAPS proofs for the microservices under `src/services`
and `src/packages` and for the pages of the two clients that follow their state:
users swap two items, the platform vets the swap, takes shipping fees and
insurance into escrow, routes the parcels (for risky trades through verification
centers), settles the outcome, and keeps offers, listings, disputes, certificates,
ratings, conversations and accounts around it.

Sections: [The system](#the-system) · [Modules](#modules) ·
[trade-service](#trade-service) · [The outbox](#the-outbox) ·
[Payments](#payments) · [Shipping and the centers](#shipping-and-the-centers) ·
[Offers and locks](#offers-and-locks) · [The other services](#the-other-services) ·
[The pages](#the-pages) · [Runs and bounds](#runs-and-bounds) · [Proofs](#proofs) ·
[Disagreements found](#disagreements-found) · [Plan](#plan) ·
[Not modelled](#not-modelled)

## The system

Twelve NestJS services, one PostgreSQL database each, joined by one RabbitMQ
topic exchange; Redis for locks and idempotency keys; two Next.js frontends
behind an API gateway.

| Component | State it keeps | Operations | What makes it correct |
|---|---|---|---|
| trade-service, state machine | the 39 transitions of a trade and their guards | `transition(trade, event)` | which route a trade may take |
| trade-service, trades | `trades` (one wide row per trade), `proof_packages`, `trade_events`, `outbox`, `center_verifications` | about 30 HTTP and message handlers, two cron jobs | proofs, payments and inspections come before what depends on them; one outcome; it is announced; a delivered trade is settled |
| trade-service, locks | Redis keys with expiry | `acquireLock` and `releaseLock`, called by `lockItems` and, the latter, by `cancelTrade`; `completeTrade` leaves the keys to their expiry | an item is in one locked trade |
| trade-service, centers | `center_verifications` | receive, approve, reject | an item leaves a center after two approvals |
| trade-service, saga | `sagas` rows | `executeSaga`, `compensate` | a failed saga leaves no step uncompensated (nothing in `src` calls it) |
| packages/common, outbox | `outbox` rows, the AMQP channel | `addToOutbox`, `publishPending` every 2 s | committed events are published, causes before effects |
| packages/common, others | Redis idempotency keys | `IdempotencyGuard` | a request is processed once |
| payment-service | `payments` (status, escrow status, token), `refunds` | checkout, provider callback, release, refund, partial refund | money is released or refunded, never both, never twice |
| shipping-service | `shipments` in two legs | labels, webhooks, status updates, center checks | a parcel's history goes forward; the second leg follows both inspections |
| offer-service | `offers` | create, accept, reject, cancel, counter | a trade comes of an offer that says it was accepted |
| listing-service | `listings` (active, locked, traded, archived), boosts, images, questions, favourites, reports | CRUD, lock/unlock/traded by messages | a listing says what its last trade announced |
| dispute-service | `disputes`, moderator actions, SLA deadlines | open, evidence, resolve, inspect, appeal | an announced decision stands until a person changes it; an appeal is heard |
| certificate-service | `certificates`, Merkle trees, anchors | issue, transfer, revoke, anchor | the path of a certificate leads to its root; an anchored root is on the chain; certificates come in pairs |
| reputation-service, user-service | ratings, snapshots, fraud flags, trust scores | rate, recalculate, flag | scores count all ratings; circular trades are flagged; one default address |
| auth-service | users, refresh and verification tokens | register, login, refresh, logout, delete, ban | an account announced as deleted is gone; who signed in stays signed in |
| messaging-service | conversations with counters, messages | send, read | the counter is what is unread |
| frontend, admin-frontend | tokens in the storage, forms, the page shown | the buttons of each page | a button works; there is one as long as the trade is not over; forms send what they show |
| api-gateway | none | proxy, rate limits | |

How they interact: trade-service publishes `trade.*` through its outbox;
listing-service locks and unlocks on them, payment-service releases on
`trade.completed` and refunds on `trade.cancelled`, dispute-, certificate- and
reputation-service open, issue and rate. offer-service starts a trade with
`offer.accepted`. payment-service answers with `payment.succeeded`,
shipping-service with `shipping.*`, the verification centers (a part of
trade-service that is operated by hand) with `center.*`. Messages are delivered
at least once, handlers run concurrently, and nothing orders messages of
different services.

What is hard: every handler reads its row, decides, and writes the row back
later; `manager.save()` writes the columns in which its copy differs from the
row of that moment and never compares the version. So two handlers of one
trade interleave at the grain of SELECT and UPDATE. Outcomes travel through the
outbox. Two schedulers race the parties. `PROJECT.json` lists every such hazard
with its line.

## Modules

| Module | Models |
|---|---|
| `TradeStateMachine` | `state-machine/transitions.ts`, `trade-state-machine.ts`: the table and its guards |
| `TradeService` | `trades.service.ts`, its entities and its two schedulers; properties |
| `MCTradeService`, `MCTradeOverlap` | instances of `TradeService` for TLC: one handler, or two at a time |
| `MCTradeDelivery` | `TradeService` and `TradePage` with fair schedulers, and `CenterFlow` with its cron job, for TLC |
| `TradeLifecycle` | abstract: what the service promises of a trade, one indivisible step per move |
| `TradeServiceProofs` | theorems about `TradeService` and `TradePage` for all constants, and that `TradeService` implements `TradeLifecycle` |
| `EventRelay` | abstract: what the outbox promises its users |
| `Outbox` | `outbox.service.ts`, `outbox.entity.ts`, the publishing side of `rabbitmq.service.ts`; properties |
| `MCOutbox`, `OutboxProofs` | instances for TLC; theorems about `Outbox`, and that it implements `EventRelay` |
| `Payments` | `payments.service.ts`, `payment.entity.ts` and the provider behind `iyzico.service.ts`; properties |
| `MCPayments`, `PaymentsProofs` | instances for TLC; theorems about `Payments` |
| `Shipping` | `shipments.service.ts`, `shipment-simulation.scheduler.ts`, `geliver.provider.ts` |
| `Centers` | `centers.service.ts`: the inspections of a trade's items |
| `CenterFlow` | the two composed, with the handlers of trade-service between them; properties |
| `MCShipping`, `CenterFlowProofs` | instances of `CenterFlow` for TLC; theorem about it |
| `Market` | `offers.service.ts`, the creation of trades, `lock.service.ts` and who calls it; properties |
| `MarketProofs` | theorems about `Market`, `Listings`, `ListingForm` and `Moderation` for all constants |
| `Listings`, `Disputes`, `Accounts`, `Conversations`, `Reputation`, `Profiles` | listing-, dispute-, auth-, messaging-, reputation- and user-service |
| `Certificates`, `Merkle` | certificate-service with `MerkleAnchor.sol`; its tree and path algorithms |
| `DisputesProofs`, `CertificatesProofs` | theorems about `Disputes` and `Certificates` for all constants |
| `UserProofs` | theorems about `Conversations`, `Reputation`, `Profiles` and `Session` for all constants |
| `TradePage`, `CenterPage`, `OfferPage`, `ListingPage`, `DisputePage` | pages of the clients, each on top of the service it shows |
| `ListingForm`, `Moderation`, `Session` | the forms of a listing, the reports' page, the tokens of a browser |
| `MCServices` | all modules from `Market` on but `Accounts`, extended or as instances, for TLC |

Some definitions stand in front of one that they imitate and are marked "Faulty
variant" (`AnyProof`, `CancelSilently`, `FeeCardOnce`, `CallbackBelieved`, ...). No
specification uses them: they are what a plausible bug there would look like, and
`PROJECT.json` ("mutants") says which property notices which.

## trade-service

One trade, its row and the rows that hang off it. A row is a record; the columns
that come in pairs, one per party (`proofASubmitted`/`proofBSubmitted`,
`partyAPaid`/`partyBPaid`, addresses, centers, ...) are the set of the parties
whose column is set. `timeoutAt` and `disputeWindowEnd` are abstracted to
which deadline they are and whether it has passed. MEDIUM risk, which differs from
LOW only in hours, is left out.

| Model | Code |
|---|---|
| `trade` | the row in `trades` |
| `jobs[h]` | one execution of a handler: where it is, the copy it holds (`ent`), the row its `save()` selected (`base`) |
| `proofPkgs`, `audit`, `outbox` | `proof_packages`, `trade_events`, and the routing keys of the trade in `outbox` |
| `bus` | messages published without the outbox, and messages consumed |
| `LockItems`, `SubmitProof`, ... | the handler up to its first `save()`: read, guard, change the copy |
| `Load`, `Update` | the two statements of `manager.save()`; `Update` also commits the other inserts of the transaction |
| `NextTransaction`, `CompleteLocalPickup`, `Advance`, `Publish` | what a handler does after its first commit |
| `PaymentSucceeded` | the one handler that writes with a column UPDATE of its own |
| `TimeoutScan`, `DeliveryScan` | one trade of a scan of each cron job |
| `Fault` | the process dies between two statements: the transaction rolls back, nothing follows |
| `Elapse` | a deadline passes |

`Merge` is TypeORM's `save()`: the columns in which the copy differs from the
selected row overwrite the current row. It is external code, modelled from its
effect on the rows; it is what makes lost updates, and the properties that hold in
spite of them, visible.

A message from another service can be handled whenever this service has published
what makes it possible (shipments exist after `shipping.addresses_ready`, the
second leg after `center.both_verified`, payments after `trade.verified`), as often
and as late as it likes.

### Properties

* `AntiScamGate`: a trade that is verified or beyond has a moderator's verdict
  and a stored proof package of each party, whatever stale copies were written.
* `PaymentGate`: nothing is handed to a carrier before each party's payment was
  consumed.
* `CenterGate`: HIGH risk trades travel through the centers and leave them only
  after both items were approved (or both parties met in person).
* `OutcomeAnnounced`: the outcome and its event are committed together.
* `EverythingBacked`: the strengthening of the four, a theorem and not part of a run; see [Proofs](#proofs).
* `LifecycleKept`: the service implements `TradeLifecycle`, with handlers one at a
  time. `LifeOf` maps the row and the outbox to a life of nine stages, the facts the
  moves rest on (proofs, payments, method, pickups, approvals) and what was announced.
  There is no copy, transaction or fault there, so a step whose guard held only when
  the row was read, or an outcome committed apart from its event, is no step of it. With
  two handlers it fails.
* `OneOutcome`: a settled trade has announced one outcome, with handlers one at a time;
  so does `TerminalIsFinal` hold, a theorem and not part of a run. With two at once
  `OneOutcome` fails: `completeTrade` and `cancelTrade` that read the same state both
  commit, and both `trade.completed` and `trade.cancelled` are published.
* `DeliveredIsSettled`, `TransitEnds`: the schedulers end what nobody else ends.

No property says that an update is never lost, or that a trade is not cancelled once both
parties paid: with a copy read before and saved after another handler's commit both happen,
and with handlers one at a time both say no more than `LifecycleKept`
(see [Disagreements found](#disagreements-found)).

## The outbox

`addToOutbox()` inserts an entry in its caller's transaction; a timer publishes
the 100 oldest unpublished entries, each followed by a save of its mark, and
stops at the first error. Overlapping executions are possible (the timer does not wait),
and `created_at` is the time the transaction *began*, so entries may become visible
behind younger ones that are already published.

| Model | Code |
|---|---|
| `begun`, `committed`, `marked` | rows inserted by open or committed transactions; `published = true` |
| `older[e]` | the order of `created_at`, as the set of entries begun before `e` |
| `cause[e]` | the entries that were committed when `e`'s transaction began: all that its handler may have acted on (the handlers read their row before they open the transaction) |
| `polls[p]` | one execution of `publishPending`, with the entries it read |
| `buffer`, `broker` | the socket of the channel; what RabbitMQ has |
| `mode` | "unplugged" is a process whose channel the broker closed: `ensureConnected()` never connects again |

`CausalOrder` says that an event is given to the channel after every event it
may follow from. It needs the batch to be the oldest entries, the loop to go from old
to new, and marks to be set after publishing; `EventRelay` is the same promise
without a table, polls or faults, and `RelaySafety` says that the outbox
implements it. `CommittedIsPublished` is its liveness; it fails when the broker closes the
connection, and `PublishedWhileConnected` is what is left of it: it holds in every
behaviour in which the connection stays, through crashes and failed marks.

## Payments

The rows of one trade (a fee for each party, insurances) and the boosts its parties buy.
An execution is modelled at the grain of `TradeService`, one step finer where it
matters: the UPDATE of a payment's transaction locks the row, and its query for the
user's other payments lies between it and the COMMIT.

| Model | Code |
|---|---|
| `rows` | the table `payments`; an id is unused, in use or deleted |
| `jobs[h]` | one execution: a check before an insert or a removal, a `save()` under way with its copy and selected row, a loop with the copies it reads once, or a refund's transaction with its locks |
| `events` | the rows the service adds to its outbox; `all` is `allUserPaymentsComplete` |
| `forms`, `charged`, `confirmed`, `refunds` | the provider's side: forms whose URL the user got, forms paid, forms whose lookup it answered with success, refunds made |
| `overlapped` | history: an execution once began before another had ended |
| `CreateTradePayments`/`InsertFees`, `CreateInsurance`/`InsertInsurance`, `CancelInsurance`/`Remove` | check, then insert or remove |
| `Checkout`, `Callback`, `Simulate` | the handlers up to `save()` |
| `ReleaseEscrow`/`ReleaseOne`, `PartialRefund`/`RefundPart` | a loop over rows read once, with a transaction for each |
| `Refund`, `RefundOne`, `CommitRefund` | `refundTradePayments`: one transaction that holds the locks |
| `Load`, `Check`, `Update` | SELECT, UPDATE with the query after it, COMMIT |
| `Fault` | the process dies; for a partial refund also: the transaction fails and the loop goes on |

The provider is external. It may refuse a refund. `retrieveCheckoutResult` passes on the status of
the lookup and not `paymentStatus`, so `Callback` records a payment after any successful lookup,
whether or not the form was paid; of an unpaid form there is no item transaction, and the
row gets an empty `providerPaymentId` (`ref` is FALSE), which both refunds skip. The answer is
taken with the read that precedes it, which loses no behaviour because the provider may give either
answer at any time. `SELECT ... FOR UPDATE` takes its locks at once.
Amounts are abstracted: a partial refund ends as `refunded` or as `partial_refund`.

### Properties

* `MoneyIsConfirmed`: whatever stale copies are saved over whatever rows, nothing is
  held, released, refunded or announced for a payment unless the provider answered the lookup of
  one of its own forms with success, and nothing is paid back unless one of them was paid.
  That a payment recorded was paid cannot be said of this code. `EverythingBacked`
  is the strengthening: a settled copy belongs to a confirmed payment, one that names a
  transaction to a charged payment, and a token in a row is of a form of that row.
* `CopiesExist`: a refund finds the rows it is about to settle (the locks keep them from
  being removed); like `EverythingBacked` a theorem.
* `RefundsCovered`: no more refunds than charges of a payment (see
  [Disagreements found](#disagreements-found)).
* `OneOfEachTypeInTurn`, `PaidUntilRefundedInTurn`, `LastPaymentSaysSoInTurn`: one row
  of each type for a user, a success that only a refund takes back, and an event that says the
  truth about the user's other payments, as long as executions have not overlapped.
  Overlapping, all three fail: the insert after the check, `createCheckoutSession` saving
  over a callback's success, and two callbacks that do not see each other's update.

## Shipping and the centers

The parcels of one trade, on up to three legs: directly to the other party, or to the
centers and, after the inspections, to the recipients; or back.

| Model | Code |
|---|---|
| `ship` | `shipments` rows: status and kind of label, by leg, item and copy (a leg can be created twice) |
| `jobs[w]` | one execution: the list of steps it still has, each with the copy it read |
| `queue` | messages in the two queues; the second is consumed by two handlers, whichever RabbitMQ gives it to |
| `events`, `landed` | what the service has announced; history: parcels that were DELIVERED once |
| `CreateShipment`, `BuyLabel`, `Webhook`, `PollTrade`, `PollOne`, `SimulateProgress`, `CronDelivers` | the handlers, requests and the cron job of the simulation |
| `inspection`, `desk`, `said` (`Centers`) | rows of `center_verifications`, requests between read and save, messages |
| `stage`, `arrived`, `passed` (`CenterFlow`) | the trade's state and its two pairs of columns; handlers are one step here, `TradeService` looks inside |

A parcel's status may go anywhere with any report; the carrier is external.

* `ReleaseNeedsApprovals`: nothing is on its way from a center to a recipient unless both
  items were approved and trade-service noted both; redeliveries, two moderators
  at one row, late approvals and the shared queue included.
* `DeliveredTradeArrived`: a trade counts as delivered only when both items have reached a
  party and not just a center; one may be missing only if the other was sent twice
  (see [Disagreements found](#disagreements-found)).
* `SimulatedArrives`: parcels with made-up numbers arrive and are announced, though polls
  set a status back; under fairness of the cron job and of executions that have started.
* `ReturnsFollowRejection` fails; see [Disagreements found](#disagreements-found).

## Offers and locks

`Market` has every offer, the trades that come of it (more than one when
`offer.accepted` is redelivered) and the key `listing:lock:<id>` of every listing.

| Model | Code |
|---|---|
| `offers`, `replies`, `accepted` | rows of `offers`; accept, reject, cancel and counter between read and save; messages |
| `trades`, `redis`, `jobs` | the state of each trade; the holder of each key; `lockItems`, `cancelTrade`, `completeTrade` under way |
| `LockItems`, `SetKey`, `SaveTrade` | read; SET NX for one listing after the other; save |
| `GetKey`, `DelKey` | `releaseLock`: GET and DEL are two commands |
| `Expire`, `ReplyDies`, `RequestDies` | a key's hour is over; the process dies |
| `stale`, `lost` | history: what was saved from an outdated copy, how a key was lost |

* `TradeMatchesOffer`: a trade exists only for an offer that says it was accepted,
  unless two answers were given from one pending copy.
* `LocksExclude`: no listing is locked for two trades, except after one of four events the
  model records: a key expired, a trade was saved from an outdated copy, `releaseLock`
  deleted a key that had changed hands since its GET, or `cancelTrade` died with the keys
  gone and its row rolled back. Each of the four can happen, and each then breaks the
  exclusion README.md:79 claims.

## The other services

All share a form: one execution per request or message, a step for
each statement between two awaits, `Die`/`HandlerDies`/`Fault`/`Mishap` for a process that stops in
between, and history variables that record when copies overlapped. A property names
the overlaps under which the code gives its promise up; everything else it has
to survive.

| Property | Module | Says |
|---|---|---|
| `ListingFollowsTrades` | `Listings` | when all messages are dealt with, a listing has the status its last trade announced, or is archived |
| `ReplyCountRight` | `Listings` | `replyCount` is the number of replies, also after two at once |
| `MessageOpensOne` | `Disputes` | `trade.dispute_opened` opens one dispute, however often it is delivered |
| `AnnouncedStands` | `Disputes` | the outcome announced last is that of the row, and the dispute is over, until a person appeals, orders an inspection or decides anew; no timer and no center turns it round |
| `AppealIsHeard` | `Disputes` | an appeal taken in time is decided before the dispute is closed |
| `ProofsVerify` | `Certificates`, `Merkle` | the path `computeProofPath` gives leads from every indexed certificate to the root of its tree |
| `AnchorsAreReal` | `Certificates` | the root of an anchored tree and of a confirmed row is on the chain; an anchored tree has a confirmed row, unless its event could not be published |
| `IssuedInPairs` | `Certificates` | both parties of a trade get a certificate or neither, whatever numbers collide |
| `DeletedIsGone` | `Accounts` | an account whose deletion was announced is gone when the request ends; fails, see [Disagreements found](#disagreements-found) |
| `UnreadCountRight` | `Conversations` | the counter is what is unread, and repairs itself when the conversation is read |
| `ReputationFollows` | `Reputation` | three trades between two users are flagged for both; the last score counts every rating of a user, be he a party or not, and is what user-service was told, unless that message was lost |
| `UserDataRight` | `Profiles` | never two default addresses, and one once nothing is under way unless it was given up; the counters of a profile are off by the messages that were handled twice or swallowed, and by nothing else |

Hashes are symbolic and have no collisions. `save()` of TypeORM is modelled by what it
does: it inserts a row that is gone, and writes the columns in which the copy
differs from the row it finds.

The messages that `Profiles` consumes come from outboxes and are acknowledged after the writes:
a process that dies in between, or a mark the outbox could not save, gives the message
again (`WorkerDies`, `PublishAgain`), and `incrementTrades` counts again. A failed write is
swallowed and the message acknowledged (`Swallow`). `twice` and `swallowed` record both, so that
`TradesCounted` says exactly what the counters are worth. `update` saves the row with the counters it
read (`UpdateProfile`, `SaveEdit`); beside a message it may take a count back, which `unsettled` records.

`Reputation` lets a party rate anybody (`Outsider`), because `submitRating` does not ask who is rated,
and a score message be lost (`LoseScore`), because it is published without an outbox.

`Disputes` has both outcomes of a decision. `resolve` tests no status, so a moderator may decide
again, to the opposite, and both decisions are announced; `standing` is "none" from that save on until the
new decision is published.

## The pages

A page module EXTENDS the service it shows and defines which buttons each viewer sees
for the rows as they are, and which action of the service a button starts. The conditions
are written twice in the code, in TypeScript of the page and in that of the service.

* `ButtonsWork`: no button of the pages of a trade, an offer, a listing, a dispute or an
  inspection leads to a request the service refuses, if nothing else is in flight.
* `WayForward`: a trade that is not over always has a button for somebody, unless it waits
  for a carrier, a center, a moderator or a scan. `TradePage` runs `TradeService`
  with the requests its buttons make and nothing else.
* `PicturesAsShown`, `PlaceAsChosen` (`ListingForm`): the forms send the pictures and the place they show.
* `ModerationRight` (`Moderation`): decisions of up to three requests take effect on the
  report, listing and seller they were made for, with two moderators and requests that fail.
* `SessionKept` (`Session`): who signed in stays signed in and who signed out stays out,
  over refreshes in several tabs.

## Runs and bounds

All modules declare their bounds as constants: `MaxFaults`, `MaxDeaths`, `MaxMishaps`,
`MaxFailures`, `MaxErrors` executions that die or requests that fail, `MaxHitches` deaths, failed writes and
repeated messages together, `MaxDbFaults`,
`MaxCrashes` and `MaxDisconnects` for the outbox, `MaxCopies` rows or trades that come of one
redelivered message, and `Max...` numbers of tokens, messages, replies, pictures, trees
and anchors.

| Run | Instance | Shows |
|---|---|---|
| `sequential` | whole trade-service, 2 parties, 1 handler, 1 death between two transactions of a handler | `LifecycleKept`, `OneOutcome` hold when handlers do not overlap; every action fires |
| `overlap` | 2 handlers, from an accepted offer to the verdict, or a verified LOW risk trade, or a HIGH risk trade with one item at its center | `AntiScamGate`, `PaymentGate`, `CenterGate`, `OutcomeAnnounced` |
| `delivery` | trade in transit with all handlers, or from the accepted offer with the buttons of the page, 1 at a time, 1 fault, fair schedulers; or the parcels' way out and home, 1 execution and the cron job, fair | `DeliveredIsSettled`, `TransitEnds`, `WayForward`, `SimulatedArrives` |
| `early_completion` | whole trade-service | violation, see below |
| `outbox` | 2 polls, batch 2, 3 entries without faults or 2 with each fault once | `CausalOrder`, `RelaySafety`, `PublishedWhileConnected` |
| `outbox_disconnected` | 2 entries, 1 poll | violation, see below |
| `payments` | 1 execution over 3 rows and 2 forms or 4 rows, or 2 executions and 1 fault over 2 rows and 1 form | `OneOfEachTypeInTurn`, `PaidUntilRefundedInTurn`, `LastPaymentSaysSoInTurn`, `MoneyIsConfirmed` |
| `payments_compensation` | fees paid or not, a full and a partial refund at once | violation, see below |
| `shipping_overlap` | out to the centers or parties, the inspections, home: 2 executions, the cron job, 2 moderators, 1 fault, each leg twice; and the direct leg with a process that dies twice | `ReleaseNeedsApprovals`, `DeliveredTradeArrived` |
| `shipping_returns` | the inspections, 1 execution | violation, see below |
| `accounts_ban` | two accounts, two requests at once | violation, see below |
| `services` | one component per behaviour, see below | the other 18 properties of the last three sections |

In `sequential` an execution dies only after a commit with work left to do: a death before
the first commit, or with nothing left, leaves the tables as a refused request does. An item
that a center has before its checks exist (`EarlyArrival`) and a death are each checked
there, but not both in one behaviour.

Two parties are all a trade has. Two executions are enough for a stale write
to meet every other execution's commit; the theorems cover any number. The whole
of trade-service with two handlers is beyond TLC, so `overlap` has three
stretches of a trade's life: each starts in states the service reaches with no handler in
flight and allows the handlers of that stretch (without the center's rejection, which
would double the states); its steps are steps of `Next`. The shipping runs and `services`
are cut the same way: `CheckInit`, `HomeInit`, `LocksInit`, `HaveIssued(m)`, `Done1` and the
other initial states are reachable at rest, and each step is a step of the component's
own next-state relation.

Deadlock is not checked where ids, tokens, rounds or the work of a stretch run out
(all runs of `Outbox`, `Payments`, `CenterFlow` and `MCServices`, and `overlap`), nor in `delivery`, where
a page has no button for a cancelled trade; it is checked in `sequential` and `early_completion`.

With three outbox entries and a batch of two, a batch can leave an entry
behind, and an entry can appear behind two younger ones. Four payment rows are two fees
and two insurances, or fees twice over; a second form
is a second checkout of one payment. With two executions at once no lookup of a paid form fails, and
of two rows no unpaid form is confirmed: with one row both answers are there. `MaxRefunds` bounds what the provider does, 2 where a double refund is
the question. `payments_compensation` starts with forms given and fees paid or not, which a
sequence of checkouts and callbacks reaches.

The stretches of `services` (`MCServices` extends the modules of offers, listings, disputes, certificates,
conversations, reputation, profiles, moderation, the forms and sessions; the pages of a trade and of an
inspection are instances whose variables are `c1` ... `c7`):

| Stretch | Component and bounds |
|---|---|
| offers, locks | two offers that swap the same two listings in opposite order, two executions, two trades |
| words, status | a listing's question with two replies, or its status under one trade with an owner who edits; one process dies |
| opened, decided | two disputes opened by messages and requests, or one decided either way, again and again, to the end of its appeal; one failure |
| issue, anchors, trees | three trades issued with one fault; two certificates transferred while two trees are built and anchored; trees of one to seven leaves |
| page, inspection | the buttons of a trade, one at a time; two moderators at an item, an upload limit of one photo (10 in the code) |
| talk | two messages between two users |
| fraud, rating | three trades of two users with fraud checks; two with ratings, of each other or of an outsider, and scores; one death |
| addresses, messages | three addresses; two trades with their messages, edits and the deletion; one death, failed write or repeated message |
| pictures, place | three pictures, one without a thumbnail; two countries; one edit |
| one page, one report | one moderator with two reports, or two with the same; one request fails |
| two tabs, two browsers | seven tokens, of which the five newest count |

`decided`, `locks`, `messages`, `two tabs` and `two browsers` stop once an overlap has happened
after which nothing is promised.

Fairness. `delivery` assumes that the process keeps running its handlers
(`WF(Proceed)`), that the two cron jobs find a free execution again and again
(`SF` of each scan: they fire every few minutes for ever, but with one
execution they may find it busy), and that a dispute window ends. It assumes
nothing of parties, moderators or other services, and not that a step deadline
passes, because `submitProof` renews it in every state. The outbox runs assume
that the timer fires and the database answers (`WF(Step(p))`), that the socket
transmits and that Docker restarts the container (`restart: unless-stopped`).
For `SimulatedArrives`, `delivery` assumes that an execution that has begun goes on and that the cron job
of the simulation, which runs every few minutes for ever, finds its parcels; nothing
of users or carriers.

## Proofs

`TradeServiceProofs`, for any set of parties and handler executions and any bound on
faults:

| Theorem | Statement |
|---|---|
| `RowsAreBacked` | `Spec => []EverythingBacked` |
| `TypeCorrect` | `Spec => []TypeOK` |
| `AntiScam`, `PaidBeforeShipped`, `CheckedByCenters`, `OutcomesAnnounced` | `Spec => []` of `AntiScamGate`, `PaymentGate`, `CenterGate`, `OutcomeAnnounced` |
| `CopiesFollowRow` | `Spec => []InTurn`, if there is one execution |
| `OneOutcomeInTurn`, `TerminalInTurn` | `Spec => []OneOutcome`, `Spec => TerminalIsFinal`, likewise |
| `LifecycleInTurn` | `Spec => LifecycleKept`, likewise |
| `LifecycleSettlesOnce` | `LifecycleKept => []` of `Lifecycle!PaidBeforeMoving`, `Lifecycle!OneEnding` |
| `PageHasWayForward` | `PageSpec => []WayForward`, likewise, if there is a party |

None of the gates is inductive: the state column may be written by an execution
that read the row long ago, and whole or half of that copy lands on a row that
others have changed. The inductive invariant is `TypeOK /\ EverythingBacked`. It
does not relate columns with each other, which lost updates could break, but each
column, of the row and of every copy in memory, with history that is never taken
back: packages, trade events, outbox keys and consumed messages. `Backed(t, ...)` is
preserved when the history grows (`BackedGrows`), by any mixture of two backed records
(`MergeIsBacked`, which is all `save()` can produce), and by any transition of
the table whose guard holds (`EdgeIsBacked`). One lemma per action shows what it
is about to write is backed by the tables as its own transaction will leave
them. Assumed: `"system"` is not a party, the bound on faults is a number.

All from `CopiesFollowRow` on but `LifecycleSettlesOnce` hold only while handlers do not
overlap, so they assume `OneAtATime` (`Handler` has one element): one request after the other, with processes that die. Their
invariant is `IInv /\ InTurn`: the copy an execution is about to save follows from the row
as it is now (`Follows`: it takes back no payment, address or pickup, leaves what is over,
cancels nothing paid and announces what it decides), the row its `save()` selected is the
row, and an outcome in the outbox is the state of the trade. `InTurn` fails with two
executions at the first stale copy. A handler either decides (`DecidesInTurn`), loads,
commits or leaves; the lemmas of the four kinds serve all actions.

For the refinement `InTurn` is not enough: it bounds what a copy may change and does not
say that the change is a move. `LegalInv` adds that (`LegalJob`): a handler that
is about to save has decided on a life that is the next one of the life now, by a move
whose guard holds now (`Lifecycle!Step`, which is a relation of two lives for this
purpose), or changes nothing of it. It also says that both proofs are there until the
moderator sends the parties back (`ProofsIn`), which the edge of `verify` does not ask
again, and that a center has something to approve only after the handover.
`Load` and whatever follows a commit change no life, `Update` commits the planned one. `LifecycleSettlesOnce` is about the abstract trade alone: its own inductive
invariant ties stages to payments and announcements.

`PageHasWayForward` takes the buttons of `TradePage` as steps of the service and needs
`PageInv`. The cards of a verified trade depend on columns that several
handlers write, so it says which combinations occur: a method is chosen once both
have paid, the columns of the way not chosen are empty, and a copy that completes a
party's part is of an execution that will go on by itself, which a dead process would not. The
hypothesis that there is a party is justified by the code, where there are always two.

`OutboxProofs`, for any finite set of entries, any executions, any batch size and
any bounds:

| Theorem | Statement |
|---|---|
| `TypeCorrect` | `Spec => []TypeOK` |
| `PublishedInOrder` | `Spec => []CausalOrder` |
| `OutboxImplementsRelay` | `Spec => RelaySafety` (`EventRelay!SafeSpec` with `relayed <- sent`) |

The inductive invariant is `TypeOK /\ InOrder`: `created_at` is a total order that
puts causes first (`Created`); whatever an execution has left to publish contains
every cause of it that has not been sent (`ReadInOrder`). That holds when it reads,
because a batch is closed under "older" (`BatchIsClosed`) and what is marked was
sent; and the entry it takes next, the oldest left, therefore lacks no cause.

`PaymentsProofs`, for any users, ids, forms and executions, configured or not, and any
bounds:

| Theorem | Statement |
|---|---|
| `TypeCorrect` | `Spec => []TypeOK` |
| `CopiesAreThere` | `Spec => []CopiesExist` |
| `PaymentsAreBacked` | `Spec => []EverythingBacked` |
| `MoneyWasConfirmed` | `Spec => []MoneyIsConfirmed` |
| `OneOfEachInTurn` | `Spec => []OneOfEachTypeInTurn` |
| `SuccessIsKept`, `EventsSayTheTruth` | `Spec => PaidUntilRefundedInTurn`, `Spec => LastPaymentSaysSoInTurn` |

The inductive invariant is `TypeOK /\ CopiesExist /\ EverythingBacked`. A row is a
mixture of columns of several executions, so it says of each column of each copy
on its own that it goes back to a confirmed lookup, a charge or a form. All three only grow
(`BackedGrows`); a merge of two backed records is backed (`WrittenIsBacked`); and
what a step leaves alone stays sound (`StepKeeps`). `CopiesExist` is needed because a
loop settles rows it read once: they existed then.

The last three need `InTurn`: until executions overlap, what an execution has read is
still so when it acts on it (`JobCurrent`): there are no fees when it inserts them, the row it
removes is still pending, the copies a loop has left and the one a `save()` holds differ from
their rows in nothing but what the execution itself set. `overlapped` is
set by the step that lets a second execution begin, so the theorems cover every behaviour up
to its first overlap, with any number of executions.

`MarketProofs`, for any listings, offers and executions:

| Theorem | Statement |
|---|---|
| `TypeCorrect` | `Spec => []TypeOK` |
| `OfferWasAccepted` | `Spec => []TradeMatchesOffer` |
| `ListingsAreExclusive` | `Spec => []LocksExclude` |

For the first two a message, or a reply about to be published, must itself be of an offer that
was accepted (`OffersSound`). Exclusion needs `KeysHeld`: a locked trade has
both its keys and no request of `lockItems` under way that relies on one; an accepted trade has at most
one such request, and that has the keys it says it won. Two requests for one trade
cannot both win, though a key may hold the id of the very trade, because SET NX
refuses it too. `KeysHeld` speaks of trades only while nothing was lost; the step that
loses a key records it (`UnspoiledBefore`), so it need not be repaired.

The other services, for any executions, rows and faults:

| Module | Theorem | Statement |
|---|---|---|
| `CenterFlowProofs` | `ReleaseIsApproved`, `DeliveredHasArrived` | `Spec => []` of `ReleaseNeedsApprovals`, `DeliveredTradeArrived` |
| `DisputesProofs` | `OneDisputePerMessage`, `DecisionsStand`, `AppealsAreHeard` | `DisputesSpec => []` of `MessageOpensOne`, `AnnouncedStands`, `AppealIsHeard` |
| `CertificatesProofs` | `AnchorsHold`, `PairsAreIssued`, `ProofsLeadToRoots` | `CertificatesSpec => []` of `AnchorsAreReal`, `IssuedInPairs`, `ProofsVerify` |
| `UserProofs` | `UnreadIsCounted` | `ConversationsSpec => []UnreadCountRight` |
| `UserProofs` | `SignedInStays` | `SessionSpec => []SessionKept` |
| `UserProofs` | `ReputationIsEarned` | `ReputationSpec => []ReputationFollows` |
| `UserProofs` | `UserDataIsRight` | `ProfilesSpec => []UserDataRight` |
| `MarketProofs` | `PicturesAreStored`, `PlacesAreOne` | `FormSpec => []` of `PicturesAsShown`, `PlaceAsChosen` |
| `MarketProofs` | `DecisionsAreKept` | `ModerationSpec => []ModerationRight` |
| `MarketProofs` | `ListingsFollow`, `RepliesAreCounted` | `ListingsSpec => []` of `ListingFollowsTrades`, `ReplyCountRight` |

`ReleaseNeedsApprovals` follows, messages being repeated and given to either consumer,
from where a leg can come from: rows, executions and messages touch only the legs out and
back (`Contained(OutOrBack)`) until both approvals were noted, and what was noted was said by a
moderator (`NotedWasSaid`). For `DeliveredTradeArrived`, a leg is announced as delivered only
when two of its parcels have landed (`LandedInv`: what an execution or a row says of a
DELIVERED parcel is of one that landed, and landing is history). The two are of different items,
or two of the same item, which is the exception the property names: the proof needs it, and the
stretch `dying` of the run shows that it happens.

In `Disputes`, an announced outcome is that of the row because a copy that no person decided or
reopened has the outcome of its original (`Change`, `CopiesKeep`), and because an execution that is
about to publish holds the outcome of the row (`Publishable`); a row that changed under its copy,
or was saved while another decision was still to be published, is in
`overlaps`. The same holds of an appeal that is still to be heard.

In `Certificates` each attempt to anchor has a row of its own (`RowsApart`), so the row that an
anchored tree owes its mark to cannot be failed by another attempt (`Final`); what is
confirmed is on the chain because the contract only grows. The invariant of the other two,
`CInv`, has the row of each certificate at the place that is its index in a tree
(`Placed`, `LeavesOf`), because rows are never removed and every tree takes all of them, ordered
by `issued_at`; and for each trade that was not cut short, no certificate, or the
first with an execution that issues the second, or both (`PairOK`).

That `computeProofPath` leads to `computeMerkleRoot` is proved for any number of leaves
(`PathVerifies`). The induction is over a set of numbers instead of a formula
(`SetInduction`, from the least-number principle `WFMin` of the library), and the loops are
recursive functions whose values are shown to exist first (`LoopExists`). Then: each round
halves a level, so after as many rounds as leaves one hash is left (`LevelsShrink`); and in each
round the loop of `computeProofPath` is at the same level as that of the root, with a path
that leads from the leaf to the hash at its index (`ClimbOneFacts`).

In `Conversations`, while a counter is not suspect every call is alone (`AloneIsAlone`), so the copy
a call carries is the row, and after the call has written its messages it is the number
of unread ones (`Counted`). What a lone `markAsRead` will write for its user is right
whatever the row says (`Opened`); that repairs a spoilt counter. Of the messages the proof
needs what one more and one UPDATE do to their number (`OneMore`, `AllRead`), and that
there are two users (`TwoUsers`).

In `Session`, a browser that keeps up and is signed in has tokens in the storage, each of its
tabs asks with a valid token, and what is stored is valid or one of its tabs
has a newer one to store (`Stored`): the token a refresh starts with may be crowded out while
the answer is on its way. Signed out it has neither tokens nor a refresh under way (`SignedOut`).
`Crowded` is what makes issuing a token in one browser harmless to the others (`IssuedBeside`).

In `Reputation`, three completed trades are either flagged or somebody will notice (`Noticed`): a
check is between counting and its flags, or one of those trades still has a check that has not
counted, because rows come before the count unless `early` says otherwise (`RowsFirst`). A check
that leaves at the first flag is right to do so because the second is there or about to be
(`Paired`). For the scores, a user who is not `mixed` has one computation at a time, and it counts
every rating unless another computation is due, which will (`ScoreOf`); what user-service was told is
the snapshot unless the message is still to be sent or was lost.

In `Listings`, while no handlers overlapped, the last word of the trades is the last message in the
inbox, or the one being applied, or applied already (`Told`), and a copy is saved with the status
it was read with, or archives (`Copies`); the counter of replies and the executions about to increase it make up the
number of replies (`Replied`).

In `Profiles`, while one execution at a time writes addresses, a row about to be stored as the
default replaces the default there is, and a row about to be made the default finds none
(`DefaultInv`); the ids of rows have been given, or a new row could replace an old one
(`IdsGiven`). As long as one execution at a time writes the profile, its counters are the
number of messages counted and of those counted twice (`CountsOf`), a copy about to be saved is the
row as it is, with one more if it is for a message (`CopyFits`), and a message that is acknowledged, or
about to be, was counted or swallowed (`Obeyed`), also when it comes again.

In `Moderation`, what a page carries out was decided, and only that (`WorkDecided`); a
decision that is alone on its report and did not fail has the effects of those of its requests that were
answered (`Effective`). The modal need not show the report any more: the requests carry their own.

In `ListingForm`, the files of the create form are the pictures shown, then those still being read, in
order, unless a FileReader overtook another (`FilesFollow`); so removing and moving by
position in both lists is the same removal and the same move (`RemoveAtBefore`, `MovedBefore`). As long as every
picture has a thumbnail, the i-th thumbnail is that of the i-th picture (`CreatedThumbs`).
What is selected and what is suggested fit together (`PlaceInv`), suggestions for a field that
another choice emptied included.

`CenterFlowProofs` takes the rest of the trade as `CenterFlow` has it. The `services` run checks each
property on stretches of its component; the theorems are about the whole next-state
relation.

Only model-checked: liveness (`DeliveredIsSettled`, `TransitEnds`, `PublishedWhileConnected`,
`SimulatedArrives`: temporal proofs under fairness need ENABLED), and `ButtonsWork`, which
says with ENABLED that a button on the page is a step of the service. Every other
invariant of the passing runs is a theorem.

## Disagreements found

* `early_completion`: trade-timeout.scheduler.ts:27 completes a trade because the
  "dispute window expired" without looking at the dispute window.
* `outbox_disconnected`: README.md:77 says events are written with the state change,
  "then published"; after the broker closes the connection nothing is published until the process is restarted.
* `payments_compensation`: payments.service.ts:491-492 locks against double
  refunds; the partial refund, the other handler of `dispute.resolved`, takes no
  locks, and a payment is refunded twice.
* `shipping_returns`: shipments.service.ts:206 creates return shipments on
  `center.verification_rejected`; its consumer shares a queue with that of
  `center.both_verified` and never looks at the key, so approved items are sent back.
* `accounts_ban`: users.service.ts:93 says "Delete the user", the privacy page (page.tsx:237)
  "Permanently delete your account", and email.service.ts:213 that the account is gone. The row of
  `verification_tokens` every registration inserts has a foreign key without onDelete, and PostgreSQL refuses
  the DELETE (users.service.ts:74) until the retention job has removed that row: other services
  have cleaned up by then, and the account, banned or not, stays.

Also noted, without a run of their own:

* README.md:81 promises optimistic locking by a version column; no `save()` compares it,
  so a copy read before another handler's commit and saved after it takes that update back.
* README.md:79 promises distributed locking; see the four exceptions of `LocksExclude`.
* README.md:13 calls certificates "immutable trade completion proofs". `OnceAnchored` fails: the next
  tree takes all certificates again, anchored ones too, and a root the contract already
  knows is never confirmed.
* The idempotency guard (README.md:80) takes its key before the request is processed and keeps it when that
  fails: the retry is refused as a duplicate (idempotency.guard.ts).
* AWAITING_SHIPMENT, a step of the trade flow in README.md:88, is a state no transition
  enters.
* transitions.ts:103 allows cancelling a VERIFIED trade only if not both parties have
  paid. The guard is evaluated on a copy (trades.service.ts:1236), and the payments may commit between
  it and the save: a trade that both have paid is cancelled.
* An event that the socket had buffered when the connection was lost is marked
  published and in no queue: the channel has no publisher confirms.
* payments.service.ts:164 calls its check idempotency; with two deliveries of
  `trade.verified` at once both find none and both insert the fees.
* payments.service.ts:421 checks "if all user payments for this trade are now
  complete"; for a simulated payment the query is outside the transaction, does not see its update,
  and the answer is always no. `LastPaymentSaysSoInTurn` is about payments through the provider.
* A callback that is posted again after a refund makes the payment 'succeeded' and
  'held' again (payments.service.ts:330 stops only at 'succeeded'). A second checkout replaces
  the token (312), and the callback of the first form then finds no row.
* retrieveCheckoutResult reads `paymentStatus` and drops it (iyzico.service.ts:152); a form whose lookup
  succeeds and that nobody paid is recorded as paid and held. Its `providerPaymentId` is '' (161), so
  payments.service.ts:500 and 545 skip it when the trade is refunded.
* resolve (disputes.service.ts:99-197) tests no status, while finalizeCenterInspection throws "This dispute has
  already been resolved" (232): a decision whose money has moved may be turned round by a second call.
  The `outcome` it publishes for the trade comes from the request and is neither stored nor
  compared with `outcomeType`. A second order to ship to a center keeps `centerReceivedAt`, so the next decision needs
  no reception, although 229 says "Item must be received at center before making a decision". A process that
  dies between save and publish leaves trade- and payment-service untold.
* submitRating takes `ratedUserId` from the request and never asks whether he is the other party
  (ratings.service.ts:42-61): a party may rate anybody but himself.
* trust-score.service.ts:72 publishes a score without outbox; user-service keeps the old one until the next.
* profiles.service.ts:71-82 adds one with every delivery, and deliveries repeat; 37-42 swallow a failed write, and the
  message is acknowledged. `update` (65-69) saves the counters it read.
* handlePaymentSucceeded commits the paid column and goes on in later transactions
  (trades.service.ts:851); a process that dies in between leaves a paid trade nobody advances.
  Two deliveries of `shipping.ready` at once insert two rows for each item (908).
* offers.service.ts:71 saves an offer and publishes it afterwards, without outbox: after a
  crash in between the offer is accepted and there is no trade.
* shipments.service.ts:53-57 drops a delivery of `shipping.addresses_ready` when there are two
  parcels and does not ask whose. If the process dies between its two `createShipment` calls, and at the same
  point of the redelivery, one item has two parcels and the other none, and
  checkAndNotifyBothDelivered (799-856) counts to two: the trade is DELIVERED and one item has
  never been sent (`CameTwice` in `DeliveredTradeArrived`).
* mapGeliverStatus takes `out_for_delivery` for DELIVERED.
* The SLA timer resolves with "system" as moderator, a text in a uuid column: the
  insert is refused and ends the timer's round at its first row.
* An inspected trade whose dispute was escalated loses the panel of its inspection on
  the dispute's page; no page has a button to appeal, to cancel or to counter an offer.
* The edit form sends old pictures without thumbnails and scores, and `update` replaces all
  rows (edit/page.tsx:362, listings.service.ts:251-263); the create form drops missing
  thumbnails from a list that is matched by position (create/page.tsx:239).
* blockchain.service.ts:96-113 marks the tree as anchored and then publishes
  `certificate.anchored` in the same `try`: if the channel is down, the row of the
  anchor is set to failed though the root is on the chain and the tree is marked.
* A refresh that fails on the way signs the user out (api.ts:61-66); a refresh
  token is not used up by its use and is refused when five newer ones exist
  (tokens.service.ts:34-46).

## Plan

1. `Shipping` with `Payments` around `TradeService`: the outcome of a dispute with
   inspection, from the refund to the return of the parcels.
2. `Idempotency`, and the consumers' side of RabbitMQ (prefetch, nack with requeue) as a
   module the services share.

## Not modelled

* `saga/trade-saga.orchestrator.ts`, `revokeAllForUser`, `generateMerkleProof` and
  `handleAnswerQuestion` of the listing page: nothing calls them.
* api-gateway (a stateless proxy and a rate limiter), the idempotency guard, storage,
  mail, image and EXIF analysis (pure functions of files), the carriers' prices, and
  the weights of trust scores (real arithmetic). The risk assessment is the choice of
  `risk` in `Init`.
* The clean-up listeners for deleted users of payment-, trade- and dispute-service: they
  write `'[deleted user]'` into uuid columns, which the database refuses, and swallow the
  failure.
* Pages that only show what a service returns (lists, profile, certificates, dashboard, legal texts) and
  styling, texts and translations of all pages.
* The one-hour age that cancelling an ACCEPTED trade requires: a guard that
  fails is a handler that does nothing, which a behaviour may always choose.
