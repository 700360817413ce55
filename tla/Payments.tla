------------------------------- MODULE Payments -------------------------------
(***************************************************************************)
(* payment-service: the payments of one trade and the boosts of its        *)
(* parties (payments.service.ts), the checkout forms and refunds of the    *)
(* provider, and the events written to the service's outbox.               *)
(*                                                                         *)
(* A handler execution reads rows into memory, waits for the provider or   *)
(* the database, and saves its copy.  As in TradeService, save() is a      *)
(* SELECT ("load") and an UPDATE of the columns in which the copy differs; *)
(* it inserts the copy again if the SELECT finds no row.  Where the UPDATE *)
(* and the COMMIT have a query in between ("check", "commit"), the row is  *)
(* locked and its new version invisible to others until the COMMIT.  Only  *)
(* refundTradePayments locks the rows it reads.                            *)
(***************************************************************************)
EXTENDS Naturals, FiniteSets, Functions

CONSTANTS Party,        \* the two users
          Payment,      \* ids of the rows ever inserted (a bound)
          Token,        \* checkout forms ever created (a bound)
          Handler,      \* handler executions that may be in flight together
          MaxRefunds,   \* how often the provider refunds a payment (a bound)
          MaxFaults     \* how many executions may die half way (a bound)

ASSUME BoundsAssumption == MaxRefunds \in Nat /\ MaxFaults \in Nat

VARIABLES
  configured,   \* whether the provider's keys are set in the environment
  rows,         \* the table payments
  jobs,         \* the handler executions in flight
  events,       \* rows of the outbox, as [key, pay, all]
  forms,        \* checkout forms the users were given, as <<token, payment>>
  charged,      \* tokens of the forms that were paid
  confirmed,    \* tokens of the forms whose lookup had status success
  refunds,      \* refunds the provider has made of each payment
  faults,       \* executions that have died so far
  overlapped    \* history: two executions have been in flight together

vars == <<configured, rows, jobs, events, forms, charged, confirmed, refunds,
          faults, overlapped>>

----------------------------------------------------------------------------
(* The table.                                                              *)

Type == {"trade_fee", "trade_insurance", "listing_boost"}
Status ==
  {"pending", "processing", "succeeded", "failed", "refunded", "partial_refund"}

\* token is the set of the last checkout token, empty before a checkout; ref
\* is whether providerPaymentId names a transaction, and is not NULL or ''.
Row ==
  [user : Party, type : Type, status : Status,
   escrow : {"none", "held", "released", "refunded"}, token : SUBSET Token,
   ref : BOOLEAN]

\* An id never inserted, and one deleted: ids are not used again.
Unused == [status |-> "unused"]
Deleted == [status |-> "deleted"]

Exists(row) == row \notin {Unused, Deleted}
Fresh == {p \in Payment : rows[p] = Unused}

IsOfTrade(row) == Exists(row) /\ row.type # "listing_boost"
OfTrade(table) == {p \in Payment : IsOfTrade(table[p])}

NewRow(user, type) ==
  [user |-> user, type |-> type, status |-> "pending", escrow |-> "none",
   token |-> {}, ref |-> FALSE]

----------------------------------------------------------------------------
(* Saving a copy.                                                          *)

Changed(row, base, ent) == IF ent # base THEN ent ELSE row

Merge(row, base, ent) ==
  [ent EXCEPT !.status = Changed(row.status, base.status, ent.status),
              !.escrow = Changed(row.escrow, base.escrow, ent.escrow),
              !.token = Changed(row.token, base.token, ent.token),
              !.ref = Changed(row.ref, base.ref, ent.ref)]

\* What the row of job j becomes: the SELECT found no row and the copy is
\* inserted, or an UPDATE changes the row if there still is one.
Written(j) ==
  LET row == rows[j.pay]
  IN IF ~Exists(j.base) THEN j.ent
     ELSE IF ~Exists(row) THEN row
     ELSE Merge(row, j.base, j.ent)

Idle == [at |-> "idle"]

\* A copy to be saved for operation op, and what the execution does after it.
Save(op, p, ent, then) ==
  [at |-> "load", op |-> op, pay |-> p, ent |-> ent, base |-> ent,
   all |-> FALSE, then |-> then]

Saves(j) == j.at \in {"load", "update", "check", "commit"}

Free(h) == jobs[h].at = "idle"
SetJob(h, job) == jobs' = [jobs EXCEPT ![h] = job]

\* An execution that so far has only read.
Begin(h, job) ==
  /\ SetJob(h, job)
  /\ UNCHANGED <<configured, rows, events, forms, charged, confirmed, refunds,
                 faults>>

\* Rows another transaction has locked.
Locked(p) ==
  \E g \in Handler :
    \/ jobs[g].at = "commit" /\ jobs[g].pay = p
    \/ jobs[g].at = "refund" /\ p \in jobs[g].held

\* areAllUserPaymentsComplete.
AllComplete(table, user) ==
  LET mine == {p \in OfTrade(table) : table[p].user = user}
  IN mine # {} /\ \A p \in mine : table[p].status = "succeeded"

----------------------------------------------------------------------------
(* Rows come and go.                                                       *)

Init ==
  /\ configured \in BOOLEAN
  /\ rows = [p \in Payment |-> Unused]
  /\ jobs = [h \in Handler |-> Idle]
  /\ events = {}
  /\ forms = {}
  /\ charged = {} /\ confirmed = {}
  /\ refunds = [p \in Payment |-> 0]
  /\ faults = 0
  /\ overlapped = FALSE

\* New rows for the users that owner gives to fresh ids.
Insert(h, owner, type) ==
  /\ rows' = [p \in Payment |-> IF p \in DOMAIN owner THEN NewRow(owner[p], type)
                                ELSE rows[p]]
  /\ SetJob(h, Idle)
  /\ UNCHANGED <<configured, events, forms, charged, confirmed, refunds, faults>>

\* Faulty variant, in no specification: without the check for payments.
CreateAgain(h) ==
  /\ Free(h)
  /\ Begin(h, [at |-> "fees"])

\* createTradePayments, on trade.verified: nothing if the trade has a row of
\* any type, else one fee for each party.
CreateTradePayments(h) ==
  /\ Free(h)
  /\ OfTrade(rows) = {}
  /\ Begin(h, [at |-> "fees"])

InsertFees(h) == \E ids \in SUBSET Fresh : \E owner \in Bijection(ids, Party) :
  /\ jobs[h].at = "fees"
  /\ Insert(h, owner, "trade_fee")

CreateInsurance(h, u) ==
  /\ Free(h)
  /\ \A p \in OfTrade(rows) :
       rows[p].user = u => rows[p].type # "trade_insurance"
  /\ Begin(h, [at |-> "insure", user |-> u])

InsertInsurance(h) == \E p \in Fresh :
  /\ jobs[h].at = "insure"
  /\ Insert(h, [q \in {p} |-> jobs[h].user], "trade_insurance")

CreateBoost(h, u) == \E p \in Fresh :
  /\ Free(h)
  /\ Insert(h, [q \in {p} |-> u], "listing_boost")

CancelInsurance(h, p) ==
  /\ Free(h)
  /\ Exists(rows[p])
  /\ rows[p].type = "trade_insurance" /\ rows[p].status = "pending"
  /\ Begin(h, [at |-> "remove", pay |-> p])

Remove(h) ==
  LET p == jobs[h].pay
  IN /\ jobs[h].at = "remove"
     /\ ~Locked(p)
     /\ rows' = [rows EXCEPT ![p] = Deleted]
     /\ SetJob(h, Idle)
     /\ UNCHANGED <<configured, events, forms, charged, confirmed, refunds, faults>>

----------------------------------------------------------------------------
(* Paying.                                                                 *)

\* The form of a checkout is the user's once the checkout has been saved.
IsNew(t) ==
  /\ \A f \in forms : f[1] # t
  /\ \A g \in Handler :
       Saves(jobs[g]) /\ jobs[g].op = "checkout" => t \notin jobs[g].ent.token

\* Faulty variant, in no specification: without the check of the status.
CheckoutOfAny(h, p) == \E t \in Token :
  /\ configured
  /\ Free(h)
  /\ Exists(rows[p])
  /\ IsNew(t)
  /\ Begin(h, Save("checkout", p,
                   [rows[p] EXCEPT !.status = "processing", !.token = {t}],
                   Idle))

\* createCheckoutSession: any row but a succeeded one can be checked out.
Checkout(h, p) == \E t \in Token :
  /\ configured
  /\ Free(h)
  /\ Exists(rows[p]) /\ rows[p].status # "succeeded"
  /\ IsNew(t)
  /\ Begin(h, Save("checkout", p,
                   [rows[p] EXCEPT !.status = "processing", !.token = {t}],
                   Idle))

\* A user pays on a form of the provider.
Pay(f) ==
  /\ f[1] \notin charged
  /\ charged' = charged \cup {f[1]}
  /\ UNCHANGED <<configured, rows, jobs, events, forms, confirmed, refunds,
                 faults>>

\* A copy of a row whose payment succeeded, in the transaction named if ref.
Paid(row, ref) ==
  [row EXCEPT !.status = "succeeded", !.ref = ref,
              !.escrow = IF row.type = "listing_boost" THEN "released" ELSE "held"]

\* Faulty variant, in no specification: does not ask the provider.
CallbackBelieved(h, p, t) ==
  /\ configured
  /\ Free(h)
  /\ Exists(rows[p]) /\ rows[p].token = {t} /\ rows[p].status # "succeeded"
  /\ Begin(h, Save("pay", p, Paid(rows[p], t \in charged), Idle))

\* handleIyzicoCallback: the browser posts the token, perhaps again and
\* again, and the provider is asked about that form.  The status of its answer
\* says that the lookup succeeded; whether the form was paid is in
\* paymentStatus, which retrieveCheckoutResult drops.  A form that was not paid
\* has no transaction to name.
Callback(h, p, t) ==
  /\ configured
  /\ Free(h)
  /\ Exists(rows[p]) /\ rows[p].token = {t} /\ rows[p].status # "succeeded"
  /\ \/ /\ confirmed' = confirmed \cup {t}
        /\ SetJob(h, Save("pay", p, Paid(rows[p], t \in charged), Idle))
     \/ /\ SetJob(h, Save("fail", p, [rows[p] EXCEPT !.status = "failed"], Idle))
        /\ UNCHANGED confirmed
  /\ UNCHANGED <<configured, rows, events, forms, charged, refunds, faults>>

Simulate(h, p) ==
  /\ ~configured
  /\ Free(h)
  /\ Exists(rows[p]) /\ rows[p].status # "succeeded"
  /\ Begin(h, Save("simulate", p, Paid(rows[p], TRUE), Idle))

----------------------------------------------------------------------------
(* Settling.  releaseEscrow and partialRefundTradePayments go through a    *)
(* copy of the trade's rows, with a transaction for each.                  *)

Loop(op, copy, todo) == [at |-> "next", op |-> op, copy |-> copy, todo |-> todo]

ReleaseEscrow(h) ==
  LET held == {p \in OfTrade(rows) : rows[p].escrow = "held"}
  IN /\ Free(h)
     /\ held # {}
     /\ Begin(h, Loop("release", rows, held))

\* A payment that names no transaction is not refunded.
Refundable(table) ==
  {p \in OfTrade(table) : table[p].status = "succeeded" /\ table[p].ref}

PartialRefund(h) ==
  LET paid == Refundable(rows)
  IN /\ Free(h)
     /\ paid # {}
     /\ Begin(h, Loop("partial", rows, paid))

ReleaseOne(h, p) ==
  LET j == jobs[h]
  IN /\ j.at = "next" /\ j.op = "release" /\ p \in j.todo
     /\ Begin(h, Save("release", p, [j.copy[p] EXCEPT !.escrow = "released"],
                      Loop(j.op, j.copy, j.todo \ {p})))

\* The provider refunds a payment; simulated payments skip it.
ProviderRefund(p) ==
  IF configured
  THEN refunds[p] < MaxRefunds /\ refunds' = [refunds EXCEPT ![p] = @ + 1]
  ELSE UNCHANGED refunds

\* The provider is asked before the transaction; a refusal is logged.
RefundPart(h, p) ==
  LET j == jobs[h]
      rest == Loop(j.op, j.copy, j.todo \ {p})
  IN /\ j.at = "next" /\ j.op = "partial" /\ p \in j.todo
     /\ \/ \E status \in {"refunded", "partial_refund"} :
             /\ SetJob(h, Save("partial", p,
                            [j.copy[p] EXCEPT !.status = status,
                                              !.escrow = "refunded"], rest))
             /\ ProviderRefund(p)
        \/ configured /\ SetJob(h, rest) /\ UNCHANGED refunds
     /\ UNCHANGED <<configured, rows, events, forms, charged, confirmed, faults>>

EndLoop(h) ==
  /\ jobs[h].at = "next" /\ jobs[h].todo = {}
  /\ Begin(h, Idle)

\* refundTradePayments: one transaction that locks all rows of the trade.
Refund(h) ==
  LET all == OfTrade(rows)
      paid == Refundable(rows)
  IN /\ Free(h)
     /\ paid # {}
     /\ \A p \in all : ~Locked(p)
     /\ Begin(h, [at |-> "refund", held |-> all, todo |-> paid, done |-> {}])

\* A refund the provider refuses is logged and skipped.
RefundOne(h, p) ==
  LET j == jobs[h]
  IN /\ j.at = "refund" /\ p \in j.todo
     /\ \/ /\ SetJob(h, [j EXCEPT !.todo = @ \ {p}, !.done = @ \cup {p}])
           /\ ProviderRefund(p)
        \/ /\ configured
           /\ SetJob(h, [j EXCEPT !.todo = @ \ {p}])
           /\ UNCHANGED refunds
     /\ UNCHANGED <<configured, rows, events, forms, charged, confirmed, faults>>

Refunded(p) ==
  [rows[p] EXCEPT !.status = "refunded", !.escrow = "refunded"]

Event(key, p, all) == [key |-> key, pay |-> p, all |-> all]

CommitRefund(h) ==
  LET j == jobs[h]
  IN /\ j.at = "refund" /\ j.todo = {}
     /\ rows' = [p \in Payment |-> IF p \in j.done THEN Refunded(p) ELSE rows[p]]
     /\ events' = events \cup {Event("payment.refunded", p, FALSE) : p \in j.done}
     /\ SetJob(h, Idle)
     /\ UNCHANGED <<configured, forms, charged, confirmed, refunds, faults>>

----------------------------------------------------------------------------
(* What every execution does with its copy.                                *)

Load(h) ==
  LET j == jobs[h]
  IN /\ j.at = "load"
     /\ Begin(h, [j EXCEPT !.base = rows[j.pay],
                    !.at = IF j.op \in {"pay", "simulate"} THEN "check"
                           ELSE "update"])

\* Faulty variant, in no specification: asks outside the transaction.
CheckOutside(h) ==
  LET j == jobs[h]
  IN /\ j.at = "check"
     /\ ~Locked(j.pay)
     /\ Begin(h, [j EXCEPT !.at = "commit",
                    !.all = \/ j.ent.type = "listing_boost"
                            \/ AllComplete(rows, j.ent.user)])

\* The UPDATE of a payment's transaction, which locks the row, and the query
\* for the user's other payments.  handleSimulatedPayment makes that query
\* outside the transaction and does not see its own update.
Check(h) ==
  LET j == jobs[h]
      seen == IF j.op = "pay" THEN [rows EXCEPT ![j.pay] = Written(j)] ELSE rows
  IN /\ j.at = "check"
     /\ ~Locked(j.pay)
     /\ Begin(h, [j EXCEPT !.at = "commit",
                    !.all = \/ j.ent.type = "listing_boost"
                            \/ AllComplete(seen, j.ent.user)])

EventsOf(j) ==
  CASE j.op \in {"pay", "simulate"} ->
         {Event("payment.succeeded", j.pay, j.all)}
         \cup IF j.ent.type = "listing_boost"
              THEN {Event("payment.boost_succeeded", j.pay, j.all)} ELSE {}
    [] j.op = "release" -> {Event("payment.released", j.pay, FALSE)}
    [] j.op = "partial" -> {Event("payment.refunded", j.pay, FALSE)}
    [] OTHER -> {}

FormsOf(j) ==
  IF j.op = "checkout" THEN {<<t, j.pay>> : t \in j.ent.token} ELSE {}

\* The UPDATE and the COMMIT.
Update(h) ==
  LET j == jobs[h]
  IN /\ \/ j.at = "update" /\ ~Locked(j.pay)
        \/ j.at = "commit"
     /\ rows' = [rows EXCEPT ![j.pay] = Written(j)]
     /\ events' = events \cup EventsOf(j)
     /\ forms' = forms \cup FormsOf(j)
     /\ SetJob(h, j.then)
     /\ UNCHANGED <<configured, charged, confirmed, refunds, faults>>

\* The execution dies and its transaction rolls back; a partial refund whose
\* transaction fails goes on with the next payment.
Fault(h) ==
  LET j == jobs[h]
  IN /\ ~Free(h)
     /\ faults < MaxFaults
     /\ faults' = faults + 1
     /\ \/ SetJob(h, Idle)
        \/ Saves(j) /\ j.op = "partial" /\ SetJob(h, j.then)
     /\ UNCHANGED <<configured, rows, events, forms, charged, confirmed, refunds>>

----------------------------------------------------------------------------
\* Requests of the users and messages of other services, which are delivered
\* at least once and in any order.
Arrive(h) ==
  \/ CreateTradePayments(h) \/ ReleaseEscrow(h) \/ Refund(h) \/ PartialRefund(h)
  \/ \E u \in Party : CreateInsurance(h, u) \/ CreateBoost(h, u)
  \/ \E p \in Payment :
       \/ CancelInsurance(h, p) \/ Checkout(h, p) \/ Simulate(h, p)
       \/ \E t \in Token : Callback(h, p, t)

Proceed(h) ==
  \/ InsertFees(h) \/ InsertInsurance(h) \/ Remove(h)
  \/ Load(h) \/ Check(h) \/ Update(h) \/ EndLoop(h) \/ CommitRefund(h)
  \/ \E p \in Payment : ReleaseOne(h, p) \/ RefundPart(h, p) \/ RefundOne(h, p)

OneAtATime == \A g, h \in Handler : Free(g) \/ Free(h) \/ g = h

Next ==
  /\ \/ \E h \in Handler : Arrive(h) \/ Proceed(h) \/ Fault(h)
     \/ \E f \in forms : Pay(f)
  /\ overlapped' = (overlapped \/ ~OneAtATime')

Spec == Init /\ [][Next]_vars

----------------------------------------------------------------------------
(* Types.                                                                  *)

Table == [Payment -> Row \cup {Unused, Deleted}]
Op == {"checkout", "pay", "fail", "simulate", "release", "partial"}
Key ==
  {"payment.succeeded", "payment.boost_succeeded", "payment.released",
   "payment.refunded"}

Looping ==
  [at : {"next"}, op : {"release", "partial"}, copy : Table,
   todo : SUBSET Payment]
Saving ==
  [at : {"load", "update", "check", "commit"}, op : Op, pay : Payment,
   ent : Row, base : Row \cup {Unused, Deleted}, all : BOOLEAN,
   then : Looping \cup {Idle}]
Refunding ==
  [at : {"refund"}, held : SUBSET Payment, todo : SUBSET Payment,
   done : SUBSET Payment]
Inserting == [at : {"fees"}] \cup [at : {"insure"}, user : Party]
Removing == [at : {"remove"}, pay : Payment]

Job == {Idle} \cup Looping \cup Saving \cup Refunding \cup Inserting \cup Removing

\* The tables, the copies in memory and the provider's records have the types
\* of PaymentEntity and of the calls that use them.
TypeOK ==
  /\ configured \in BOOLEAN
  /\ rows \in Table
  /\ jobs \in [Handler -> Job]
  /\ events \subseteq [key : Key, pay : Payment, all : BOOLEAN]
  /\ forms \subseteq Token \X Payment
  /\ charged \subseteq Token /\ confirmed \subseteq Token
  /\ refunds \in [Payment -> 0 .. MaxRefunds]
  /\ faults \in 0 .. MaxFaults
  /\ overlapped \in BOOLEAN

LoopExists(j) == \A p \in j.todo : Exists(j.copy[p])

JobExists(j, table) ==
  /\ j.at = "next" => LoopExists(j)
  /\ Saves(j) /\ j.then # Idle => LoopExists(j.then)
  /\ j.at = "refund" =>
       \A p \in j.todo \cup j.done : p \in j.held /\ Exists(table[p])

\* Rows to be settled exist where they will be read: in the copy of a loop,
\* and, because they are locked, in the table until a refund commits.
CopiesExist == \A h \in Handler : JobExists(jobs[h], rows)

----------------------------------------------------------------------------
(* Safety that must hold however the executions overlap.                   *)

Of(tokens) == {p \in Payment : \E t \in tokens : <<t, p>> \in forms}
Charged == Of(charged)
Confirmed == Of(confirmed)

Settled(row) ==
  \/ row.status \in {"succeeded", "refunded", "partial_refund"}
  \/ row.escrow # "none"

\* No money is held, released, refunded or announced for a payment unless the
\* provider answered a lookup of one of its own forms with success, and none is
\* paid back unless one of them was paid, whatever stale copy is saved over
\* which row (handleIyzicoCallback believes the provider and not the browser).
MoneyIsConfirmed ==
  configured =>
    \A p \in Payment :
      /\ Exists(rows[p]) /\ Settled(rows[p]) => p \in Confirmed
      /\ refunds[p] > 0 => p \in Charged
      /\ \A e \in events : e.pay = p =>
           /\ p \in Confirmed
           /\ e.key = "payment.refunded" => p \in Charged

\* Why that holds: a settled copy belongs to a payment that was confirmed, one
\* that names a transaction to a payment that was charged, and the token in a
\* row is of a form of that row.
RowBacked(p, row, given, sure, paid) ==
  Exists(row) =>
    /\ Settled(row) => p \in sure
    /\ row.ref => p \in paid
    /\ \A t \in row.token : <<t, p>> \in given

TableBacked(table, given, sure, paid) ==
  \A p \in Payment : RowBacked(p, table[p], given, sure, paid)

LoopBacked(j, given, sure, paid) ==
  /\ TableBacked(j.copy, given, sure, paid)
  /\ j.todo \subseteq sure
  /\ j.op = "partial" => j.todo \subseteq paid

JobBacked(j, given, sure, paid) ==
  /\ j.at = "next" => LoopBacked(j, given, sure, paid)
  /\ Saves(j) =>
       /\ Settled(j.ent) => j.pay \in sure
       /\ j.ent.ref => j.pay \in paid
       /\ j.op # "checkout" => \A t \in j.ent.token : <<t, j.pay>> \in given
       /\ j.op \notin {"checkout", "fail"} => j.pay \in sure
       /\ j.op = "partial" => j.pay \in paid
       /\ j.then # Idle => LoopBacked(j.then, given, sure, paid)
  /\ j.at = "refund" => j.todo \cup j.done \subseteq sure \cap paid

EventBacked(e, sure, paid) ==
  /\ e.pay \in sure
  /\ e.key = "payment.refunded" => e.pay \in paid

\* The inductive invariant behind MoneyIsConfirmed.
EverythingBacked ==
  configured =>
    /\ TableBacked(rows, forms, Confirmed, Charged)
    /\ \A h \in Handler : JobBacked(jobs[h], forms, Confirmed, Charged)
    /\ \A p \in Payment : refunds[p] > 0 => p \in Charged
    /\ \A e \in events : EventBacked(e, Confirmed, Charged)

\* "Use pessimistic locking to prevent race condition double-refunds": the
\* provider never refunds a payment more often than it was charged.
RefundsCovered ==
  \A p \in Payment :
    refunds[p] <= Cardinality({t \in charged : <<t, p>> \in forms})

----------------------------------------------------------------------------
(* Safety that holds as long as executions have run one at a time.         *)

\* A user has at most one fee and one insurance for the trade, although the
\* checks for an existing row and the inserts are separate statements.
OneOfEachType ==
  \A p, q \in OfTrade(rows) :
    rows[p].user = rows[q].user /\ rows[p].type = rows[q].type => p = q
OneOfEachTypeInTurn == ~overlapped => OneOfEachType

\* A payment once recorded is never forgotten: only a refund ends its
\* success, and until then its money leaves escrow once, when it is released.
SuccessStays ==
  \A p \in Payment :
    Exists(rows[p]) /\ rows[p].status = "succeeded" =>
      /\ Exists(rows'[p])
      /\ rows'[p].status \in {"succeeded", "refunded", "partial_refund"}
      /\ rows'[p].status = "succeeded" =>
           rows'[p].escrow \in {rows[p].escrow, "released"}
PaidUntilRefundedInTurn == [][~overlapped' => SuccessStays]_vars

\* allUserPaymentsComplete tells trade-service the truth: it is TRUE in the
\* event of a trade's payment exactly if that payment was the user's last.
\* (Simulated payments do not see their own update, and it is never TRUE.)
NewEventsTell ==
  \A e \in events' \ events :
    configured /\ e.key = "payment.succeeded"
      /\ rows'[e.pay].type # "listing_boost"
        => e.all = AllComplete(rows', rows'[e.pay].user)
LastPaymentSaysSoInTurn == [][~overlapped' => NewEventsTell]_vars

=============================================================================
