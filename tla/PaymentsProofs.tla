---------------------------- MODULE PaymentsProofs ----------------------------
(* Proofs about Payments, for every set of users, rows, forms, executions. *)
EXTENDS Payments, TLAPS

USE BoundsAssumption

----------------------------------------------------------------------------
(* Rows and jobs.                                                          *)

\* The rows that exist are those with all the columns.
LEMMA ExistingIsRow ==
  ASSUME NEW row \in Row \cup {Unused, Deleted}
  PROVE  Exists(row) <=> row \in Row
  BY DEF Exists, Row, Status, Unused, Deleted

\* The point an execution has reached tells what it holds.
LEMMA Shapes ==
  ASSUME NEW j \in Job
  PROVE  /\ j.at = "next" => j \in Looping
         /\ Saves(j) => j \in Saving
         /\ j.at = "refund" => j \in Refunding
         /\ j.at = "insure" => j.user \in Party
         /\ j.at = "remove" => j.pay \in Payment
  BY DEF Job, Looping, Saving, Refunding, Inserting, Removing, Idle, Saves

\* A new row is a row, and so is a row that a payment or a refund changes.
LEMMA ChangesAreRows ==
  /\ \A user \in Party, type \in Type : NewRow(user, type) \in Row
  /\ \A row \in Row :
       /\ \A ref \in BOOLEAN : Paid(row, ref) \in Row
       /\ \A s \in Status : [row EXCEPT !.status = s] \in Row
       /\ \A t \in Token :
            [row EXCEPT !.status = "processing", !.token = {t}] \in Row
       /\ [row EXCEPT !.escrow = "released"] \in Row
       /\ \A s \in Status : [row EXCEPT !.status = s, !.escrow = "refunded"] \in Row
  BY DEF NewRow, Paid, Row, Status

\* What a save writes is a row or no row, and it deletes nothing.
LEMMA WrittenIsRow ==
  ASSUME TypeOK, NEW j \in Saving
  PROVE  /\ Written(j) \in Row \cup {Unused, Deleted}
         /\ Exists(rows[j.pay]) => Exists(Written(j))
<1>1. j.ent \in Row /\ rows[j.pay] \in Row \cup {Unused, Deleted}
      /\ j.base \in Row \cup {Unused, Deleted}
  BY DEF Saving, TypeOK, Table
<1>2. ASSUME NEW row \in Row, NEW base \in Row
      PROVE  Merge(row, base, j.ent) \in Row
  BY <1>1, <1>2 DEF Merge, Changed, Row
<1> QED  BY <1>1, <1>2, ExistingIsRow DEF Written

----------------------------------------------------------------------------
(* Sound executions.                                                       *)

Sound(j) ==
  JobExists(j, rows) /\ (configured => JobBacked(j, forms, Confirmed, Charged))

SoundLoop(j) ==
  LoopExists(j) /\ (configured => LoopBacked(j, forms, Confirmed, Charged))

IInv == TypeOK /\ CopiesExist /\ EverythingBacked

\* The forms and the charges only grow, so what was backed stays backed.
LEMMA BackedGrows ==
  ASSUME NEW given, NEW sure, NEW paid, NEW given2, NEW sure2, NEW paid2,
         given \subseteq given2, sure \subseteq sure2, paid \subseteq paid2
  PROVE  /\ \A table : TableBacked(table, given, sure, paid)
                         => TableBacked(table, given2, sure2, paid2)
         /\ \A j : JobBacked(j, given, sure, paid)
                     => JobBacked(j, given2, sure2, paid2)
         /\ \A e : EventBacked(e, sure, paid) => EventBacked(e, sure2, paid2)
<1>1. ASSUME NEW table, TableBacked(table, given, sure, paid)
      PROVE  TableBacked(table, given2, sure2, paid2)
  BY <1>1 DEF TableBacked, RowBacked
<1>2. ASSUME NEW j, LoopBacked(j, given, sure, paid)
      PROVE  LoopBacked(j, given2, sure2, paid2)
  BY <1>1, <1>2 DEF LoopBacked
<1>3. ASSUME NEW j, JobBacked(j, given, sure, paid)
      PROVE  JobBacked(j, given2, sure2, paid2)
  BY <1>2, <1>3 DEF JobBacked
<1> QED  BY <1>1, <1>3 DEF EventBacked

LEMMA BackedStays ==
  ASSUME forms \subseteq forms', Confirmed \subseteq Confirmed',
         Charged \subseteq Charged'
  PROVE  /\ \A table : TableBacked(table, forms, Confirmed, Charged)
                         => TableBacked(table, forms', Confirmed', Charged')
         /\ \A j : JobBacked(j, forms, Confirmed, Charged)
                     => JobBacked(j, forms', Confirmed', Charged')
         /\ \A e : EventBacked(e, Confirmed, Charged)
                     => EventBacked(e, Confirmed', Charged')
<1> DEFINE given == forms  given2 == forms'  sure == Confirmed
           sure2 == Confirmed'  paid == Charged  paid2 == Charged'
<1>1. given \subseteq given2 /\ sure \subseteq sure2 /\ paid \subseteq paid2
  OBVIOUS
<1> HIDE DEF given, given2, sure, sure2, paid, paid2
<1>2. /\ \A table : TableBacked(table, given, sure, paid)
                      => TableBacked(table, given2, sure2, paid2)
      /\ \A j : JobBacked(j, given, sure, paid)
                  => JobBacked(j, given2, sure2, paid2)
      /\ \A e : EventBacked(e, sure, paid) => EventBacked(e, sure2, paid2)
  BY <1>1, BackedGrows
<1> QED  BY <1>2 DEF given, given2, sure, sure2, paid, paid2

\* An execution that changes only its own job keeps the invariant if the job
\* it becomes is sound.
LEMMA BeginKeeps ==
  ASSUME IInv, NEW h \in Handler, NEW job \in Job, Sound(job), Begin(h, job),
         UNCHANGED configured, overlapped' \in BOOLEAN
  PROVE  IInv'
<1> USE DEF IInv, Begin, SetJob
<1>1. TypeOK'
  BY DEF TypeOK
<1>2. \A g \in Handler : jobs'[g] = IF g = h THEN job ELSE jobs[g]
  BY DEF TypeOK
<1>3. CopiesExist'
  BY <1>2 DEF CopiesExist, Sound
<1>4. Confirmed' = Confirmed /\ Charged' = Charged
  BY DEF Confirmed, Charged, Of
<1>5. EverythingBacked'
  BY <1>2, <1>4 DEF EverythingBacked, Sound
<1> QED  BY <1>1, <1>3, <1>5

\* A copy to be saved makes a sound job if the payment it settles was made.
LEMMA SaveIsSound ==
  ASSUME NEW op \in Op, NEW p \in Payment, NEW ent \in Row,
         NEW then \in Looping \cup {Idle}, then # Idle => SoundLoop(then),
         configured =>
           /\ Settled(ent) => p \in Confirmed
           /\ ent.ref => p \in Charged
           /\ op # "checkout" => \A t \in ent.token : <<t, p>> \in forms
           /\ op \notin {"checkout", "fail"} => p \in Confirmed
           /\ op = "partial" => p \in Charged
  PROVE  Save(op, p, ent, then) \in Job /\ Sound(Save(op, p, ent, then))
<1>1. Save(op, p, ent, then) \in Saving
  BY DEF Save, Saving
<1>2. JobExists(Save(op, p, ent, then), rows)
  BY DEF Save, JobExists, SoundLoop
<1>3. configured => JobBacked(Save(op, p, ent, then), forms, Confirmed, Charged)
  BY DEF Save, JobBacked, SoundLoop
<1> QED  BY <1>1, <1>2, <1>3 DEF Sound, Job

\* An idle execution is sound, and so is one about to insert or to remove.
LEMMA SimpleJobsAreSound ==
  /\ Idle \in Job /\ Sound(Idle)
  /\ [at |-> "fees"] \in Job /\ Sound([at |-> "fees"])
  /\ \A u \in Party : LET job == [at |-> "insure", user |-> u]
                      IN job \in Job /\ Sound(job)
  /\ \A p \in Payment : LET job == [at |-> "remove", pay |-> p]
                        IN job \in Job /\ Sound(job)
  BY DEF Idle, Job, Inserting, Removing, Sound, JobExists, JobBacked, Saves

\* A loop over the rows of the table, or over what another loop has left.
LEMMA LoopIsSound ==
  ASSUME NEW op \in {"release", "partial"}, NEW copy \in Table,
         NEW todo \in SUBSET Payment, SoundLoop(Loop(op, copy, todo))
  PROVE  /\ Loop(op, copy, todo) \in Looping /\ Loop(op, copy, todo) \in Job
         /\ Sound(Loop(op, copy, todo))
  BY DEF Loop, Looping, Job, Sound, SoundLoop, JobExists, JobBacked, Saves

\* A step of an execution that may change anything keeps the invariant if
\* nothing shrinks, the others' rows stay, and what is new is backed.
LEMMA StepKeeps ==
  ASSUME IInv, NEW h \in Handler, NEW job \in Job, SetJob(h, job),
         rows' \in Table, events' \subseteq [key : Key, pay : Payment, all : BOOLEAN],
         forms' \subseteq Token \X Payment, forms \subseteq forms',
         charged' \subseteq Token, charged \subseteq charged',
         confirmed' \subseteq Token, confirmed \subseteq confirmed',
         refunds' \in [Payment -> 0 .. MaxRefunds], faults' \in 0 .. MaxFaults,
         JobExists(job, rows'),
         \A g \in Handler \ {h} : JobExists(jobs[g], rows'),
         configured =>
           /\ JobBacked(job, forms', Confirmed', Charged')
           /\ TableBacked(rows', forms', Confirmed', Charged')
           /\ \A p \in Payment : refunds'[p] > 0 => p \in Charged'
           /\ \A e \in events' : EventBacked(e, Confirmed', Charged'),
         UNCHANGED configured, overlapped' \in BOOLEAN
  PROVE  IInv'
<1> USE DEF IInv, SetJob
<1>1. TypeOK'
  BY DEF TypeOK
<1>2. \A g \in Handler : jobs'[g] = IF g = h THEN job ELSE jobs[g]
  BY DEF TypeOK
<1>3. CopiesExist'
  BY <1>2 DEF CopiesExist
<1>4. Confirmed \subseteq Confirmed' /\ Charged \subseteq Charged'
  BY DEF Confirmed, Charged, Of
<1>5. EverythingBacked'
  BY <1>2, <1>4, BackedStays DEF EverythingBacked
<1> QED  BY <1>1, <1>3, <1>5

\* The other executions' rows stay if no row is deleted.
LEMMA RowsStay ==
  ASSUME IInv, NEW table,
         \A p \in Payment : Exists(rows[p]) => Exists(table[p])
  PROVE  \A g \in Handler : JobExists(jobs[g], table)
<1>1. SUFFICES ASSUME NEW g \in Handler PROVE JobExists(jobs[g], table)
  OBVIOUS
<1>2. jobs[g] \in Job /\ JobExists(jobs[g], rows)
  BY DEF IInv, TypeOK, CopiesExist
<1>3. jobs[g].at = "refund" => jobs[g].todo \cup jobs[g].done \subseteq Payment
  BY <1>2, Shapes DEF Refunding
<1> QED  BY <1>2, <1>3 DEF JobExists

\* New rows are pending, so nothing has to be behind them.
LEMMA InsertKeeps ==
  ASSUME IInv, NEW h \in Handler, NEW ids \in SUBSET Fresh,
         NEW owner \in [ids -> Party], NEW type \in Type, Insert(h, owner, type),
         UNCHANGED configured, overlapped' \in BOOLEAN
  PROVE  IInv'
<1>1. \A p \in Payment : rows'[p] = IF p \in ids THEN NewRow(owner[p], type)
                                      ELSE rows[p]
  BY DEF Insert
<1>2. \A p \in ids : p \in Payment /\ NewRow(owner[p], type) \in Row
  BY ChangesAreRows DEF Fresh
<1>3. rows' \in Table
  <2>1. \A p \in Payment : rows[p] \in Row \cup {Unused, Deleted}
    BY DEF IInv, TypeOK, Table
  <2>2. rows' = [p \in Payment |-> IF p \in ids THEN NewRow(owner[p], type)
                                    ELSE rows[p]]
    BY DEF Insert
  <2> QED  BY <2>1, <2>2, <1>2 DEF Table
<1>4. \A g \in Handler : JobExists(jobs[g], rows')
  BY <1>1, <1>2, RowsStay, ExistingIsRow
<1>5. Confirmed' = Confirmed /\ Charged' = Charged
  BY DEF Insert, Confirmed, Charged, Of
<1>6. configured => TableBacked(rows', forms', Confirmed', Charged')
  BY <1>1, <1>2, <1>5
     DEF IInv, EverythingBacked, TableBacked, RowBacked, NewRow, Settled, Insert
<1>7. JobExists(Idle, rows') /\ JobBacked(Idle, forms', Confirmed', Charged')
  BY DEF Idle, JobExists, JobBacked, Saves
<1>8. SetJob(h, Idle) /\ Idle \in Job
  BY SimpleJobsAreSound DEF Insert
<1> QED
  BY <1>3, <1>4, <1>5, <1>6, <1>7, <1>8, StepKeeps
     DEF Insert, IInv, TypeOK, EverythingBacked

\* The same for a single row.
LEMMA InsertOneKeeps ==
  ASSUME IInv, NEW h \in Handler, NEW p \in Fresh, NEW u \in Party,
         NEW type \in Type, Insert(h, [q \in {p} |-> u], type),
         UNCHANGED configured, overlapped' \in BOOLEAN
  PROVE  IInv'
<1> DEFINE owner == [q \in {p} |-> u]
<1>1. owner \in [{p} -> Party] /\ {p} \in SUBSET Fresh
  OBVIOUS
<1>2. Insert(h, owner, type)
  OBVIOUS
<1> HIDE DEF owner
<1> QED  BY <1>1, <1>2, InsertKeeps

----------------------------------------------------------------------------
(* Requests and messages.                                                  *)

\* What the invariant says of the row of one payment.
LEMMA RowFacts ==
  ASSUME IInv, NEW p \in Payment
  PROVE  /\ rows[p] \in Row \cup {Unused, Deleted}
         /\ Exists(rows[p]) => rows[p] \in Row
         /\ configured /\ Exists(rows[p]) =>
              /\ Settled(rows[p]) => p \in Confirmed
              /\ rows[p].ref => p \in Charged
              /\ \A t \in rows[p].token : <<t, p>> \in forms
<1>1. rows[p] \in Row \cup {Unused, Deleted}
  BY DEF IInv, TypeOK, Table
<1> QED  BY <1>1, ExistingIsRow DEF IInv, EverythingBacked, TableBacked, RowBacked

\* The rows of the trade that a loop or a refund settles.
LEMMA SettlingIsSound ==
  ASSUME IInv, NEW op \in {"release", "partial"},
         NEW todo \in SUBSET OfTrade(rows),
         \A p \in todo : Settled(rows[p]),
         op = "partial" => \A p \in todo : rows[p].ref
  PROVE  /\ todo \subseteq Payment /\ \A p \in todo : Exists(rows[p])
         /\ configured => todo \subseteq Confirmed
         /\ configured /\ op = "partial" => todo \subseteq Charged
         /\ SoundLoop(Loop(op, rows, todo))
<1>1. /\ todo \subseteq Payment /\ \A p \in todo : Exists(rows[p])
      /\ configured => todo \subseteq Confirmed
      /\ configured /\ op = "partial" => todo \subseteq Charged
  BY RowFacts DEF OfTrade, IsOfTrade
<1>2. configured => TableBacked(rows, forms, Confirmed, Charged)
  BY DEF IInv, EverythingBacked
<1> QED  BY <1>1, <1>2 DEF SoundLoop, Loop, LoopExists, LoopBacked

\* An execution that has heard from the provider keeps the invariant if what
\* it will save is backed by the answers heard so far.
LEMMA AnswerKeeps ==
  ASSUME IInv, NEW h \in Handler, NEW job \in Job, SetJob(h, job),
         JobExists(job, rows),
         configured => JobBacked(job, forms, Confirmed', Charged),
         confirmed' \subseteq Token, confirmed \subseteq confirmed',
         UNCHANGED <<configured, rows, events, forms, charged, refunds, faults>>,
         overlapped' \in BOOLEAN
  PROVE  IInv'
<1>1. Confirmed \subseteq Confirmed' /\ Charged' = Charged
  BY DEF Confirmed, Charged, Of
<1>2. forms' = forms /\ rows' = rows /\ refunds' = refunds /\ events' = events
      /\ faults' = faults /\ charged' = charged /\ UNCHANGED configured
  OBVIOUS
<1>3. configured =>
        /\ TableBacked(rows, forms, Confirmed', Charged)
        /\ \A e \in events : EventBacked(e, Confirmed', Charged)
  BY <1>1, BackedStays DEF IInv, EverythingBacked
<1>4. \A g \in Handler : JobExists(jobs[g], rows)
  BY DEF IInv, CopiesExist
<1> QED
  BY <1>1, <1>2, <1>3, <1>4, StepKeeps DEF IInv, TypeOK, EverythingBacked

\* A callback saves a success only of a form whose lookup it has made.
LEMMA CallbackKeeps ==
  ASSUME IInv, NEW h \in Handler, NEW p \in Payment, NEW t \in Token,
         Callback(h, p, t), overlapped' \in BOOLEAN
  PROVE  IInv'
<1>1. /\ configured /\ rows[p] \in Row /\ rows[p].token = {t}
      /\ <<t, p>> \in forms /\ (Settled(rows[p]) => p \in Confirmed)
      /\ rows[p].ref => p \in Charged
  BY RowFacts DEF Callback
<1>2. UNCHANGED <<configured, rows, events, forms, charged, refunds, faults>>
  BY DEF Callback
<1>3. confirmed \subseteq Token
  BY DEF IInv, TypeOK
<1>4. CASE confirmed' = confirmed \cup {t}
           /\ SetJob(h, Save("pay", p, Paid(rows[p], t \in charged), Idle))
  <2> DEFINE ref == t \in charged
             ent == Paid(rows[p], ref)
  <2>1. p \in Confirmed' /\ ref \in BOOLEAN /\ (ref => p \in Charged)
    BY <1>1, <1>2, <1>4 DEF Confirmed, Charged, Of
  <2>6. SetJob(h, Save("pay", p, ent, Idle))
    BY <1>4
  <2> HIDE DEF ref
  <2>2. ent \in Row /\ ent.token = rows[p].token /\ ent.ref = ref
    <3>1. ent \in Row
      BY <1>1, <2>1, ChangesAreRows
    <3> QED  BY <1>1, <3>1 DEF Paid, Row
  <2> HIDE DEF ent
  <2> DEFINE job == Save("pay", p, ent, Idle)
  <2>3. job \in Job
    BY <2>2 DEF Save, Job, Saving, Op
  <2>4. JobExists(job, rows)
    BY DEF Save, JobExists, Idle
  <2>5. JobBacked(job, forms, Confirmed', Charged)
    BY <1>1, <2>1, <2>2 DEF Save, JobBacked, Idle
  <2>7. SetJob(h, job)
    BY <2>6
  <2> HIDE DEF job
  <2> QED  BY <1>2, <1>3, <1>4, <2>3, <2>4, <2>5, <2>7, AnswerKeeps
<1>5. CASE SetJob(h, Save("fail", p, [rows[p] EXCEPT !.status = "failed"], Idle))
           /\ UNCHANGED confirmed
  <2> DEFINE ent == [rows[p] EXCEPT !.status = "failed"]
  <2>1. ent \in Row
    BY <1>1, ChangesAreRows DEF Status
  <2>2. ent.token = {t} /\ (Settled(ent) => Settled(rows[p]))
        /\ ent.ref = rows[p].ref
    BY <1>1 DEF Settled, Row
  <2>3. SetJob(h, Save("fail", p, ent, Idle))
    BY <1>5
  <2> HIDE DEF ent
  <2>4. Begin(h, Save("fail", p, ent, Idle))
    BY <1>2, <1>5, <2>3 DEF Begin
  <2> QED  BY <1>1, <1>2, <2>1, <2>2, <2>4, SaveIsSound, BeginKeeps DEF Op
<1> QED  BY <1>4, <1>5 DEF Callback

\* Every request or message an execution begins with keeps the invariant.
LEMMA ArriveKeeps ==
  ASSUME IInv, NEW h \in Handler, Arrive(h),
         UNCHANGED configured, overlapped' \in BOOLEAN
  PROVE  IInv'
<1>1. CASE CreateTradePayments(h)
  BY <1>1, SimpleJobsAreSound, BeginKeeps DEF CreateTradePayments
<1>2. CASE ReleaseEscrow(h)
  <2> DEFINE held == {p \in OfTrade(rows) : rows[p].escrow = "held"}
  <2>1. Begin(h, Loop("release", rows, held))
    BY <1>2 DEF ReleaseEscrow
  <2>2. \A p \in held : Settled(rows[p])
    BY DEF Settled
  <2>3. held \subseteq Payment /\ SoundLoop(Loop("release", rows, held))
    BY <2>2, SettlingIsSound
  <2> QED  BY <2>1, <2>3, LoopIsSound, BeginKeeps DEF IInv, TypeOK
<1>3. CASE PartialRefund(h)
  <2> DEFINE paid == Refundable(rows)
  <2>1. Begin(h, Loop("partial", rows, paid))
    BY <1>3 DEF PartialRefund
  <2>2. /\ paid \in SUBSET OfTrade(rows)
        /\ \A p \in paid : Settled(rows[p]) /\ rows[p].ref
    BY DEF Settled, Refundable
  <2> HIDE DEF paid
  <2>3. paid \subseteq Payment /\ SoundLoop(Loop("partial", rows, paid))
    BY <2>2, SettlingIsSound
  <2> QED  BY <2>1, <2>3, LoopIsSound, BeginKeeps DEF IInv, TypeOK
<1>4. CASE Refund(h)
  <2> DEFINE all == OfTrade(rows)
             paid == Refundable(rows)
             job == [at |-> "refund", held |-> all, todo |-> paid, done |-> {}]
  <2>1. Begin(h, job)
    BY <1>4 DEF Refund
  <2>2. /\ paid \in SUBSET OfTrade(rows)
        /\ \A p \in paid : Settled(rows[p]) /\ rows[p].ref
    BY DEF Settled, Refundable
  <2> HIDE DEF paid
  <2>3. /\ paid \subseteq Payment /\ \A p \in paid : Exists(rows[p])
        /\ configured => paid \subseteq Confirmed /\ paid \subseteq Charged
    BY <2>2, SettlingIsSound
  <2>4. all \subseteq Payment
    BY DEF OfTrade
  <2>5. job \in Job
    BY <2>3, <2>4 DEF Job, Refunding
  <2>6. Sound(job)
    BY <2>2, <2>3 DEF Sound, JobExists, JobBacked, Saves
  <2> QED  BY <2>1, <2>5, <2>6, BeginKeeps
<1>5. ASSUME NEW u \in Party, CreateInsurance(h, u)
      PROVE  IInv'
  BY <1>5, SimpleJobsAreSound, BeginKeeps DEF CreateInsurance
<1>6. ASSUME NEW u \in Party, CreateBoost(h, u)
      PROVE  IInv'
  BY <1>6, InsertOneKeeps DEF CreateBoost, Type
<1>7. ASSUME NEW p \in Payment, CancelInsurance(h, p)
      PROVE  IInv'
  BY <1>7, SimpleJobsAreSound, BeginKeeps DEF CancelInsurance
<1>8. ASSUME NEW p \in Payment, Checkout(h, p)
      PROVE  IInv'
  <2>1. PICK t \in Token :
          Begin(h, Save("checkout", p,
                  [rows[p] EXCEPT !.status = "processing", !.token = {t}], Idle))
    BY <1>8 DEF Checkout
  <2> DEFINE ent == [rows[p] EXCEPT !.status = "processing", !.token = {t}]
  <2>2. rows[p] \in Row /\ ent \in Row
    BY <1>8, RowFacts, ChangesAreRows DEF Checkout
  <2>3. /\ ent.escrow = rows[p].escrow /\ ent.status = "processing"
        /\ ent.ref = rows[p].ref
    BY <2>2 DEF Row
  <2>4. configured => /\ (Settled(ent) => p \in Confirmed)
                      /\ (ent.ref => p \in Charged)
    BY <2>3, <1>8, RowFacts DEF Settled, Checkout
  <2> QED  BY <2>1, <2>2, <2>4, SaveIsSound, BeginKeeps DEF Op
<1>9. ASSUME NEW p \in Payment, Simulate(h, p)
      PROVE  IInv'
  <2>1. Paid(rows[p], TRUE) \in Row
    BY <1>9, RowFacts, ChangesAreRows DEF Simulate
  <2> QED  BY <1>9, <2>1, SaveIsSound, BeginKeeps DEF Op, Simulate
<1>10. ASSUME NEW p \in Payment, NEW t \in Token, Callback(h, p, t)
       PROVE  IInv'
  BY <1>10, CallbackKeeps
<1> QED
  BY <1>1, <1>2, <1>3, <1>4, <1>5, <1>6, <1>7, <1>8, <1>9, <1>10 DEF Arrive

----------------------------------------------------------------------------
(* The steps of an execution already in flight.                            *)

\* What the invariant says of one execution.
LEMMA JobFacts ==
  ASSUME IInv, NEW h \in Handler
  PROVE  jobs[h] \in Job /\ Sound(jobs[h])
  BY DEF IInv, TypeOK, CopiesExist, EverythingBacked, Sound

\* Deleting a row that no refund has locked keeps the invariant.
LEMMA RemoveKeeps ==
  ASSUME IInv, NEW h \in Handler, Remove(h),
         UNCHANGED configured, overlapped' \in BOOLEAN
  PROVE  IInv'
<1> DEFINE p == jobs[h].pay
<1>1. p \in Payment /\ ~Locked(p) /\ rows' = [rows EXCEPT ![p] = Deleted]
  BY JobFacts, Shapes DEF Remove
<1>2. rows \in Table /\ jobs \in [Handler -> Job]
  BY DEF IInv, TypeOK
<1>3. rows' \in Table
  BY <1>1, <1>2 DEF Table
<1>4. \A q \in Payment : rows'[q] = IF q = p THEN Deleted ELSE rows[q]
  BY <1>1, <1>2 DEF Table
<1>5. ASSUME NEW g \in Handler
      PROVE  JobExists(jobs[g], rows')
  <2>1. jobs[g] \in Job /\ JobExists(jobs[g], rows)
    BY <1>2 DEF IInv, CopiesExist
  <2>2. jobs[g].at = "refund" => p \notin jobs[g].held
    BY <1>1 DEF Locked
  <2>3. jobs[g].at = "refund" => jobs[g].todo \cup jobs[g].done \subseteq Payment
    BY <2>1, Shapes DEF Refunding
  <2> QED  BY <2>1, <2>2, <2>3, <1>4 DEF JobExists
<1>6. Confirmed' = Confirmed /\ Charged' = Charged
  BY DEF Remove, Confirmed, Charged, Of
<1>7. configured => TableBacked(rows', forms', Confirmed', Charged')
  BY <1>4, <1>6 DEF IInv, EverythingBacked, TableBacked, RowBacked, Exists, Remove
<1>8. JobExists(Idle, rows') /\ JobBacked(Idle, forms', Confirmed', Charged')
  BY DEF Idle, JobExists, JobBacked, Saves
<1>9. SetJob(h, Idle) /\ Idle \in Job
  BY SimpleJobsAreSound DEF Remove
<1> QED
  BY <1>3, <1>5, <1>6, <1>7, <1>8, <1>9, StepKeeps
     DEF Remove, IInv, TypeOK, EverythingBacked

\* The next payment of a loop is saved, and the loop goes on with the rest.
LEMMA RestIsSound ==
  ASSUME IInv, NEW h \in Handler, NEW p \in jobs[h].todo, jobs[h].at = "next"
  PROVE  LET j == jobs[h]
             rest == Loop(j.op, j.copy, j.todo \ {p})
         IN /\ j.op \in {"release", "partial"} /\ p \in Payment
            /\ j.copy[p] \in Row
            /\ configured => /\ p \in Confirmed
                              /\ (j.copy[p].ref => p \in Charged)
                              /\ (j.op = "partial" => p \in Charged)
                              /\ \A t \in j.copy[p].token : <<t, p>> \in forms
            /\ rest \in Looping /\ rest \in Job /\ SoundLoop(rest) /\ Sound(rest)
<1> DEFINE j == jobs[h]
           rest == Loop(j.op, j.copy, j.todo \ {p})
<1>1. j \in Looping /\ LoopExists(j)
      /\ (configured => LoopBacked(j, forms, Confirmed, Charged))
  BY JobFacts, Shapes DEF Sound, JobExists, JobBacked
<1>2. /\ j.op \in {"release", "partial"} /\ j.copy \in Table
      /\ j.todo \subseteq Payment
  BY <1>1 DEF Looping
<1>3. Exists(j.copy[p]) /\ j.copy[p] \in Row
  BY <1>1, <1>2, ExistingIsRow DEF LoopExists, Table
<1>4. configured => /\ p \in Confirmed
                    /\ (j.copy[p].ref => p \in Charged)
                    /\ (j.op = "partial" => p \in Charged)
                    /\ \A t \in j.copy[p].token : <<t, p>> \in forms
  BY <1>1, <1>2, <1>3 DEF LoopBacked, TableBacked, RowBacked
<1>5. SoundLoop(rest)
  BY <1>1 DEF SoundLoop, Loop, LoopExists, LoopBacked
<1> QED  BY <1>2, <1>3, <1>4, <1>5, LoopIsSound

\* A step that may ask the provider for a refund of a charged payment.
LEMMA ProviderStepKeeps ==
  ASSUME IInv, NEW h \in Handler, NEW job \in Job, Sound(job), SetJob(h, job),
         NEW p \in Payment, configured => p \in Charged,
         ProviderRefund(p) \/ UNCHANGED refunds,
         UNCHANGED <<rows, events, forms, charged, confirmed, faults>>,
         UNCHANGED configured, overlapped' \in BOOLEAN
  PROVE  IInv'
<1>1. Confirmed' = Confirmed /\ Charged' = Charged
  BY DEF Confirmed, Charged, Of
<1>2. refunds \in [Payment -> 0 .. MaxRefunds]
  BY DEF IInv, TypeOK
<1>3. /\ refunds' \in [Payment -> 0 .. MaxRefunds]
      /\ \A q \in Payment : q # p => refunds'[q] = refunds[q]
  BY <1>2 DEF ProviderRefund
<1>4. configured => \A q \in Payment : refunds'[q] > 0 => q \in Charged
  BY <1>3 DEF IInv, EverythingBacked
<1>5. \A g \in Handler : JobExists(jobs[g], rows')
  BY DEF IInv, CopiesExist
<1>6. JobExists(job, rows') /\ (configured => JobBacked(job, forms', Confirmed', Charged'))
  BY <1>1 DEF Sound
<1> QED
  BY <1>1, <1>3, <1>4, <1>5, <1>6, StepKeeps DEF IInv, TypeOK, EverythingBacked

\* One payment of a loop or of a refund.
LEMMA SettleOneKeeps ==
  ASSUME IInv, NEW h \in Handler, NEW p \in Payment,
         ReleaseOne(h, p) \/ RefundPart(h, p) \/ RefundOne(h, p),
         UNCHANGED configured, overlapped' \in BOOLEAN
  PROVE  IInv'
<1> DEFINE j == jobs[h]
           rest == Loop(j.op, j.copy, j.todo \ {p})
<1>1. CASE ReleaseOne(h, p)
  <2> DEFINE ent == [j.copy[p] EXCEPT !.escrow = "released"]
  <2>1. /\ j.copy[p] \in Row /\ rest \in Looping /\ SoundLoop(rest)
        /\ configured => /\ p \in Confirmed
                          /\ (j.copy[p].ref => p \in Charged)
                          /\ \A t \in j.copy[p].token : <<t, p>> \in forms
    BY <1>1, RestIsSound DEF ReleaseOne
  <2>2. ent \in Row /\ ent.token = j.copy[p].token /\ ent.ref = j.copy[p].ref
    BY <2>1, ChangesAreRows DEF Row
  <2>3. Begin(h, Save("release", p, ent, rest))
    BY <1>1 DEF ReleaseOne
  <2> HIDE DEF ent
  <2> QED  BY <2>1, <2>2, <2>3, SaveIsSound, BeginKeeps DEF Op
<1>2. CASE RefundPart(h, p)
  <2>1. /\ j.copy[p] \in Row /\ SoundLoop(rest)
        /\ rest \in Looping /\ rest \in Job /\ Sound(rest)
        /\ configured => /\ p \in Confirmed /\ p \in Charged
                          /\ \A t \in j.copy[p].token : <<t, p>> \in forms
    BY <1>2, RestIsSound DEF RefundPart
  <2>2. CASE SetJob(h, rest) /\ UNCHANGED refunds
    BY <1>2, <2>1, <2>2, ProviderStepKeeps DEF RefundPart
  <2>3. ASSUME NEW status \in {"refunded", "partial_refund"},
               SetJob(h, Save("partial", p,
                           [j.copy[p] EXCEPT !.status = status,
                                             !.escrow = "refunded"], rest)),
               ProviderRefund(p)
        PROVE  IInv'
    <3> DEFINE ent == [j.copy[p] EXCEPT !.status = status, !.escrow = "refunded"]
    <3>1. ent \in Row /\ ent.token = j.copy[p].token
      BY <2>1 DEF Row, Status
    <3>2. SetJob(h, Save("partial", p, ent, rest))
      BY <2>3
    <3> HIDE DEF ent
    <3>3. Save("partial", p, ent, rest) \in Job
          /\ Sound(Save("partial", p, ent, rest))
      BY <2>1, <3>1, SaveIsSound DEF Op
    <3> QED  BY <1>2, <2>1, <2>3, <3>2, <3>3, ProviderStepKeeps DEF RefundPart
  <2> QED  BY <1>2, <2>2, <2>3 DEF RefundPart
<1>3. CASE RefundOne(h, p)
  <2>1. /\ j \in Refunding /\ j.at = "refund" /\ p \in j.todo
        /\ Sound(j)
    BY <1>3, JobFacts, Shapes DEF RefundOne
  <2> DEFINE skipped == [j EXCEPT !.todo = @ \ {p}]
             made == [j EXCEPT !.todo = @ \ {p}, !.done = @ \cup {p}]
  <2>2. /\ skipped \in Refunding /\ skipped.held = j.held
        /\ skipped.todo = j.todo \ {p} /\ skipped.done = j.done
        /\ skipped.at = "refund"
    BY <2>1 DEF Refunding
  <2>3. /\ made \in Refunding /\ made.held = j.held
        /\ made.todo = j.todo \ {p} /\ made.done = j.done \cup {p}
        /\ made.at = "refund"
    BY <2>1 DEF Refunding
  <2>4. \/ SetJob(h, made) /\ ProviderRefund(p)
        \/ SetJob(h, skipped) /\ UNCHANGED refunds
    BY <1>3 DEF RefundOne
  <2> HIDE DEF skipped, made
  <2>5. skipped \in Job /\ Sound(skipped) /\ made \in Job /\ Sound(made)
    BY <2>1, <2>2, <2>3 DEF Job, Sound, JobExists, JobBacked, Saves
  <2>6. configured => p \in Charged
    BY <2>1 DEF Sound, JobBacked
  <2>7. UNCHANGED <<rows, events, forms, charged, confirmed, faults>>
    BY <1>3 DEF RefundOne
  <2> QED  BY <2>4, <2>5, <2>6, <2>7, ProviderStepKeeps
<1> QED  BY <1>1, <1>2, <1>3

\* A refund that commits.
LEMMA CommitRefundKeeps ==
  ASSUME IInv, NEW h \in Handler, CommitRefund(h),
         UNCHANGED configured, overlapped' \in BOOLEAN
  PROVE  IInv'
<1> DEFINE j == jobs[h]
<1>1. j \in Refunding /\ Sound(j) /\ j.at = "refund"
  BY JobFacts, Shapes DEF CommitRefund
<1>2. /\ j.done \subseteq Payment
      /\ \A p \in j.done : Exists(rows[p])
      /\ configured => j.done \subseteq Confirmed /\ j.done \subseteq Charged
  BY <1>1 DEF Refunding, Sound, JobExists, JobBacked
<1>3. \A p \in j.done : rows[p] \in Row /\ Refunded(p) \in Row
                         /\ Refunded(p).token = rows[p].token
                         /\ Refunded(p).ref = rows[p].ref
  <2>1. SUFFICES ASSUME NEW p \in j.done
                 PROVE  rows[p] \in Row /\ Refunded(p) \in Row
                        /\ Refunded(p).token = rows[p].token
                        /\ Refunded(p).ref = rows[p].ref
    OBVIOUS
  <2>2. rows[p] \in Row
    BY <1>2, RowFacts
  <2> QED  BY <2>2 DEF Refunded, Row, Status
<1>4. \A p \in Payment : rows'[p] = IF p \in j.done THEN Refunded(p) ELSE rows[p]
  BY DEF CommitRefund
<1>5. rows' \in Table
  <2>1. \A p \in Payment : rows[p] \in Row \cup {Unused, Deleted}
    BY DEF IInv, TypeOK, Table
  <2>2. rows' = [p \in Payment |-> IF p \in j.done THEN Refunded(p) ELSE rows[p]]
    BY DEF CommitRefund
  <2> QED  BY <1>3, <2>1, <2>2 DEF Table
<1>6. \A g \in Handler : JobExists(jobs[g], rows')
  BY <1>3, <1>4, RowsStay, ExistingIsRow
<1>7. Confirmed' = Confirmed /\ Charged' = Charged
  BY DEF CommitRefund, Confirmed, Charged, Of
<1>8. configured => TableBacked(rows', forms', Confirmed', Charged')
  BY <1>2, <1>3, <1>4, <1>7, RowFacts
     DEF TableBacked, RowBacked, CommitRefund, IInv, EverythingBacked
<1>9. /\ events' \subseteq [key : Key, pay : Payment, all : BOOLEAN]
      /\ configured => \A e \in events' : EventBacked(e, Confirmed', Charged')
  <2>1. /\ events \subseteq [key : Key, pay : Payment, all : BOOLEAN]
        /\ configured => \A e \in events : EventBacked(e, Confirmed, Charged)
    BY DEF IInv, TypeOK, EverythingBacked
  <2>2. ASSUME NEW p \in j.done
        PROVE  /\ Event("payment.refunded", p, FALSE)
                    \in [key : Key, pay : Payment, all : BOOLEAN]
               /\ configured => EventBacked(Event("payment.refunded", p, FALSE),
                                            Confirmed, Charged)
    BY <1>2 DEF Event, Key, EventBacked
  <2>3. events' = events \cup {Event("payment.refunded", p, FALSE) : p \in j.done}
    BY DEF CommitRefund
  <2> QED  BY <1>7, <2>1, <2>2, <2>3
<1>10. JobExists(Idle, rows') /\ JobBacked(Idle, forms', Confirmed', Charged')
  BY DEF Idle, JobExists, JobBacked, Saves
<1>11. SetJob(h, Idle) /\ Idle \in Job
  BY SimpleJobsAreSound DEF CommitRefund
<1>12. /\ refunds' = refunds /\ forms' = forms /\ charged' = charged
       /\ confirmed' = confirmed /\ faults' = faults
  BY DEF CommitRefund
<1>13. /\ forms \subseteq Token \X Payment /\ charged \subseteq Token
       /\ confirmed \subseteq Token
       /\ refunds \in [Payment -> 0 .. MaxRefunds] /\ faults \in 0 .. MaxFaults
       /\ configured => \A p \in Payment : refunds[p] > 0 => p \in Charged
  BY DEF IInv, TypeOK, EverythingBacked
<1> QED
  BY <1>5, <1>6, <1>7, <1>8, <1>9, <1>10, <1>11, <1>12, <1>13, StepKeeps

\* The SELECT of a save, and the query for the user's other payments.
LEMMA ReadKeeps ==
  ASSUME IInv, NEW h \in Handler, Load(h) \/ Check(h),
         UNCHANGED configured, overlapped' \in BOOLEAN
  PROVE  IInv'
<1> DEFINE j == jobs[h]
<1>1. j \in Saving /\ Sound(j)
  BY JobFacts, Shapes DEF Load, Check, Saves
<1>2. j.pay \in Payment /\ rows[j.pay] \in Row \cup {Unused, Deleted}
  BY <1>1, RowFacts DEF Saving
<1>3. ASSUME NEW job \in Saving, job.op = j.op, job.pay = j.pay, job.ent = j.ent,
             job.then = j.then, Begin(h, job)
      PROVE  IInv'
  <2>1. Saves(j) /\ Saves(job) /\ job.at \notin {"next", "refund"}
    BY <1>1, <1>3 DEF Saving, Saves
  <2>2. Sound(job)
    BY <1>1, <1>3, <2>1 DEF Sound, JobExists, JobBacked
  <2> QED  BY <1>3, <2>2, BeginKeeps DEF Job
<1>4. CASE Load(h)
  <2> DEFINE next == IF j.op \in {"pay", "simulate"} THEN "check" ELSE "update"
             job == [j EXCEPT !.base = rows[j.pay], !.at = next]
  <2>1. /\ job \in Saving /\ job.op = j.op /\ job.pay = j.pay
        /\ job.ent = j.ent /\ job.then = j.then
    BY <1>1, <1>2 DEF Saving
  <2>2. Begin(h, job)
    BY <1>4 DEF Load
  <2> HIDE DEF job
  <2> QED  BY <1>3, <2>1, <2>2
<1>5. CASE Check(h)
  <2>1. PICK all \in BOOLEAN : Begin(h, [j EXCEPT !.at = "commit", !.all = all])
    <3> DEFINE seen == IF j.op = "pay" THEN [rows EXCEPT ![j.pay] = Written(j)]
                       ELSE rows
               last == \/ j.ent.type = "listing_boost"
                       \/ AllComplete(seen, j.ent.user)
    <3>1. last \in BOOLEAN
      BY DEF AllComplete
    <3>2. Begin(h, [j EXCEPT !.at = "commit", !.all = last])
      BY <1>5 DEF Check
    <3> HIDE DEF last
    <3> QED  BY <3>1, <3>2
  <2> DEFINE job == [j EXCEPT !.at = "commit", !.all = all]
  <2>2. /\ job \in Saving /\ job.op = j.op /\ job.pay = j.pay
        /\ job.ent = j.ent /\ job.then = j.then
    BY <1>1 DEF Saving
  <2>3. Begin(h, job)
    BY <2>1
  <2> HIDE DEF job
  <2> QED  BY <1>3, <2>2, <2>3
<1> QED  BY <1>4, <1>5

\* What an execution goes on with after a save is sound whatever the table is.
LEMMA ThenIsSound ==
  ASSUME IInv, NEW h \in Handler, Saves(jobs[h])
  PROVE  /\ jobs[h].then \in Job
         /\ \A table : JobExists(jobs[h].then, table)
         /\ configured => JobBacked(jobs[h].then, forms, Confirmed, Charged)
<1> DEFINE j == jobs[h]
<1>1. j \in Saving /\ Sound(j) /\ Saves(j)
  BY JobFacts, Shapes
<1>2. CASE j.then = Idle
  BY <1>2, SimpleJobsAreSound DEF Idle, JobExists, JobBacked, Saves
<1>3. CASE j.then # Idle
  <2>1. j.then \in Looping /\ j.then \in Job
    BY <1>1, <1>3 DEF Saving, Job
  <2>2. LoopExists(j.then) /\ (configured => LoopBacked(j.then, forms, Confirmed, Charged))
    BY <1>1, <1>3 DEF Sound, JobExists, JobBacked
  <2> QED  BY <2>1, <2>2 DEF JobExists, JobBacked, Looping, Saves
<1> QED  BY <1>2, <1>3

\* What a save writes is backed: each of its columns is one of the row, which
\* is backed, or one of the copy, whose checkout form is given out with it.
LEMMA WrittenIsBacked ==
  ASSUME IInv, NEW h \in Handler, Saves(jobs[h]), configured
  PROVE  LET j == jobs[h]
         IN RowBacked(j.pay, Written(j), forms \cup FormsOf(j), Confirmed, Charged)
<1> DEFINE j == jobs[h]
           p == j.pay
           row == rows[p]
           given == forms \cup FormsOf(j)
<1>1. j \in Saving /\ Sound(j) /\ Saves(j)
  BY JobFacts, Shapes
<1>2. p \in Payment /\ j.ent \in Row
  BY <1>1 DEF Saving
<1>3. /\ Settled(j.ent) => p \in Confirmed
      /\ j.ent.ref => p \in Charged
      /\ \A t \in j.ent.token : <<t, p>> \in given
  BY <1>1 DEF Sound, JobBacked, FormsOf
<1>4. Exists(row) => /\ row \in Row
                     /\ Settled(row) => p \in Confirmed
                     /\ row.ref => p \in Charged
                     /\ \A t \in row.token : <<t, p>> \in given
  BY <1>2, RowFacts
<1>5. CASE ~Exists(j.base)
  BY <1>3, <1>5 DEF RowBacked, Written
<1>6. CASE Exists(j.base) /\ ~Exists(row)
  BY <1>6 DEF RowBacked, Written
<1>7. CASE Exists(j.base) /\ Exists(row)
  <2> DEFINE new == Merge(row, j.base, j.ent)
  <2>1. Written(j) = new
    BY <1>7 DEF Written
  <2>2. /\ new.status \in {row.status, j.ent.status}
        /\ new.escrow \in {row.escrow, j.ent.escrow}
        /\ new.token \in {row.token, j.ent.token}
        /\ new.ref \in {row.ref, j.ent.ref}
    BY <1>2 DEF Merge, Changed, Row
  <2>3. Settled(new) => Settled(row) \/ Settled(j.ent)
    BY <2>2 DEF Settled
  <2> QED  BY <1>3, <1>4, <1>7, <2>1, <2>2, <2>3 DEF RowBacked
<1> QED  BY <1>5, <1>6, <1>7

\* Only a save that settles a confirmed payment writes an event, and only one
\* that refunds a charged payment announces a refund.
LEMMA EventsAreBacked ==
  ASSUME IInv, NEW h \in Handler, Saves(jobs[h])
  PROVE  /\ EventsOf(jobs[h]) \subseteq [key : Key, pay : Payment, all : BOOLEAN]
         /\ FormsOf(jobs[h]) \subseteq Token \X Payment
         /\ configured => \A e \in EventsOf(jobs[h]) :
              EventBacked(e, Confirmed, Charged)
<1> DEFINE j == jobs[h]
<1>1. j \in Saving /\ Sound(j) /\ Saves(j)
  BY JobFacts, Shapes
<1>2. j.pay \in Payment /\ j.all \in BOOLEAN /\ j.ent.token \subseteq Token
  BY <1>1 DEF Saving, Row
<1>3. FormsOf(j) \subseteq Token \X Payment
  BY <1>2 DEF FormsOf
<1>4. \A key \in Key, all \in BOOLEAN :
        /\ Event(key, j.pay, all) \in [key : Key, pay : Payment, all : BOOLEAN]
        /\ Event(key, j.pay, all).pay = j.pay /\ Event(key, j.pay, all).key = key
  BY <1>2 DEF Event
<1>5. \A e \in EventsOf(j) :
        /\ e \in [key : Key, pay : Payment, all : BOOLEAN]
        /\ e.pay = j.pay /\ j.op \notin {"checkout", "fail"}
        /\ e.key = "payment.refunded" => j.op = "partial"
  <2> DEFINE announced(all) ==
               {Event("payment.succeeded", j.pay, all),
                Event("payment.boost_succeeded", j.pay, all)}
  <2>1. CASE j.op \in {"pay", "simulate"}
    <3>1. EventsOf(j) \subseteq announced(j.all)
      BY <2>1 DEF EventsOf
    <3> QED  BY <1>2, <1>4, <2>1, <3>1 DEF Key
  <2>2. CASE j.op = "release"
    <3>1. EventsOf(j) = {Event("payment.released", j.pay, FALSE)}
      BY <2>2 DEF EventsOf
    <3> QED  BY <1>4, <2>2, <3>1 DEF Key
  <2>3. CASE j.op = "partial"
    <3>1. EventsOf(j) = {Event("payment.refunded", j.pay, FALSE)}
      BY <2>3 DEF EventsOf
    <3> QED  BY <1>4, <2>3, <3>1 DEF Key
  <2>4. CASE j.op \in {"checkout", "fail"}
    <3>1. EventsOf(j) = {}
      BY <2>4 DEF EventsOf
    <3> QED  BY <3>1
  <2>5. j.op \in Op
    BY <1>1 DEF Saving
  <2> QED  BY <2>1, <2>2, <2>3, <2>4, <2>5 DEF Op
<1>6. configured =>
        /\ (j.op \notin {"checkout", "fail"} => j.pay \in Confirmed)
        /\ (j.op = "partial" => j.pay \in Charged)
  BY <1>1 DEF Sound, JobBacked
<1>7. ASSUME NEW e \in EventsOf(j), configured
      PROVE  EventBacked(e, Confirmed, Charged)
  BY <1>5, <1>6, <1>7 DEF EventBacked
<1> QED  BY <1>3, <1>5, <1>7

\* The UPDATE and the COMMIT of a save.
LEMMA UpdateKeeps ==
  ASSUME IInv, NEW h \in Handler, Update(h),
         UNCHANGED configured, overlapped' \in BOOLEAN
  PROVE  IInv'
<1> DEFINE j == jobs[h]
<1>1. j \in Saving /\ Saves(j)
  BY JobFacts, Shapes DEF Update, Saves
<1>2. /\ j.pay \in Payment /\ rows \in Table
      /\ Written(j) \in Row \cup {Unused, Deleted}
      /\ Exists(rows[j.pay]) => Exists(Written(j))
  BY <1>1, WrittenIsRow DEF Saving, IInv, TypeOK
<1>3. /\ rows' = [rows EXCEPT ![j.pay] = Written(j)]
      /\ events' = events \cup EventsOf(j) /\ forms' = forms \cup FormsOf(j)
      /\ SetJob(h, j.then)
      /\ charged' = charged /\ confirmed' = confirmed /\ refunds' = refunds
      /\ faults' = faults
  BY DEF Update
<1>4. \A p \in Payment : rows'[p] = IF p = j.pay THEN Written(j) ELSE rows[p]
  BY <1>2, <1>3 DEF Table
<1>5. rows' \in Table
  BY <1>2, <1>3 DEF Table
<1>6. \A g \in Handler : JobExists(jobs[g], rows')
  BY <1>2, <1>4, RowsStay
<1>7. Confirmed \subseteq Confirmed' /\ Charged \subseteq Charged'
  BY <1>3 DEF Confirmed, Charged, Of
<1>8. configured => TableBacked(rows', forms', Confirmed', Charged')
  <2> SUFFICES ASSUME configured PROVE TableBacked(rows', forms', Confirmed', Charged')
    OBVIOUS
  <2>1. RowBacked(j.pay, Written(j), forms', Confirmed, Charged)
    BY <1>1, <1>3, WrittenIsBacked
  <2>2. \A p \in Payment : RowBacked(p, rows[p], forms, Confirmed, Charged)
    BY DEF IInv, EverythingBacked, TableBacked
  <2>3. forms \subseteq forms'
    BY <1>3
  <2>4. \A p \in Payment : RowBacked(p, rows'[p], forms', Confirmed', Charged')
    BY <1>4, <1>7, <2>1, <2>2, <2>3 DEF RowBacked
  <2> QED  BY <2>4 DEF TableBacked
<1>9. j.then \in Job /\ JobExists(j.then, rows')
      /\ (configured => JobBacked(j.then, forms', Confirmed', Charged'))
  <2>1. /\ j.then \in Job /\ JobExists(j.then, rows')
        /\ configured => JobBacked(j.then, forms, Confirmed, Charged)
    BY <1>1, ThenIsSound
  <2>2. forms \subseteq forms'
    BY <1>3
  <2>3. JobBacked(j.then, forms, Confirmed, Charged)
          => JobBacked(j.then, forms', Confirmed', Charged')
    BY <1>7, <2>2, BackedStays
  <2> QED  BY <2>1, <2>3
<1>10. /\ events' \subseteq [key : Key, pay : Payment, all : BOOLEAN]
       /\ forms' \subseteq Token \X Payment
       /\ configured => \A e \in events' : EventBacked(e, Confirmed', Charged')
  <2>1. /\ events \subseteq [key : Key, pay : Payment, all : BOOLEAN]
        /\ forms \subseteq Token \X Payment
        /\ configured => \A e \in events : EventBacked(e, Confirmed, Charged)
    BY DEF IInv, TypeOK, EverythingBacked
  <2>2. /\ EventsOf(j) \subseteq [key : Key, pay : Payment, all : BOOLEAN]
        /\ FormsOf(j) \subseteq Token \X Payment
        /\ configured => \A e \in EventsOf(j) : EventBacked(e, Confirmed, Charged)
    BY <1>1, EventsAreBacked
  <2>3. \A e : EventBacked(e, Confirmed, Charged)
                => EventBacked(e, Confirmed', Charged')
    BY <1>3, <1>7, BackedStays
  <2> QED  BY <1>3, <2>1, <2>2, <2>3
<1>11. /\ charged \subseteq Token /\ confirmed \subseteq Token
       /\ refunds \in [Payment -> 0 .. MaxRefunds] /\ faults \in 0 .. MaxFaults
       /\ configured => \A p \in Payment : refunds[p] > 0 => p \in Charged
  BY DEF IInv, TypeOK, EverythingBacked
<1> QED
  BY <1>3, <1>5, <1>6, <1>7, <1>8, <1>9, <1>10, <1>11, StepKeeps

\* An execution that dies leaves the tables as they are.
LEMMA FaultKeeps ==
  ASSUME IInv, NEW h \in Handler, Fault(h),
         UNCHANGED configured, overlapped' \in BOOLEAN
  PROVE  IInv'
<1>1. PICK job \in Job : /\ SetJob(h, job) /\ JobExists(job, rows)
                         /\ configured => JobBacked(job, forms, Confirmed, Charged)
  BY SimpleJobsAreSound, ThenIsSound DEF Fault, Sound
<1>2. faults' \in 0 .. MaxFaults
  BY DEF Fault, IInv, TypeOK
<1>3. UNCHANGED <<rows, events, forms, charged, confirmed, refunds>>
  BY DEF Fault
<1>4. Confirmed' = Confirmed /\ Charged' = Charged
  BY <1>3 DEF Confirmed, Charged, Of
<1> QED
  BY <1>1, <1>2, <1>3, <1>4, StepKeeps
     DEF IInv, TypeOK, CopiesExist, EverythingBacked

\* A user who pays only adds to the charges.
LEMMA PayKeeps ==
  ASSUME IInv, NEW f \in forms, Pay(f),
         UNCHANGED configured, overlapped' \in BOOLEAN
  PROVE  IInv'
<1>1. /\ charged' = charged \cup {f[1]}
      /\ UNCHANGED <<rows, jobs, events, forms, confirmed, refunds, faults>>
  BY DEF Pay
<1>2. f[1] \in Token
  BY DEF IInv, TypeOK
<1>3. TypeOK' /\ CopiesExist'
  BY <1>1, <1>2 DEF IInv, TypeOK, CopiesExist
<1>4. Confirmed \subseteq Confirmed' /\ Charged \subseteq Charged'
  BY <1>1 DEF Confirmed, Charged, Of
<1>5. EverythingBacked'
  BY <1>1, <1>4, BackedStays DEF IInv, EverythingBacked
<1> QED  BY <1>3, <1>5 DEF IInv

\* Every step of an execution already in flight keeps the invariant.
LEMMA ProceedKeeps ==
  ASSUME IInv, NEW h \in Handler, Proceed(h),
         UNCHANGED configured, overlapped' \in BOOLEAN
  PROVE  IInv'
<1>1. CASE InsertFees(h)
  <2>1. PICK ids \in SUBSET Fresh :
          \E owner \in Bijection(ids, Party) : Insert(h, owner, "trade_fee")
    BY <1>1 DEF InsertFees
  <2>2. PICK owner \in Bijection(ids, Party) : Insert(h, owner, "trade_fee")
    BY <2>1
  <2>3. owner \in [ids -> Party]
    BY DEF Bijection, Injection
  <2> QED  BY <2>2, <2>3, InsertKeeps DEF Type
<1>2. CASE InsertInsurance(h)
  <2>1. jobs[h].user \in Party
    BY <1>2, JobFacts, Shapes DEF InsertInsurance
  <2> QED  BY <1>2, <2>1, InsertOneKeeps DEF InsertInsurance, Type
<1>3. CASE EndLoop(h)
  BY <1>3, SimpleJobsAreSound, BeginKeeps DEF EndLoop
<1> QED
  BY <1>1, <1>2, <1>3, RemoveKeeps, ReadKeeps, UpdateKeeps, CommitRefundKeeps,
     SettleOneKeeps DEF Proceed

\* No step of an execution sets or removes the provider's keys.
LEMMA KeysStay ==
  ASSUME NEW h \in Handler, Arrive(h) \/ Proceed(h) \/ Fault(h)
  PROVE  UNCHANGED configured
<1>1. CASE Arrive(h)
  BY <1>1
     DEF Arrive, CreateTradePayments, ReleaseEscrow, Refund, PartialRefund,
         CreateInsurance, CreateBoost, CancelInsurance, Checkout, Simulate,
         Callback, Insert, Begin
<1>2. CASE Proceed(h)
  BY <1>2
     DEF Proceed, InsertFees, InsertInsurance, Remove, Load, Check, Update,
         EndLoop, CommitRefund, ReleaseOne, RefundPart, RefundOne, Insert, Begin
<1>3. CASE Fault(h)
  BY <1>3 DEF Fault
<1> QED  BY <1>1, <1>2, <1>3

----------------------------------------------------------------------------
(* The theorems.                                                           *)

\* The invariant holds at first and every step keeps it.
LEMMA Inductive == Spec => []IInv
<1>1. Init => IInv
  <2> SUFFICES ASSUME Init PROVE IInv
    OBVIOUS
  <2>1. TypeOK
    <3>1. rows \in Table
      BY DEF Init, Table
    <3>2. jobs \in [Handler -> Job]
      BY SimpleJobsAreSound DEF Init
    <3>3. refunds \in [Payment -> 0 .. MaxRefunds] /\ faults \in 0 .. MaxFaults
      BY DEF Init
    <3> QED  BY <3>1, <3>2, <3>3 DEF Init, TypeOK
  <2>2. \A h \in Handler : JobExists(jobs[h], rows) /\ JobBacked(jobs[h], forms, Confirmed, Charged)
    BY DEF Init, Idle, JobExists, JobBacked, Saves
  <2>3. TableBacked(rows, forms, Confirmed, Charged)
    BY DEF Init, TableBacked, RowBacked, Exists
  <2> QED  BY <2>1, <2>2, <2>3 DEF Init, IInv, CopiesExist, EverythingBacked
<1>2. IInv /\ [Next]_vars => IInv'
  <2> SUFFICES ASSUME IInv, [Next]_vars PROVE IInv'
    OBVIOUS
  <2> overlapped' \in BOOLEAN
    <3>1. overlapped \in BOOLEAN
      BY DEF IInv, TypeOK
    <3>2. CASE overlapped' = (overlapped \/ ~OneAtATime')
      BY <3>2, Zenon
    <3> QED  BY <3>1, <3>2, SMT DEF Next, vars
  <2>1. CASE UNCHANGED vars
    BY <2>1 DEF vars, IInv, TypeOK, CopiesExist, EverythingBacked, Confirmed,
                  Charged, Of
  <2>2. ASSUME NEW h \in Handler, Arrive(h) \/ Proceed(h) \/ Fault(h)
        PROVE  IInv'
    BY <2>2, KeysStay, ArriveKeeps, ProceedKeeps, FaultKeeps
  <2>3. ASSUME NEW f \in forms, Pay(f)
        PROVE  IInv'
    BY <2>3, PayKeeps DEF Pay
  <2> QED  BY <2>1, <2>2, <2>3 DEF Next
<1> QED  BY <1>1, <1>2, PTL DEF Spec

\* The tables and the copies in memory always have their types.
THEOREM TypeCorrect == Spec => []TypeOK
<1>1. IInv => TypeOK
  BY DEF IInv
<1> QED  BY <1>1, Inductive, PTL

\* What a loop or a refund settles exists in the copy or the table it reads.
THEOREM CopiesAreThere == Spec => []CopiesExist
<1>1. IInv => CopiesExist
  BY DEF IInv
<1> QED  BY <1>1, Inductive, PTL

\* Rows, copies and events always say what the provider's answers back.
THEOREM PaymentsAreBacked == Spec => []EverythingBacked
<1>1. IInv => EverythingBacked
  BY DEF IInv
<1> QED  BY <1>1, Inductive, PTL

\* No payment is held, released, refunded or announced without the provider's
\* success for one of its own forms, and none is paid back that was not paid.
THEOREM MoneyWasConfirmed == Spec => []MoneyIsConfirmed
<1>1. IInv => MoneyIsConfirmed
  <2> SUFFICES ASSUME IInv, configured, NEW p \in Payment
               PROVE  /\ Exists(rows[p]) /\ Settled(rows[p]) => p \in Confirmed
                      /\ refunds[p] > 0 => p \in Charged
                      /\ \A e \in events : e.pay = p =>
                           /\ p \in Confirmed
                           /\ e.key = "payment.refunded" => p \in Charged
    BY DEF MoneyIsConfirmed
  <2>1. Exists(rows[p]) /\ Settled(rows[p]) => p \in Confirmed
    BY RowFacts
  <2> QED  BY <2>1 DEF IInv, EverythingBacked, EventBacked
<1> QED  BY <1>1, Inductive, PTL

----------------------------------------------------------------------------
(* Executions one at a time.                                               *)

\* What a loop has still to settle is as it was when the loop read it.
LoopCurrent(j, table) == \A p \in j.todo : j.copy[p] = table[p]

Settles(j) == j.op \in {"release", "partial"}

\* The copy an execution saves was made from the row as it still is.
SaveCurrent(j, table) ==
  LET row == table[j.pay]
  IN /\ Exists(row)
     /\ j.at # "load" => j.base = row
     /\ j.ent.user = row.user /\ j.ent.type = row.type
     /\ ~Settles(j) => row.status # "succeeded" /\ j.then = Idle
     /\ j.op = "simulate" => ~configured
     /\ j.op \in {"pay", "simulate"} => j.at # "update"
     /\ j.op = "release" => j.ent = [row EXCEPT !.escrow = "released"]
     /\ j.op = "partial" => j.ent.status \in {"refunded", "partial_refund"}
     /\ j.at = "commit" /\ j.op = "pay" /\ j.ent.type # "listing_boost" =>
          j.all = AllComplete([table EXCEPT ![j.pay] = j.ent], j.ent.user)
     /\ j.then # Idle => LoopCurrent(j.then, table) /\ j.pay \notin j.then.todo

\* What an execution has read is still so when it acts on it.
JobCurrent(j, table) ==
  /\ j.at = "fees" => OfTrade(table) = {}
  /\ j.at = "insure" =>
       \A p \in OfTrade(table) :
         table[p].user = j.user => table[p].type # "trade_insurance"
  /\ j.at = "remove" => Exists(table[j.pay]) /\ table[j.pay].status = "pending"
  /\ j.at = "next" => LoopCurrent(j, table)
  /\ Saves(j) => SaveCurrent(j, table)

\* The invariant behind the three properties of payments made in turn.
InTurn ==
  ~overlapped => /\ OneAtATime
                 /\ OneOfEachType
                 /\ \A h \in Handler : JobCurrent(jobs[h], rows)

\* An idle execution relies on nothing.
LEMMA IdleIsCurrent ==
  ASSUME NEW j, j.at = "idle", NEW table
  PROVE  JobCurrent(j, table)
  BY DEF JobCurrent, Saves

LEMMA IdleIsIdle == Idle.at = "idle"
  BY DEF Idle

\* A table in which every user has one row of each type.
OneEach(table) ==
  \A p, q \in OfTrade(table) :
    table[p].user = table[q].user /\ table[p].type = table[q].type => p = q

\* A step of one execution keeps InTurn if what it goes on with is current,
\* and what the others have read stays so.
LEMMA TurnKeeps ==
  ASSUME IInv, OneAtATime', UNCHANGED configured,
         NEW h \in Handler, NEW job, SetJob(h, job), JobCurrent(job, rows'),
         OneEach(rows'),
         \A g \in Handler \ {h} : JobCurrent(jobs[g], rows')
  PROVE  InTurn'
<1>1. \A g \in Handler : jobs'[g] = IF g = h THEN job ELSE jobs[g]
  BY DEF IInv, TypeOK, SetJob
<1>2. OneOfEachType'
  BY DEF OneOfEachType, OneEach, OfTrade
<1>3. ASSUME NEW g \in Handler PROVE JobCurrent(jobs[g], rows)'
  <2>1. JobCurrent(jobs'[g], rows')
    BY <1>1
  <2>2. Saves(jobs'[g]) => SaveCurrent(jobs[g], rows)'
    BY <2>1 DEF JobCurrent, SaveCurrent, LoopCurrent, Settles, OfTrade, AllComplete
  <2> QED  BY <2>1, <2>2 DEF JobCurrent, LoopCurrent, Saves, OfTrade
<1> QED  BY <1>2, <1>3 DEF InTurn

\* An execution that only reads.
LEMMA ReadingKeepsTurn ==
  ASSUME IInv, InTurn, ~overlapped, OneAtATime', UNCHANGED <<configured, rows>>,
         NEW h \in Handler, NEW job, SetJob(h, job), JobCurrent(job, rows)
  PROVE  InTurn'
<1>1. OneEach(rows')
  BY DEF InTurn, OneOfEachType, OneEach
<1> QED  BY <1>1, TurnKeeps DEF InTurn

\* An execution that writes is the only one in flight.
LEMMA WritingKeepsTurn ==
  ASSUME IInv, InTurn, ~overlapped, OneAtATime', UNCHANGED configured,
         NEW h \in Handler, ~Free(h), NEW job, SetJob(h, job),
         JobCurrent(job, rows'), OneEach(rows')
  PROVE  InTurn'
<1>1. \A g \in Handler \ {h} : JobCurrent(jobs[g], rows')
  BY IdleIsCurrent DEF InTurn, OneAtATime, Free
<1> QED  BY <1>1, TurnKeeps

\* A copy that is current is what the save writes.
LEMMA WritesItsCopy ==
  ASSUME IInv, NEW j \in Saving, j.at # "load", SaveCurrent(j, rows)
  PROVE  Written(j) = j.ent
<1>1. /\ j.pay \in Payment /\ j.ent \in Row /\ j.base = rows[j.pay]
      /\ Exists(rows[j.pay])
  BY DEF Saving, SaveCurrent
<1>2. rows[j.pay] \in Row
  BY <1>1, RowFacts
<1>3. Merge(rows[j.pay], j.base, j.ent) = j.ent
  BY <1>1, <1>2 DEF Merge, Changed, Row
<1> QED  BY <1>1, <1>3 DEF Written

\* Whether all is paid depends on the trade's rows only.
LEMMA CompleteOfSame ==
  ASSUME NEW t, NEW u, OfTrade(t) = OfTrade(u), \A p \in OfTrade(t) : t[p] = u[p],
         NEW user
  PROVE  AllComplete(t, user) = AllComplete(u, user)
<1>1. {p \in OfTrade(t) : t[p].user = user} = {p \in OfTrade(u) : u[p].user = user}
  OBVIOUS
<1> QED  BY <1>1 DEF AllComplete

\* A boost is none of the trade's rows, and nobody has read it.
LEMMA BoostIsApart ==
  ASSUME IInv, NEW p \in Fresh, NEW u \in Party, NEW table,
         table = [q \in Payment |-> IF q = p THEN NewRow(u, "listing_boost") ELSE rows[q]]
  PROVE  /\ OfTrade(table) = OfTrade(rows)
         /\ \A q \in Payment : q # p => table[q] = rows[q]
         /\ \A g \in Handler : JobCurrent(jobs[g], rows) => JobCurrent(jobs[g], table)
<1>1. /\ p \in Payment /\ ~Exists(rows[p]) /\ ~IsOfTrade(rows[p])
      /\ table[p] = NewRow(u, "listing_boost") /\ ~IsOfTrade(table[p])
      /\ \A q \in Payment : q # p => table[q] = rows[q]
  <2>1. p \in Payment /\ rows[p] = Unused
    BY DEF Fresh
  <2>2. ~Exists(rows[p]) /\ ~IsOfTrade(rows[p])
    BY <2>1 DEF Exists, IsOfTrade
  <2>3. table[p] = NewRow(u, "listing_boost") /\ \A q \in Payment : q # p => table[q] = rows[q]
    BY <2>1
  <2>4. NewRow(u, "listing_boost").type = "listing_boost"
    BY DEF NewRow
  <2> QED  BY <2>1, <2>2, <2>3, <2>4 DEF IsOfTrade
<1>2. OfTrade(table) = OfTrade(rows)
  BY <1>1 DEF OfTrade
<1>3. p \notin OfTrade(rows)
  BY <1>1 DEF OfTrade
<1>4. ASSUME NEW j, LoopExists(j), j.todo \subseteq Payment, LoopCurrent(j, rows)
      PROVE  LoopCurrent(j, table)
  BY <1>1, <1>4 DEF LoopExists, LoopCurrent
<1>5. ASSUME NEW g \in Handler, JobCurrent(jobs[g], rows)
      PROVE  JobCurrent(jobs[g], table)
  <2> DEFINE j == jobs[g]
  <2>1. j \in Job /\ JobExists(j, rows)
    BY JobFacts DEF Sound
  <2>2. j.at = "next" => LoopCurrent(j, table)
    <3> SUFFICES ASSUME j.at = "next" PROVE LoopCurrent(j, table)
      OBVIOUS
    <3>1. j.todo \subseteq Payment
      BY <2>1, Shapes DEF Looping
    <3> QED  BY <1>4, <1>5, <2>1, <3>1 DEF JobExists, JobCurrent
  <2>3. Saves(j) => SaveCurrent(j, table)
    <3> SUFFICES ASSUME Saves(j) PROVE SaveCurrent(j, table)
      OBVIOUS
    <3>1. j \in Saving /\ SaveCurrent(j, rows)
      BY <1>5, <2>1, Shapes DEF JobCurrent
    <3>2. j.pay \in Payment /\ j.pay # p /\ table[j.pay] = rows[j.pay]
      BY <1>1, <3>1 DEF Saving, SaveCurrent
    <3>3. j.then # Idle => LoopCurrent(j.then, table)
      <4> SUFFICES ASSUME j.then # Idle PROVE LoopCurrent(j.then, table)
        OBVIOUS
      <4>1. j.then \in Looping /\ LoopExists(j.then) /\ LoopCurrent(j.then, rows)
        BY <2>1, <3>1 DEF Saving, JobExists, SaveCurrent
      <4> QED  BY <1>4, <4>1 DEF Looping
    <3>4. AllComplete([table EXCEPT ![j.pay] = j.ent], j.ent.user)
            = AllComplete([rows EXCEPT ![j.pay] = j.ent], j.ent.user)
      <4> DEFINE t == [table EXCEPT ![j.pay] = j.ent]
                 r == [rows EXCEPT ![j.pay] = j.ent]
      <4>1. \A q \in Payment : t[q] = IF q = j.pay THEN j.ent ELSE table[q]
        OBVIOUS
      <4>2. \A q \in Payment : r[q] = IF q = j.pay THEN j.ent ELSE rows[q]
        BY DEF IInv, TypeOK, Table
      <4> HIDE DEF t, r
      <4>3. \A q \in Payment : q # p => t[q] = r[q]
        BY <1>1, <4>1, <4>2
      <4>4. ~IsOfTrade(t[p]) /\ ~IsOfTrade(r[p])
        BY <1>1, <3>2, <4>1, <4>2
      <4>5. OfTrade(t) = OfTrade(r) /\ \A q \in OfTrade(t) : t[q] = r[q]
        BY <4>3, <4>4 DEF OfTrade
      <4>6. AllComplete(t, j.ent.user) = AllComplete(r, j.ent.user)
        BY <4>5, CompleteOfSame
      <4> QED  BY <4>6 DEF t, r
    <3> QED  BY <3>1, <3>2, <3>3, <3>4 DEF SaveCurrent
  <2>4. j.at = "remove" => Exists(table[j.pay]) /\ table[j.pay].status = "pending"
    BY <1>1, <1>5, <2>1, Shapes DEF JobCurrent
  <2>5. \A q \in OfTrade(table) : table[q] = rows[q]
    BY <1>1, <1>2, <1>3 DEF OfTrade
  <2> QED  BY <1>2, <1>5, <2>2, <2>3, <2>4, <2>5 DEF JobCurrent
<1> QED  BY <1>1, <1>2, <1>5

\* A copy made from the row as it is.
LEMMA CopyIsCurrent ==
  ASSUME NEW op \in Op, NEW p, NEW ent, NEW then, Exists(rows[p]),
         ent.user = rows[p].user, ent.type = rows[p].type,
         op \notin {"release", "partial"} => rows[p].status # "succeeded" /\ then = Idle,
         op = "simulate" => ~configured,
         op = "release" => ent = [rows[p] EXCEPT !.escrow = "released"],
         op = "partial" => ent.status \in {"refunded", "partial_refund"},
         then # Idle => LoopCurrent(then, rows) /\ p \notin then.todo
  PROVE  JobCurrent(Save(op, p, ent, then), rows)
<1> DEFINE j == Save(op, p, ent, then)
<1>1. /\ j.at = "load" /\ j.op = op /\ j.pay = p /\ j.ent = ent /\ j.then = then
  BY DEF Save
<1> HIDE DEF j
<1>2. SaveCurrent(j, rows)
  BY <1>1 DEF SaveCurrent, Settles
<1>3. JobCurrent(j, rows)
  BY <1>1, <1>2 DEF JobCurrent
<1> QED  BY <1>3 DEF j

LEMMA ArriveInTurn ==
  ASSUME IInv, InTurn, ~overlapped, OneAtATime', UNCHANGED configured,
         NEW h \in Handler, Arrive(h)
  PROVE  InTurn'
<1>1. ASSUME NEW job, Begin(h, job), JobCurrent(job, rows)
      PROVE  InTurn'
  BY <1>1, ReadingKeepsTurn DEF Begin
<1>2. ASSUME NEW op \in {"release", "partial"}, NEW todo, Begin(h, Loop(op, rows, todo))
      PROVE  InTurn'
  <2>1. JobCurrent(Loop(op, rows, todo), rows)
    BY DEF Loop, JobCurrent, LoopCurrent, Saves
  <2> QED  BY <1>1, <1>2, <2>1
<1>3. CASE CreateTradePayments(h)
  <2>1. JobCurrent([at |-> "fees"], rows)
    BY <1>3 DEF CreateTradePayments, JobCurrent, Saves
  <2> QED  BY <1>1, <1>3, <2>1 DEF CreateTradePayments
<1>4. CASE ReleaseEscrow(h)
  BY <1>2, <1>4 DEF ReleaseEscrow
<1>5. CASE PartialRefund(h)
  BY <1>2, <1>5 DEF PartialRefund
<1>6. CASE Refund(h)
  <2>1. PICK held, todo : Begin(h, [at |-> "refund", held |-> held, todo |-> todo, done |-> {}])
    BY <1>6 DEF Refund
  <2>2. JobCurrent([at |-> "refund", held |-> held, todo |-> todo, done |-> {}], rows)
    BY DEF JobCurrent, Saves
  <2> QED  BY <1>1, <2>1, <2>2
<1>7. ASSUME NEW u \in Party, CreateInsurance(h, u)
      PROVE  InTurn'
  <2>1. JobCurrent([at |-> "insure", user |-> u], rows)
    BY <1>7 DEF CreateInsurance, JobCurrent, Saves
  <2> QED  BY <1>1, <1>7, <2>1 DEF CreateInsurance
<1>8. ASSUME NEW u \in Party, CreateBoost(h, u)
      PROVE  InTurn'
  <2>1. PICK p \in Fresh : Insert(h, [q \in {p} |-> u], "listing_boost")
    BY <1>8 DEF CreateBoost
  <2>2. rows' = [q \in Payment |-> IF q = p THEN NewRow(u, "listing_boost") ELSE rows[q]]
    BY <2>1 DEF Insert
  <2>3. /\ OfTrade(rows') = OfTrade(rows)
        /\ \A q \in Payment : q # p => rows'[q] = rows[q]
        /\ \A g \in Handler : JobCurrent(jobs[g], rows) => JobCurrent(jobs[g], rows')
    BY <2>2, BoostIsApart
  <2>4. p \notin OfTrade(rows)
    BY DEF OfTrade, IsOfTrade, Fresh, Exists
  <2>5. OneEach(rows')
    BY <2>3, <2>4 DEF OneEach, InTurn, OneOfEachType, OfTrade
  <2>6. JobCurrent(Idle, rows')
    BY IdleIsIdle, IdleIsCurrent
  <2>7. SetJob(h, Idle)
    BY <2>1 DEF Insert
  <2> QED  BY <2>3, <2>5, <2>6, <2>7, TurnKeeps DEF InTurn
<1>9. ASSUME NEW p \in Payment, CancelInsurance(h, p)
      PROVE  InTurn'
  <2>1. JobCurrent([at |-> "remove", pay |-> p], rows)
    BY <1>9 DEF CancelInsurance, JobCurrent, Saves
  <2> QED  BY <1>1, <1>9, <2>1 DEF CancelInsurance
<1>10. ASSUME NEW p \in Payment, Checkout(h, p)
       PROVE  InTurn'
  <2>1. PICK t \in Token :
          Begin(h, Save("checkout", p,
                  [rows[p] EXCEPT !.status = "processing", !.token = {t}], Idle))
    BY <1>10 DEF Checkout
  <2> DEFINE ent == [rows[p] EXCEPT !.status = "processing", !.token = {t}]
  <2>2. Exists(rows[p]) /\ rows[p].status # "succeeded" /\ rows[p] \in Row
    BY <1>10, RowFacts DEF Checkout
  <2>3. ent.user = rows[p].user /\ ent.type = rows[p].type
    BY <2>2 DEF Row
  <2> HIDE DEF ent
  <2>4. JobCurrent(Save("checkout", p, ent, Idle), rows)
    BY <2>2, <2>3, CopyIsCurrent DEF Op
  <2> QED  BY <1>1, <2>1, <2>4 DEF ent
<1>11. ASSUME NEW p \in Payment, NEW op \in {"pay", "simulate"},
              rows[p].status # "succeeded", Exists(rows[p]), op = "simulate" => ~configured
       PROVE  \A ref : JobCurrent(Save(op, p, Paid(rows[p], ref), Idle), rows)
  <2>1. \A ref : /\ Paid(rows[p], ref).user = rows[p].user
                 /\ Paid(rows[p], ref).type = rows[p].type
    BY <1>11, RowFacts DEF Paid, Row
  <2> QED  BY <1>11, <2>1, CopyIsCurrent DEF Op
<1>12. ASSUME NEW p \in Payment, Simulate(h, p)
       PROVE  InTurn'
  BY <1>1, <1>11, <1>12 DEF Simulate
<1>13. ASSUME NEW p \in Payment, NEW t \in Token, Callback(h, p, t)
       PROVE  InTurn'
  <2>1. Exists(rows[p]) /\ rows[p].status # "succeeded" /\ rows[p] \in Row
    BY <1>13, RowFacts DEF Callback
  <2>2. UNCHANGED <<configured, rows>>
    BY <1>13 DEF Callback
  <2>3. ASSUME NEW job, SetJob(h, job), JobCurrent(job, rows)
        PROVE  InTurn'
    BY <2>2, <2>3, ReadingKeepsTurn
  <2>4. CASE SetJob(h, Save("pay", p, Paid(rows[p], t \in charged), Idle))
    BY <1>11, <2>1, <2>3, <2>4
  <2>5. CASE SetJob(h, Save("fail", p, [rows[p] EXCEPT !.status = "failed"], Idle))
    <3> DEFINE ent == [rows[p] EXCEPT !.status = "failed"]
    <3>1. ent.user = rows[p].user /\ ent.type = rows[p].type
      BY <2>1 DEF Row
    <3>2. SetJob(h, Save("fail", p, ent, Idle))
      BY <2>5
    <3> HIDE DEF ent
    <3>3. JobCurrent(Save("fail", p, ent, Idle), rows)
      BY <2>1, <3>1, CopyIsCurrent DEF Op
    <3> QED  BY <2>3, <3>2, <3>3
  <2> QED  BY <1>13, <2>4, <2>5 DEF Callback
<1> QED
  BY <1>3, <1>4, <1>5, <1>6, <1>7, <1>8, <1>9, <1>10, <1>12, <1>13 DEF Arrive

\* What a save writes, and what the execution goes on with.
LEMMA UpdateFacts ==
  ASSUME IInv, InTurn, ~overlapped, NEW h \in Handler, Update(h)
  PROVE  LET j == jobs[h]
         IN /\ j \in Saving /\ SaveCurrent(j, rows) /\ j.pay \in Payment /\ ~Free(h)
            /\ rows[j.pay] \in Row /\ j.ent \in Row /\ Exists(rows[j.pay])
            /\ \A p \in Payment : rows'[p] = IF p = j.pay THEN j.ent ELSE rows[p]
            /\ rows' = [rows EXCEPT ![j.pay] = j.ent]
<1> DEFINE j == jobs[h]
<1>1. j.at \in {"update", "commit"} /\ Saves(j) /\ ~Free(h)
  BY DEF Update, Saves, Free
<1>2. j \in Saving /\ SaveCurrent(j, rows)
  BY <1>1, JobFacts, Shapes DEF InTurn, JobCurrent
<1>3. j.pay \in Payment /\ j.ent \in Row /\ Exists(rows[j.pay])
  BY <1>2 DEF Saving, SaveCurrent
<1>4. Written(j) = j.ent
  BY <1>1, <1>2, WritesItsCopy
<1>5. rows' = [rows EXCEPT ![j.pay] = j.ent]
  BY <1>4 DEF Update
<1>6. rows[j.pay] \in Row
  BY <1>3, RowFacts
<1>7. \A p \in Payment : rows'[p] = IF p = j.pay THEN j.ent ELSE rows[p]
  BY <1>5 DEF IInv, TypeOK, Table
<1> QED  BY <1>1, <1>2, <1>3, <1>5, <1>6, <1>7

\* Rows that keep their user and type stay one of each.
LEMMA StillOneEach ==
  ASSUME InTurn, ~overlapped, NEW table, OfTrade(table) \subseteq OfTrade(rows),
         \A p \in OfTrade(table) :
           table[p].user = rows[p].user /\ table[p].type = rows[p].type
  PROVE  OneEach(table)
  BY DEF InTurn, OneOfEachType, OneEach

LEMMA UpdateInTurn ==
  ASSUME IInv, InTurn, ~overlapped, OneAtATime', UNCHANGED configured,
         NEW h \in Handler, Update(h)
  PROVE  InTurn'
<1> DEFINE j == jobs[h]
<1>1. /\ j \in Saving /\ SaveCurrent(j, rows) /\ j.pay \in Payment /\ ~Free(h)
      /\ rows[j.pay] \in Row /\ j.ent \in Row /\ Exists(rows[j.pay])
      /\ \A p \in Payment : rows'[p] = IF p = j.pay THEN j.ent ELSE rows[p]
  BY UpdateFacts
<1>2. j.ent.user = rows[j.pay].user /\ j.ent.type = rows[j.pay].type /\ Exists(j.ent)
  BY <1>1, ExistingIsRow DEF SaveCurrent
<1>3. OneEach(rows')
  <2>1. OfTrade(rows') \subseteq OfTrade(rows)
    BY <1>1, <1>2 DEF OfTrade, IsOfTrade
  <2> QED  BY <1>1, <1>2, <2>1, StillOneEach DEF OfTrade
<1>4. JobCurrent(j.then, rows')
  <2>1. CASE j.then = Idle
    BY <2>1, IdleIsIdle, IdleIsCurrent
  <2>2. CASE j.then # Idle
    <3>1. j.then \in Looping /\ LoopCurrent(j.then, rows) /\ j.pay \notin j.then.todo
      BY <1>1, <2>2 DEF Saving, SaveCurrent
    <3>2. LoopCurrent(j.then, rows')
      BY <1>1, <3>1 DEF LoopCurrent, Looping
    <3> QED  BY <3>1, <3>2 DEF JobCurrent, Looping, Saves
  <2> QED  BY <2>1, <2>2
<1>5. SetJob(h, j.then)
  BY DEF Update
<1> QED  BY <1>1, <1>3, <1>4, <1>5, WritingKeepsTurn

LEMMA SettleInTurn ==
  ASSUME IInv, InTurn, ~overlapped, OneAtATime', UNCHANGED configured,
         NEW h \in Handler, NEW p \in Payment,
         ReleaseOne(h, p) \/ RefundPart(h, p) \/ RefundOne(h, p)
  PROVE  InTurn'
<1> DEFINE j == jobs[h]
           rest == Loop(j.op, j.copy, j.todo \ {p})
<1>1. UNCHANGED rows
  BY DEF ReleaseOne, RefundPart, RefundOne, Begin
<1>2. ASSUME j.at = "next", p \in j.todo
      PROVE  /\ j.copy[p] = rows[p] /\ rows[p] \in Row /\ Exists(rows[p])
             /\ LoopCurrent(rest, rows) /\ p \notin rest.todo
             /\ JobCurrent(rest, rows)
  <2>1. LoopCurrent(j, rows) /\ LoopExists(j)
    BY <1>2, JobFacts DEF InTurn, JobCurrent, Sound, JobExists
  <2>2. LoopCurrent(rest, rows) /\ p \notin rest.todo /\ rest.at = "next"
    BY <2>1 DEF LoopCurrent, Loop
  <2>3. JobCurrent(rest, rows)
    BY <2>2 DEF JobCurrent, Saves
  <2> QED  BY <1>2, <2>1, <2>2, <2>3, RowFacts DEF LoopCurrent, LoopExists
<1>3. CASE ReleaseOne(h, p)
  <2> DEFINE ent == [j.copy[p] EXCEPT !.escrow = "released"]
  <2>1. j.at = "next" /\ p \in j.todo /\ SetJob(h, Save("release", p, ent, rest))
    BY <1>3 DEF ReleaseOne, Begin
  <2>2. /\ ent = [rows[p] EXCEPT !.escrow = "released"]
        /\ ent.user = rows[p].user /\ ent.type = rows[p].type
    BY <1>2, <2>1 DEF Row
  <2> HIDE DEF ent, rest
  <2>3. JobCurrent(Save("release", p, ent, rest), rows)
    BY <1>2, <2>1, <2>2, CopyIsCurrent DEF Op
  <2> QED  BY <1>1, <2>1, <2>3, ReadingKeepsTurn
<1>4. CASE RefundPart(h, p)
  <2>1. j.at = "next" /\ p \in j.todo
    BY <1>4 DEF RefundPart
  <2>2. CASE SetJob(h, rest)
    BY <1>1, <1>2, <2>1, <2>2, ReadingKeepsTurn
  <2>3. ASSUME NEW status \in {"refunded", "partial_refund"},
               SetJob(h, Save("partial", p,
                           [j.copy[p] EXCEPT !.status = status,
                                             !.escrow = "refunded"], rest))
        PROVE  InTurn'
    <3> DEFINE ent == [j.copy[p] EXCEPT !.status = status, !.escrow = "refunded"]
    <3>1. ent.user = rows[p].user /\ ent.type = rows[p].type /\ ent.status = status
      BY <1>2, <2>1 DEF Row
    <3>2. SetJob(h, Save("partial", p, ent, rest))
      BY <2>3
    <3> HIDE DEF ent, rest
    <3>3. JobCurrent(Save("partial", p, ent, rest), rows)
      BY <1>2, <2>1, <3>1, CopyIsCurrent DEF Op
    <3> QED  BY <1>1, <3>2, <3>3, ReadingKeepsTurn
  <2> QED  BY <1>4, <2>2, <2>3 DEF RefundPart
<1>5. CASE RefundOne(h, p)
  <2> DEFINE skipped == [j EXCEPT !.todo = @ \ {p}]
             made == [j EXCEPT !.todo = @ \ {p}, !.done = @ \cup {p}]
  <2>1. skipped.at = "refund" /\ made.at = "refund"
    BY <1>5, JobFacts, Shapes DEF RefundOne, Refunding
  <2>2. PICK job \in {skipped, made} : SetJob(h, job)
    BY <1>5 DEF RefundOne
  <2>3. JobCurrent(job, rows)
    BY <2>1 DEF JobCurrent, Saves
  <2> QED  BY <1>1, <2>2, <2>3, ReadingKeepsTurn
<1> QED  BY <1>3, <1>4, <1>5

LEMMA ReadInTurn ==
  ASSUME IInv, InTurn, ~overlapped, OneAtATime', UNCHANGED configured,
         NEW h \in Handler, Load(h) \/ Check(h)
  PROVE  InTurn'
<1> DEFINE j == jobs[h]
<1>1. j \in Saving /\ SaveCurrent(j, rows) /\ j.ent \in Row
  <2>1. Saves(j)
    BY DEF Load, Check, Saves
  <2> QED  BY <2>1, JobFacts, Shapes DEF InTurn, JobCurrent, Saving
<1>2. CASE Load(h)
  <2> DEFINE next == IF j.op \in {"pay", "simulate"} THEN "check" ELSE "update"
             job == [j EXCEPT !.base = rows[j.pay], !.at = next]
  <2>1. /\ job.at = next /\ next \in {"check", "update"} /\ job.base = rows[job.pay] /\ job.op = j.op
        /\ job.pay = j.pay /\ job.ent = j.ent /\ job.then = j.then
    BY <1>1 DEF Saving
  <2>2. Begin(h, job)
    BY <1>2 DEF Load
  <2> HIDE DEF job
  <2>3. SaveCurrent(job, rows)
    BY <1>1, <2>1 DEF SaveCurrent, Settles
  <2>4. JobCurrent(job, rows)
    <3>1. job.at \in {"check", "update"}
      BY <2>1
    <3> QED  BY <2>3, <3>1 DEF JobCurrent
  <2> QED  BY <2>2, <2>4, ReadingKeepsTurn DEF Begin
<1>3. CASE Check(h)
  <2> DEFINE seen == IF j.op = "pay" THEN [rows EXCEPT ![j.pay] = Written(j)] ELSE rows
             last == \/ j.ent.type = "listing_boost"
                     \/ AllComplete(seen, j.ent.user)
             job == [j EXCEPT !.at = "commit", !.all = last]
  <2>1. j.at = "check" /\ Begin(h, job)
    BY <1>3 DEF Check
  <2>2. Written(j) = j.ent
    BY <1>1, <2>1, WritesItsCopy
  <2>3. /\ job.at = "commit" /\ job.all = last /\ job.op = j.op /\ job.base = j.base
        /\ job.pay = j.pay /\ job.ent = j.ent /\ job.then = j.then
    <3> HIDE DEF last
    <3> QED  BY <1>1 DEF Saving
  <2>4. j.op = "pay" /\ j.ent.type # "listing_boost" =>
          last = AllComplete([rows EXCEPT ![j.pay] = j.ent], j.ent.user)
    <3> DEFINE all == AllComplete(seen, j.ent.user)
               boost == j.ent.type = "listing_boost"
    <3>1. j.op = "pay" => all = AllComplete([rows EXCEPT ![j.pay] = j.ent], j.ent.user)
      BY <2>2
    <3>2. all \in BOOLEAN /\ boost \in BOOLEAN /\ last = (boost \/ all)
      BY DEF AllComplete
    <3> HIDE DEF all, last
    <3>3. ~boost => last = all
      BY <3>2
    <3> QED  BY <3>1, <3>3
  <2> HIDE DEF job, last
  <2>5. SaveCurrent(job, rows)
    BY <1>1, <2>1, <2>3, <2>4 DEF SaveCurrent, Settles
  <2>6. JobCurrent(job, rows)
    BY <2>3, <2>5 DEF JobCurrent
  <2> QED  BY <2>1, <2>6, ReadingKeepsTurn DEF Begin
<1> QED  BY <1>2, <1>3

\* New rows where there was none of their kind.
LEMMA InsertInTurn ==
  ASSUME IInv, InTurn, ~overlapped, OneAtATime', UNCHANGED configured,
         NEW h \in Handler, InsertFees(h) \/ InsertInsurance(h)
  PROVE  InTurn'
<1>1. \A p \in Fresh : p \in Payment /\ p \notin OfTrade(rows)
  BY DEF Fresh, OfTrade, IsOfTrade, Exists
<1>2. ASSUME NEW owner, NEW type, Insert(h, owner, type), OneEach(rows'), ~Free(h)
      PROVE  InTurn'
  <2>1. SetJob(h, Idle) /\ JobCurrent(Idle, rows')
    BY <1>2, IdleIsIdle, IdleIsCurrent DEF Insert
  <2> QED  BY <1>2, <2>1, WritingKeepsTurn
<1>3. CASE InsertFees(h)
  <2>1. PICK ids \in SUBSET Fresh :
          \E owner \in Bijection(ids, Party) : Insert(h, owner, "trade_fee")
    BY <1>3 DEF InsertFees
  <2>2. PICK owner \in Bijection(ids, Party) : Insert(h, owner, "trade_fee")
    BY <2>1
  <2>3. owner \in [ids -> Party] /\ \A p, q \in ids : owner[p] = owner[q] => p = q
    BY DEF Bijection, Injection, IsInjective
  <2>4. OfTrade(rows) = {} /\ ~Free(h)
    BY <1>3 DEF InsertFees, InTurn, JobCurrent, Free
  <2>5. \A p \in Payment : rows'[p] = IF p \in ids THEN NewRow(owner[p], "trade_fee")
                                      ELSE rows[p]
    BY <2>2, <2>3 DEF Insert
  <2>6. ASSUME NEW p \in OfTrade(rows')
        PROVE  p \in ids /\ rows'[p].user = owner[p]
    <3>1. p \in Payment /\ IsOfTrade(rows'[p])
      BY DEF OfTrade
    <3>2. p \in ids
      BY <2>4, <2>5, <3>1 DEF OfTrade
    <3>3. rows'[p] = NewRow(owner[p], "trade_fee")
      BY <2>5, <3>1, <3>2
    <3> QED  BY <3>2, <3>3 DEF NewRow
  <2>7. OneEach(rows')
    BY <2>3, <2>6 DEF OneEach
  <2> QED  BY <1>2, <2>2, <2>4, <2>7
<1>4. CASE InsertInsurance(h)
  <2> DEFINE u == jobs[h].user
  <2>1. PICK p \in Fresh : Insert(h, [q \in {p} |-> u], "trade_insurance")
    BY <1>4 DEF InsertInsurance
  <2>2. /\ ~Free(h)
        /\ \A q \in OfTrade(rows) : rows[q].user = u => rows[q].type # "trade_insurance"
    BY <1>4 DEF InsertInsurance, InTurn, JobCurrent, Free
  <2>3. \A q \in Payment : rows'[q] = IF q = p THEN NewRow(u, "trade_insurance") ELSE rows[q]
    BY <2>1 DEF Insert
  <2>4. rows'[p].user = u /\ rows'[p].type = "trade_insurance"
    BY <1>1, <2>3 DEF NewRow
  <2>5. ASSUME NEW q \in OfTrade(rows')
        PROVE  q = p \/ (q \in OfTrade(rows) /\ rows'[q] = rows[q])
    <3>1. q \in Payment /\ IsOfTrade(rows'[q])
      BY DEF OfTrade
    <3> QED  BY <2>3, <3>1 DEF OfTrade
  <2>6. OneEach(rows')
    BY <2>2, <2>4, <2>5 DEF OneEach, InTurn, OneOfEachType
  <2> QED  BY <1>2, <2>1, <2>2, <2>6
<1> QED  BY <1>3, <1>4

LEMMA ProceedInTurn ==
  ASSUME IInv, InTurn, ~overlapped, OneAtATime', UNCHANGED configured,
         NEW h \in Handler, Proceed(h)
  PROVE  InTurn'
<1>1. JobCurrent(Idle, rows) /\ JobCurrent(Idle, rows')
  BY IdleIsIdle, IdleIsCurrent
<1>2. CASE Remove(h)
  <2> DEFINE p == jobs[h].pay
  <2>1. p \in Payment /\ ~Free(h)
    BY <1>2, JobFacts, Shapes DEF Remove, Free
  <2>2. \A q \in Payment : rows'[q] = IF q = p THEN Deleted ELSE rows[q]
    BY <1>2, <2>1 DEF Remove, IInv, TypeOK, Table
  <2>3. /\ OfTrade(rows') \subseteq OfTrade(rows)
        /\ \A q \in OfTrade(rows') : rows'[q] = rows[q]
    BY <2>2 DEF OfTrade, IsOfTrade, Exists
  <2>4. OneEach(rows')
    BY <2>3, StillOneEach
  <2> QED  BY <1>1, <1>2, <2>1, <2>4, WritingKeepsTurn DEF Remove
<1>3. CASE EndLoop(h)
  BY <1>1, <1>3, ReadingKeepsTurn DEF EndLoop, Begin
<1>4. CASE CommitRefund(h)
  <2> DEFINE j == jobs[h]
  <2>1. j \in Refunding /\ Sound(j) /\ j.at = "refund" /\ ~Free(h)
    BY <1>4, JobFacts, Shapes DEF CommitRefund, Free
  <2>2. j.done \subseteq Payment /\ \A p \in j.done : rows[p] \in Row /\ Exists(rows[p])
    BY <2>1, RowFacts DEF Refunding, Sound, JobExists
  <2>3. \A p \in Payment : rows'[p] = IF p \in j.done THEN Refunded(p) ELSE rows[p]
    BY <1>4 DEF CommitRefund
  <2>4. \A p \in j.done : Refunded(p).user = rows[p].user /\ Refunded(p).type = rows[p].type
    BY <2>2 DEF Refunded, Row
  <2>5. /\ OfTrade(rows') \subseteq OfTrade(rows)
        /\ \A p \in OfTrade(rows') :
             rows'[p].user = rows[p].user /\ rows'[p].type = rows[p].type
    BY <2>2, <2>3, <2>4 DEF OfTrade, IsOfTrade
  <2>6. OneEach(rows')
    BY <2>5, StillOneEach
  <2> QED  BY <1>1, <1>4, <2>1, <2>6, WritingKeepsTurn DEF CommitRefund
<1> QED
  BY <1>2, <1>3, <1>4, InsertInTurn, ReadInTurn, UpdateInTurn, SettleInTurn DEF Proceed

LEMMA FaultInTurn ==
  ASSUME IInv, InTurn, ~overlapped, OneAtATime', UNCHANGED configured,
         NEW h \in Handler, Fault(h)
  PROVE  InTurn'
<1>1. UNCHANGED rows
  BY DEF Fault
<1>2. CASE SetJob(h, Idle)
  BY <1>1, <1>2, IdleIsIdle, IdleIsCurrent, ReadingKeepsTurn
<1>3. CASE Saves(jobs[h]) /\ SetJob(h, jobs[h].then)
  <2> DEFINE j == jobs[h]
  <2>1. j \in Saving /\ SaveCurrent(j, rows)
    BY <1>3, JobFacts, Shapes DEF InTurn, JobCurrent
  <2>2. JobCurrent(j.then, rows)
    <3>1. CASE j.then = Idle
      BY <3>1, IdleIsIdle, IdleIsCurrent
    <3>2. CASE j.then # Idle
      BY <2>1, <3>2 DEF Saving, SaveCurrent, JobCurrent, Looping, Saves
    <3> QED  BY <3>1, <3>2
  <2> QED  BY <1>1, <1>3, <2>2, ReadingKeepsTurn
<1> QED  BY <1>2, <1>3 DEF Fault

\* The invariant of payments made in turn holds in every execution.
LEMMA InTurnAlways == Spec => []InTurn
<1>1. Init => InTurn
  <2> SUFFICES ASSUME Init PROVE InTurn
    OBVIOUS
  <2>1. \A p \in Payment : ~IsOfTrade(rows[p])
    BY DEF Init, IsOfTrade, Exists
  <2>2. OneOfEachType
    BY <2>1 DEF OneOfEachType, OfTrade
  <2>3. \A h \in Handler : Free(h) /\ JobCurrent(jobs[h], rows)
    BY IdleIsIdle, IdleIsCurrent DEF Init, Free
  <2> QED  BY <2>2, <2>3 DEF InTurn, OneAtATime
<1>2. IInv /\ InTurn /\ [Next]_vars => InTurn'
  <2> SUFFICES ASSUME IInv, InTurn, [Next]_vars, ~overlapped' PROVE InTurn'
    BY DEF InTurn
  <2>1. CASE UNCHANGED vars
    <3>1. UNCHANGED <<configured, rows, jobs, overlapped>>
      BY <2>1 DEF vars
    <3>2. OneAtATime' /\ OneOfEachType'
      BY <3>1 DEF InTurn, OneAtATime, OneOfEachType, OfTrade, Free
    <3>3. OneEach(rows')
      BY <3>1 DEF InTurn, OneOfEachType, OneEach
    <3>4. ASSUME NEW h \in Handler PROVE InTurn'
      <4>1. SetJob(h, jobs[h]) /\ JobCurrent(jobs[h], rows)
        BY <3>1 DEF SetJob, IInv, TypeOK, InTurn
      <4> QED  BY <3>1, <3>2, <4>1, ReadingKeepsTurn
    <3> QED  BY <3>2, <3>4 DEF InTurn
  <2>2. CASE Next
    <3>1. ~overlapped /\ OneAtATime'
      BY <2>2, Zenon DEF Next
    <3>2. ASSUME NEW h \in Handler, Arrive(h) \/ Proceed(h) \/ Fault(h)
          PROVE  InTurn'
      BY <3>1, <3>2, KeysStay, ArriveInTurn, ProceedInTurn, FaultInTurn
    <3>3. ASSUME NEW f \in forms, Pay(f)
          PROVE  InTurn'
      <4>1. UNCHANGED <<configured, rows, jobs>>
        BY <3>3 DEF Pay
      <4>2. OneOfEachType'
        BY <3>1, <4>1 DEF InTurn, OneOfEachType, OfTrade
      <4>3. ASSUME NEW h \in Handler PROVE InTurn'
        <5>1. SetJob(h, jobs[h]) /\ JobCurrent(jobs[h], rows)
          BY <3>1, <4>1 DEF SetJob, IInv, TypeOK, InTurn
        <5> QED  BY <3>1, <4>1, <5>1, ReadingKeepsTurn
      <4> QED  BY <3>1, <4>2, <4>3 DEF InTurn
    <3> QED  BY <2>2, <3>2, <3>3 DEF Next
  <2> QED  BY <2>1, <2>2
<1> QED  BY <1>1, <1>2, Inductive, PTL DEF Spec

\* createTradePayments and createInsurancePayment: as long as executions have
\* run one at a time, no user has two fees or two insurances for the trade.
THEOREM OneOfEachInTurn == Spec => []OneOfEachTypeInTurn
<1>1. InTurn => OneOfEachTypeInTurn
  BY DEF InTurn, OneOfEachTypeInTurn
<1> QED  BY <1>1, InTurnAlways, PTL

----------------------------------------------------------------------------
(* What a step in turn does to payments that succeeded, and what it says.  *)

\* A step that leaves the rows of succeeded payments alone.
LEMMA RowStays ==
  ASSUME \A p \in Payment :
           Exists(rows[p]) /\ rows[p].status = "succeeded" => rows'[p] = rows[p]
  PROVE  SuccessStays
  BY DEF SuccessStays

\* Inserts touch no row that exists, and say nothing.
LEMMA InsertIsQuiet ==
  ASSUME NEW h \in Handler,
         \/ InsertFees(h) \/ InsertInsurance(h)
         \/ \E u \in Party : CreateBoost(h, u)
  PROVE  SuccessStays /\ UNCHANGED events
<1>1. ASSUME NEW ids \in SUBSET Fresh, NEW owner, DOMAIN owner = ids, NEW type,
             Insert(h, owner, type)
      PROVE  SuccessStays /\ UNCHANGED events
  <2>1. \A p \in Payment : p \notin ids => rows'[p] = rows[p]
    BY <1>1 DEF Insert
  <2>2. \A p \in ids : ~Exists(rows[p])
    BY DEF Fresh, Exists
  <2>3. UNCHANGED events
    BY <1>1 DEF Insert
  <2> QED  BY <2>1, <2>2, <2>3, RowStays
<1>2. ASSUME NEW p \in Fresh, NEW u, NEW type, Insert(h, [q \in {p} |-> u], type)
      PROVE  SuccessStays /\ UNCHANGED events
  <2> DEFINE owner == [q \in {p} |-> u]
  <2>1. DOMAIN owner = {p} /\ {p} \in SUBSET Fresh
    OBVIOUS
  <2> HIDE DEF owner
  <2> QED  BY <1>1, <1>2, <2>1 DEF owner
<1>3. CASE InsertFees(h)
  <2>1. PICK ids \in SUBSET Fresh :
          \E owner \in Bijection(ids, Party) : Insert(h, owner, "trade_fee")
    BY <1>3 DEF InsertFees
  <2>2. PICK owner \in Bijection(ids, Party) : Insert(h, owner, "trade_fee")
    BY <2>1
  <2>3. DOMAIN owner = ids
    BY DEF Bijection, Injection
  <2> QED  BY <1>1, <2>2, <2>3
<1>4. CASE InsertInsurance(h)
  BY <1>2, <1>4 DEF InsertInsurance
<1>5. CASE \E u \in Party : CreateBoost(h, u)
  BY <1>2, <1>5 DEF CreateBoost
<1> QED  BY <1>3, <1>4, <1>5

\* Only inserts, deletions, updates and the commit of a refund write rows.
LEMMA ReadsAreQuiet ==
  ASSUME NEW h \in Handler, Arrive(h) \/ Proceed(h) \/ Fault(h)
  PROVE  \/ UNCHANGED <<rows, events>>
         \/ InsertFees(h) \/ InsertInsurance(h) \/ \E u \in Party : CreateBoost(h, u)
         \/ Remove(h) \/ Update(h) \/ CommitRefund(h)
<1>1. CASE Arrive(h)
  BY <1>1
     DEF Arrive, CreateTradePayments, ReleaseEscrow, Refund, PartialRefund,
         CreateInsurance, CancelInsurance, Checkout, Simulate, Callback, Begin
<1>2. CASE Proceed(h)
  BY <1>2
     DEF Proceed, Load, Check, EndLoop, ReleaseOne, RefundPart, RefundOne, Begin
<1>3. CASE Fault(h)
  BY <1>3 DEF Fault
<1> QED  BY <1>1, <1>2, <1>3

\* An update in turn leaves a succeeded payment alone or settles it.
LEMMA UpdateKeepsSuccess ==
  ASSUME IInv, InTurn, ~overlapped, NEW h \in Handler, Update(h)
  PROVE  SuccessStays
<1> DEFINE j == jobs[h]
           row == rows[j.pay]
<1>1. /\ j \in Saving /\ SaveCurrent(j, rows) /\ j.pay \in Payment
      /\ row \in Row /\ j.ent \in Row /\ Exists(row)
      /\ \A p \in Payment : rows'[p] = IF p = j.pay THEN j.ent ELSE rows[p]
  BY UpdateFacts
<1>2. Exists(j.ent)
  BY <1>1, ExistingIsRow
<1>3. row.status = "succeeded" =>
        /\ j.ent.status \in {"succeeded", "refunded", "partial_refund"}
        /\ j.ent.status = "succeeded" => j.ent.escrow \in {row.escrow, "released"}
  <2> SUFFICES ASSUME row.status = "succeeded"
               PROVE  /\ j.ent.status \in {"succeeded", "refunded", "partial_refund"}
                      /\ j.ent.status = "succeeded" =>
                           j.ent.escrow \in {row.escrow, "released"}
    OBVIOUS
  <2>1. j.op \in {"release", "partial"}
    BY <1>1 DEF SaveCurrent, Settles
  <2>2. CASE j.op = "release"
    <3>1. j.ent = [row EXCEPT !.escrow = "released"]
      BY <1>1, <2>2 DEF SaveCurrent
    <3>2. j.ent.status = row.status /\ j.ent.escrow = "released"
      BY <1>1, <3>1 DEF Row
    <3> QED  BY <3>2
  <2>3. CASE j.op = "partial"
    BY <1>1, <2>3 DEF SaveCurrent
  <2> QED  BY <2>1, <2>2, <2>3
<1> QED  BY <1>1, <1>2, <1>3 DEF SuccessStays

\* A refund ends the success of the payments it has refunded, and no other's.
LEMMA CommitKeepsSuccess ==
  ASSUME IInv, NEW h \in Handler, CommitRefund(h)
  PROVE  SuccessStays
<1> DEFINE done == jobs[h].done
<1>1. \A p \in Payment : rows'[p] = IF p \in done THEN Refunded(p) ELSE rows[p]
  BY DEF CommitRefund
<1>2. ASSUME NEW p \in Payment, Exists(rows[p])
      PROVE  Exists(Refunded(p)) /\ Refunded(p).status = "refunded"
  <2>1. rows[p] \in Row
    BY <1>2, RowFacts
  <2>2. [rows[p] EXCEPT !.status = "refunded", !.escrow = "refunded"] \in Row
    BY <2>1, ChangesAreRows DEF Status
  <2>3. Refunded(p) \in Row
    BY <2>2 DEF Refunded
  <2>4. Refunded(p).status = "refunded"
    BY <2>1 DEF Refunded, Row
  <2> QED  BY <2>3, <2>4, ExistingIsRow
<1> HIDE DEF done
<1> QED  BY <1>1, <1>2 DEF SuccessStays

LEMMA SuccessKept ==
  ASSUME IInv, InTurn, ~overlapped, NEW h \in Handler,
         Arrive(h) \/ Proceed(h) \/ Fault(h)
  PROVE  SuccessStays
<1>1. CASE UNCHANGED <<rows, events>>
  BY <1>1, RowStays
<1>2. CASE Remove(h)
  <2> DEFINE p == jobs[h].pay
  <2>1. p \in Payment
    BY <1>2, JobFacts, Shapes DEF Remove
  <2>2. rows[p].status = "pending"
    BY <1>2 DEF Remove, InTurn, JobCurrent
  <2>3. \A q \in Payment : q # p => rows'[q] = rows[q]
    BY <1>2, <2>1 DEF Remove, IInv, TypeOK, Table
  <2> QED  BY <2>2, <2>3, RowStays
<1> QED
  BY <1>1, <1>2, ReadsAreQuiet, InsertIsQuiet, UpdateKeepsSuccess, CommitKeepsSuccess

\* The answer of an update in turn was found with the rows it leaves.
LEMMA UpdateTells ==
  ASSUME IInv, InTurn, ~overlapped, NEW h \in Handler, Update(h)
  PROVE  NewEventsTell
<1> DEFINE j == jobs[h]
<1>1. /\ j \in Saving /\ SaveCurrent(j, rows) /\ j.pay \in Payment
      /\ rows[j.pay] \in Row /\ j.ent \in Row
      /\ \A p \in Payment : rows'[p] = IF p = j.pay THEN j.ent ELSE rows[p]
      /\ rows' = [rows EXCEPT ![j.pay] = j.ent]
  BY UpdateFacts
<1>2. SUFFICES ASSUME NEW e \in events' \ events, configured,
                      e.key = "payment.succeeded",
                      rows'[e.pay].type # "listing_boost"
               PROVE  e.all = AllComplete(rows', rows'[e.pay].user)
  BY DEF NewEventsTell
<1>3. e \in EventsOf(j)
  BY <1>2 DEF Update
<1>4. j.op \in {"pay", "simulate"}
  BY <1>2, <1>3 DEF EventsOf, Event
<1>5. e = Event("payment.succeeded", j.pay, j.all)
  <2>1. \/ e = Event("payment.succeeded", j.pay, j.all)
        \/ e = Event("payment.boost_succeeded", j.pay, j.all)
    BY <1>3, <1>4 DEF EventsOf
  <2> QED  BY <1>2, <2>1 DEF Event
<1>6. e.pay = j.pay /\ e.all = j.all /\ rows'[e.pay] = j.ent
  BY <1>1, <1>5 DEF Event
<1>7. j.op = "pay" /\ j.at = "commit"
  <2>1. j.at \in {"update", "commit"}
    BY DEF Update
  <2> QED  BY <1>1, <1>2, <1>4, <2>1 DEF SaveCurrent
<1>8. j.all = AllComplete([rows EXCEPT ![j.pay] = j.ent], j.ent.user)
  BY <1>1, <1>2, <1>6, <1>7 DEF SaveCurrent
<1> QED  BY <1>1, <1>6, <1>8

LEMMA EventsTold ==
  ASSUME IInv, InTurn, ~overlapped, NEW h \in Handler,
         Arrive(h) \/ Proceed(h) \/ Fault(h)
  PROVE  NewEventsTell
<1>1. CASE UNCHANGED events
  BY <1>1 DEF NewEventsTell
<1>2. CASE CommitRefund(h)
  BY <1>2 DEF CommitRefund, NewEventsTell, Event
<1>3. CASE Remove(h)
  BY <1>1, <1>3 DEF Remove
<1> QED
  BY <1>1, <1>2, <1>3, ReadsAreQuiet, InsertIsQuiet, UpdateTells

\* What holds of a step that an execution takes in turn holds of every step.
LEMMA StepInTurn ==
  ASSUME IInv, InTurn, [Next]_vars, ~overlapped'
  PROVE  SuccessStays /\ NewEventsTell
<1>1. CASE UNCHANGED vars
  BY <1>1, RowStays DEF vars, NewEventsTell
<1>2. ASSUME NEW h \in Handler, Arrive(h) \/ Proceed(h) \/ Fault(h), Next
      PROVE  SuccessStays /\ NewEventsTell
  <2>1. ~overlapped
    BY <1>2, Zenon DEF Next
  <2> QED  BY <1>2, <2>1, SuccessKept, EventsTold
<1>3. ASSUME NEW f \in forms, Pay(f)
      PROVE  SuccessStays /\ NewEventsTell
  BY <1>3, RowStays DEF Pay, NewEventsTell
<1> QED  BY <1>1, <1>2, <1>3 DEF Next

\* As long as executions run one at a time, no stale copy, deletion or second
\* settlement undoes a payment that succeeded: only a refund ends its success,
\* and its money leaves escrow only to be released.
THEOREM SuccessIsKept == Spec => PaidUntilRefundedInTurn
<1>1. IInv /\ InTurn /\ [Next]_vars => [~overlapped' => SuccessStays]_vars
  BY StepInTurn
<1> QED  BY <1>1, Inductive, InTurnAlways, PTL DEF Spec, PaidUntilRefundedInTurn

\* As long as executions run one at a time, the event of a trade's payment
\* says that all of the user's payments are complete exactly if they are: the
\* query in handleIyzicoCallback's transaction sees its own update.
THEOREM EventsSayTheTruth == Spec => LastPaymentSaysSoInTurn
<1>1. IInv /\ InTurn /\ [Next]_vars => [~overlapped' => NewEventsTell]_vars
  BY StepInTurn
<1> QED  BY <1>1, Inductive, InTurnAlways, PTL DEF Spec, LastPaymentSaysSoInTurn

=============================================================================
