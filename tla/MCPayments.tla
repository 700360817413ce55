------------------------------ MODULE MCPayments ------------------------------
(***************************************************************************)
(* Instances of Payments for TLC.  Executions run one after the other over *)
(* three rows and two checkout forms, or four rows unpaid; or two run      *)
(* beside each other, of which one may die, over two rows and one form.    *)
(***************************************************************************)
EXTENDS Payments, TLC

VARIABLE mode

\* Ids of rows, forms, executions and the two users are interchangeable.
Symmetry ==
  Permutations(Party) \cup Permutations(Payment) \cup Permutations(Token)
    \cup Permutations(Handler)

Busy == {h \in Handler : jobs[h] # Idle}
Ids == {p \in Payment : rows[p] # Unused}
Used == {f[1] : f \in forms}

OneAfterTheOther ==
  /\ Cardinality(Busy) <= 1 /\ faults = 0
  /\ Cardinality(Ids) = 4 => Used = {} /\ events = {}

\* The provider's keys are set, as they are in production.  No lookup of a
\* paid form fails, and of an unpaid one none succeeds beside a second row.
BesideEachOther ==
  /\ Cardinality(Ids) <= 2 /\ Cardinality(Used) <= 1
  /\ Cardinality(Ids) = 2 => confirmed \subseteq charged
  /\ \A h \in Busy : Saves(jobs[h]) /\ jobs[h].op = "fail"
                     => jobs[h].ent.token \cap charged = {}

MCInit == Init /\ mode \in {"one", "two"} /\ (mode = "two" => configured)

MCNext ==
  /\ Next /\ UNCHANGED mode
  /\ mode = "one" => OneAfterTheOther'
  /\ mode = "two" => BesideEachOther'

MCSpec == MCInit /\ [][MCNext]_<<vars, mode>>

----------------------------------------------------------------------------
(* The messages that settle a trade find it like this: each party has a    *)
(* fee, and perhaps an insurance, and has paid them or not.                *)

SettlementInit ==
  \E kind \in Injection(Payment, Party \X {"trade_fee", "trade_insurance"}),
     form \in Injection(Payment, Token), paid \in SUBSET Payment :
    /\ Party \X {"trade_fee"} \subseteq Range(kind)
    /\ configured = TRUE
    /\ rows = [p \in Payment |->
                 LET new == [NewRow(kind[p][1], kind[p][2])
                               EXCEPT !.status = "processing", !.token = {form[p]}]
                 IN IF p \in paid THEN Paid(new, TRUE) ELSE new]
    /\ jobs = [h \in Handler |-> Idle]
    /\ events = {Event("payment.succeeded", p, TRUE) : p \in paid}
    /\ forms = {<<form[p], p>> : p \in Payment}
    /\ charged = {form[p] : p \in paid} /\ confirmed = charged
    /\ refunds = [p \in Payment |-> 0]
    /\ faults = 0 /\ overlapped = FALSE
    /\ mode = "two"

\* A cancellation, and a dispute that ends in compensation.
CompensationNext ==
  /\ UNCHANGED mode
  /\ \E h \in Handler :
       \/ Refund(h) \/ CommitRefund(h) \/ Load(h) \/ Update(h)
       \/ PartialRefund(h) \/ EndLoop(h)
       \/ \E p \in Payment : RefundOne(h, p) \/ RefundPart(h, p)
  /\ overlapped' = (overlapped \/ ~OneAtATime')

CompensationSpec == SettlementInit /\ [][CompensationNext]_<<vars, mode>>

=============================================================================
