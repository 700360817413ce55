----------------------------- MODULE OutboxProofs -----------------------------
(***************************************************************************)
(* Proofs about Outbox, for any finite set of entries, any executions of   *)
(* publishPending, any batch size and any bounds on the faults.            *)
(***************************************************************************)
EXTENDS Outbox, FiniteSetTheorems, WellFoundedInduction, TLAPS

\* created_at has a first element in every set of entries that is not empty.
LEMMA SomeEntryIsFirst ==
  ASSUME TypeOK, Created, NEW E \in SUBSET Event, E # {}
  PROVE  \E e \in E : older[e] \cap E = {}
<1> DEFINE Rank(e) == Cardinality(older[e] \cap E)
           Ranks == {Rank(e) : e \in E}
<1>1. \A e \in E : IsFiniteSet(older[e] \cap E) /\ Rank(e) \in Nat
  BY EventAssumption, FS_Subset, FS_CardinalityType DEF TypeOK
<1>2. \E n \in Ranks : \A k \in Ranks : ~(k < n)
  <2>1. Ranks \subseteq Nat /\ Ranks # {}
    BY <1>1
  <2>2. \E n \in Ranks : \A k \in Ranks : ~(<<k, n>> \in OpToRel(<, Nat))
    <3> HIDE DEF Ranks
    <3> QED  BY <2>1, NatLessThanWellFounded, WFMin
  <2> HIDE DEF Ranks
  <2> QED  BY <2>1, <2>2 DEF OpToRel
<1>3. PICK e \in E : \A f \in E : ~(Rank(f) < Rank(e))
  BY <1>2
<1>4. ASSUME NEW f \in older[e] \cap E PROVE FALSE
  <2>1. (older[f] \cap E) \subseteq (older[e] \cap E) \ {f}
    BY <1>4 DEF TypeOK, Created
  <2>2. IsFiniteSet(older[e] \cap E) /\ (older[f] \cap E) \in SUBSET (older[e] \cap E)
    BY <1>1, <2>1
  <2>3. Rank(f) <= Rank(e) /\ (Rank(f) = Rank(e) => older[f] \cap E = older[e] \cap E)
    BY <2>2, FS_Subset
  <2>4. f \in E /\ Rank(f) \in Nat /\ Rank(e) \in Nat
    BY <1>1, <1>4
  <2> QED  BY <1>3, <1>4, <2>1, <2>3, <2>4
<1> QED  BY <1>4

\* So an execution of publishPending that reads something has something to do.
LEMMA BatchIsNotEmpty ==
  ASSUME TypeOK, Created, NEW E \in SUBSET Event, E # {}
  PROVE  OldestFirst(E) # {}
<1>1. PICK e \in E : older[e] \cap E = {}
  BY SomeEntryIsFirst
<1>2. Cardinality(older[e] \cap E) < Batch
  BY <1>1, FS_EmptySet, BatchAssumption
<1> QED  BY <1>2 DEF OldestFirst

\* What an execution reads holds, with an entry, the older entries it could
\* have read.
LEMMA BatchIsClosed ==
  ASSUME TypeOK, Created, NEW E \in SUBSET Event,
         NEW f \in OldestFirst(E), NEW e \in older[f] \cap E
  PROVE  e \in OldestFirst(E)
<1>1. f \in E /\ f \in Event /\ e \in Event
  BY DEF OldestFirst, TypeOK
<1>2. (older[e] \cap E) \in SUBSET (older[f] \cap E)
  BY <1>1 DEF Created
<1>3. IsFiniteSet(older[f] \cap E) /\ IsFiniteSet(older[e] \cap E)
  BY <1>1, EventAssumption, FS_Subset DEF TypeOK
<1>4. Cardinality(older[e] \cap E) <= Cardinality(older[f] \cap E)
  BY <1>2, <1>3, FS_Subset
<1>5. Cardinality(older[f] \cap E) < Batch
  BY DEF OldestFirst
<1>6. /\ Cardinality(older[e] \cap E) \in Nat
      /\ Cardinality(older[f] \cap E) \in Nat
  BY <1>3, FS_CardinalityType
<1> QED  BY <1>4, <1>5, <1>6, BatchAssumption DEF OldestFirst

----------------------------------------------------------------------------
(* Types.                                                                  *)

IInv == TypeOK /\ InOrder

\* What an execution leaves of what it has read.
LEMMA RestIsPoll ==
  ASSUME TypeOK, NEW p \in Poll, NEW e
  PROVE  /\ Rest(p, e) \in PollState
         /\ Rest(p, e).todo = polls[p].todo \ {e}
         /\ Rest(p, e).at # "mark"
<1>1. polls[p].todo \in SUBSET Event
  BY DEF TypeOK, PollState, Idle
<1> QED  BY <1>1 DEF Rest, PollState, Idle

\* The steps of the service, its polls, the channel and the faults keep types.
LEMMA TypesAreKept ==
  ASSUME IInv, [Next]_vars
  PROVE  TypeOK'
<1> USE DEF IInv, table, count
<1>1. ASSUME NEW e \in Event, BeginTx(e) PROVE TypeOK'
  BY <1>1 DEF BeginTx, TypeOK
<1>2. ASSUME NEW e \in Event, CommitTx(e) PROVE TypeOK'
  BY <1>2 DEF CommitTx, TypeOK
<1>3. ASSUME NEW e \in Event, Rollback(e) PROVE TypeOK'
  BY <1>3 DEF Rollback, Forget, TypeOK
<1>4. ASSUME NEW p \in Poll, Find(p) PROVE TypeOK'
  <2>1. committed \ marked \in SUBSET Event
    BY DEF TypeOK
  <2>2. OldestFirst(committed \ marked) \in (SUBSET Event) \ {{}}
    BY <1>4, <2>1, BatchIsNotEmpty DEF Find, InOrder, OldestFirst
  <2>3. [at |-> "send", todo |-> OldestFirst(committed \ marked)] \in PollState
    BY <2>2 DEF PollState
  <2> QED  BY <1>4, <2>3 DEF Find, SetPoll, TypeOK
<1>5. ASSUME NEW p \in Poll, Send(p) PROVE TypeOK'
  <2>1. PICK e \in Current(p) :
          /\ polls[p].at = "send"
          /\ sent' = sent \cup {e}
          /\ buffer' = Append(buffer, e)
          /\ polls' = [polls EXCEPT ![p] = [polls[p] EXCEPT !.at = "mark"]]
          /\ UNCHANGED <<table, marked, broker, mode, count>>
    BY <1>5 DEF Send, SetPoll
  <2>2. e \in Event /\ [polls[p] EXCEPT !.at = "mark"] \in PollState
    BY <2>1 DEF TypeOK, PollState, Idle, Current
  <2>3. buffer' \in Seq(Event)
    BY <2>1, <2>2 DEF TypeOK
  <2> QED  BY <2>1, <2>2, <2>3 DEF TypeOK
<1>6. ASSUME NEW p \in Poll, SendFails(p) PROVE TypeOK'
  BY <1>6 DEF SendFails, SetPoll, TypeOK, PollState
<1>7. ASSUME NEW p \in Poll, Mark(p) PROVE TypeOK'
  <2>1. Current(p) \subseteq Event
    BY DEF TypeOK, PollState, Idle, Current
  <2> QED  BY <1>7, <2>1, RestIsPoll DEF Mark, SetPoll, TypeOK
<1>8. ASSUME NEW p \in Poll, MarkFails(p) PROVE TypeOK'
  BY <1>8, FaultsAssumption DEF MarkFails, SetPoll, TypeOK, PollState
<1>9. CASE Flush
  <2>1. Head(buffer) \in Event /\ Tail(buffer) \in Seq(Event)
    BY <1>9 DEF Flush, TypeOK
  <2> QED  BY <1>9, <2>1 DEF Flush, TypeOK
<1>10. CASE Disconnect
  BY <1>10, FaultsAssumption DEF Disconnect, TypeOK
<1>11. CASE Crash
  BY <1>11, FaultsAssumption DEF Crash, Forget, TypeOK, PollState
<1>12. CASE Restart
  BY <1>12 DEF Restart, TypeOK
<1>13. CASE UNCHANGED vars
  BY <1>13 DEF vars, TypeOK
<1> QED
  BY <1>1, <1>2, <1>3, <1>4, <1>5, <1>6, <1>7, <1>8, <1>9, <1>10, <1>11,
     <1>12, <1>13 DEF Next, Step

----------------------------------------------------------------------------
(* Order.                                                                  *)

\* The entries of E that an execution which has read E deals with first.
FirstOf(E) == {e \in E : older[e] \cap E = {}}

\* A step of one execution keeps the order if what it still has to publish
\* lacks no cause and what it has published lacked none.
LEMMA PollKeepsOrder ==
  ASSUME IInv, UNCHANGED table, NEW p \in Poll, NEW poll \in PollState,
         polls' = [polls EXCEPT ![p] = poll],
         sent \subseteq sent', sent' \subseteq committed, marked' \subseteq sent',
         poll.todo \subseteq committed,
         \A f \in poll.todo : cause[f] \subseteq sent' \cup poll.todo,
         poll.at = "mark" => FirstOf(poll.todo) \subseteq sent',
         \A f \in sent' : cause[f] \subseteq sent'
  PROVE  InOrder'
<1> USE DEF IInv, table
<1>1. Created'
  BY DEF InOrder, Created
<1>2. ASSUME NEW q \in Poll PROVE ReadInOrder(q)'
  <2>1. CASE q = p
    <3>1. polls'[q] = poll
      BY <2>1 DEF TypeOK
    <3> QED  BY <3>1 DEF ReadInOrder, Current, FirstOf
  <2>2. CASE q # p
    <3>1. polls'[q] = polls[q]
      BY <2>2 DEF TypeOK
    <3>2. ReadInOrder(q)
      BY DEF InOrder
    <3> QED  BY <3>1, <3>2 DEF ReadInOrder, Current
  <2> QED  BY <2>1, <2>2
<1>3. CausalOrder'
  BY DEF CausalOrder
<1> QED  BY <1>1, <1>2, <1>3 DEF InOrder

\* An execution that ends keeps the order.
LEMMA EndKeepsOrder ==
  ASSUME IInv, NEW p \in Poll, SetPoll(p, Idle), UNCHANGED <<table, marked, sent>>
  PROVE  InOrder'
BY PollKeepsOrder DEF SetPoll, Idle, PollState, IInv, InOrder, CausalOrder

\* What publishPending reads lacks no cause: a cause is older, so it was read
\* as well unless it is marked, and then it was sent.
LEMMA FindKeepsOrder ==
  ASSUME IInv, NEW p \in Poll, Find(p)
  PROVE  InOrder'
<1> DEFINE pending == committed \ marked
           poll == [at |-> "send", todo |-> OldestFirst(pending)]
<1>1. pending \in SUBSET Event
  BY DEF IInv, TypeOK
<1>2. poll \in PollState
  BY <1>1, BatchIsNotEmpty DEF Find, IInv, InOrder, OldestFirst, PollState
<1>3. poll.todo \subseteq pending
  BY DEF OldestFirst
<1>4. ASSUME NEW f \in poll.todo, NEW e \in cause[f], e \notin sent
      PROVE  e \in poll.todo
  <2>1. e \in older[f] \cap pending
    BY <1>1, <1>3, <1>4 DEF IInv, InOrder, Created
  <2> QED  BY <1>1, <1>4, <2>1, BatchIsClosed DEF IInv, InOrder
<1> QED
  BY <1>2, <1>3, <1>4, PollKeepsOrder
     DEF Find, SetPoll, IInv, InOrder, CausalOrder

\* The entry that is published is the oldest the execution has left, so none
\* of its causes is left.
LEMMA SendKeepsOrder ==
  ASSUME IInv, NEW p \in Poll, Send(p)
  PROVE  InOrder'
<1> DEFINE todo == polls[p].todo
           poll == [polls[p] EXCEPT !.at = "mark"]
<1>1. PICK e \in Current(p) :
        /\ polls[p].at = "send"
        /\ sent' = sent \cup {e}
        /\ polls' = [polls EXCEPT ![p] = poll]
        /\ UNCHANGED <<table, marked>>
  BY DEF Send, SetPoll
<1>2. /\ polls[p] \in PollState
      /\ todo \subseteq committed /\ committed \subseteq begun
      /\ begun \subseteq Event
  BY DEF IInv, TypeOK, InOrder, ReadInOrder
<1>3. poll \in PollState /\ poll.at = "mark" /\ poll.todo = todo
  BY <1>1, <1>2 DEF PollState, Idle
<1>4. e \in todo /\ older[e] \cap todo = {}
  BY DEF Current
<1>5. cause[e] \subseteq sent
  <2>1. cause[e] \subseteq sent \cup todo
    BY <1>4 DEF IInv, InOrder, ReadInOrder
  <2>2. cause[e] \subseteq older[e]
    BY <1>2, <1>4 DEF IInv, InOrder, Created
  <2> QED  BY <1>4, <2>1, <2>2
<1>6. FirstOf(todo) \subseteq {e}
  <2>1. ASSUME NEW f \in FirstOf(todo), f # e PROVE FALSE
    <3>1. f \in todo /\ older[f] \cap todo = {}
      BY <2>1 DEF FirstOf
    <3>2. e \in older[f] \/ f \in older[e]
      BY <1>2, <1>4, <2>1, <3>1 DEF IInv, InOrder, Created
    <3> QED  BY <1>4, <3>1, <3>2
  <2> QED  BY <2>1
<1>7. \A f \in sent' : cause[f] \subseteq sent'
  BY <1>1, <1>5 DEF IInv, InOrder, CausalOrder
<1>8. \A f \in todo : cause[f] \subseteq sent' \cup todo
  BY <1>1 DEF IInv, InOrder, ReadInOrder
<1>9. sent' \subseteq committed /\ sent \subseteq sent' /\ marked' \subseteq sent'
  BY <1>1, <1>2, <1>4 DEF IInv, InOrder
<1> HIDE DEF todo, poll
<1> QED  BY <1>1, <1>2, <1>3, <1>6, <1>7, <1>8, <1>9, PollKeepsOrder

\* The entry that is marked has been sent, and is what the rest may lack.
LEMMA MarkKeepsOrder ==
  ASSUME IInv, NEW p \in Poll, Mark(p)
  PROVE  InOrder'
<1>1. PICK e \in Current(p) :
        /\ polls[p].at = "mark"
        /\ marked' = marked \cup {e}
        /\ SetPoll(p, Rest(p, e))
        /\ UNCHANGED <<table, sent>>
  BY DEF Mark
<1>2. e \in sent
  BY <1>1 DEF IInv, InOrder, ReadInOrder
<1>3. ReadInOrder(p)
  BY DEF IInv, InOrder
<1>4. /\ Rest(p, e) \in PollState
      /\ Rest(p, e).todo = polls[p].todo \ {e}
      /\ Rest(p, e).at # "mark"
  BY RestIsPoll DEF IInv
<1>5. \A f \in Rest(p, e).todo : cause[f] \subseteq sent \cup Rest(p, e).todo
  BY <1>2, <1>3, <1>4 DEF ReadInOrder
<1> QED
  BY <1>1, <1>2, <1>3, <1>4, <1>5, PollKeepsOrder
     DEF SetPoll, IInv, InOrder, CausalOrder, ReadInOrder

\* Entries that roll back were not visible: nothing has read or followed them.
LEMMA ForgetKeepsOrder ==
  ASSUME IInv, NEW E \in SUBSET (begun \ committed), Forget(E),
         UNCHANGED <<marked, sent>>,
         \A p \in Poll : polls'[p] \in {polls[p], Idle}
  PROVE  InOrder'
<1> USE DEF IInv
<1>1. /\ committed \subseteq begun /\ begun \subseteq Event
      /\ committed' = committed /\ begun' = begun \ E
      /\ \A f \in Event : older'[f] = IF f \in E THEN {} ELSE older[f] \ E
      /\ \A f \in Event : cause'[f] = IF f \in E THEN {} ELSE cause[f]
  BY DEF Forget, TypeOK
<1>2. Created'
  <2>1. Created /\ \A f \in Event : older[f] \in SUBSET Event
    BY DEF InOrder, TypeOK
  <2>2. /\ \A f \in Event \ E : older'[f] = older[f] \ E
        /\ \A f \in Event \ E : cause'[f] = cause[f]
        /\ \A f \in E : older'[f] = {} /\ cause'[f] = {}
        /\ E \cap committed = {} /\ E \subseteq Event
    BY <1>1
  <2>3. ASSUME NEW f \in Event PROVE older'[f] \subseteq begun' \ {f}
    <3>1. older[f] \subseteq begun \ {f}
      BY <2>1 DEF Created
    <3> QED  BY <1>1, <2>2, <3>1
  <2>4. ASSUME NEW f \in Event PROVE cause'[f] \subseteq older'[f] \cap committed'
    <3>1. cause[f] \subseteq older[f] \cap committed
      BY <2>1 DEF Created
    <3> QED  BY <1>1, <2>2, <3>1
  <2>5. ASSUME NEW f \in Event, NEW e \in older'[f]
        PROVE  older'[e] \subseteq older'[f]
    <3>1. f \notin E /\ e \in older[f] /\ e \notin E /\ e \in Event
      BY <2>1, <2>2, <2>5
    <3>2. older[e] \subseteq older[f]
      BY <2>1, <3>1 DEF Created
    <3> QED  BY <2>2, <3>1, <3>2
  <2>6. ASSUME NEW e \in begun', NEW f \in begun'
        PROVE  e = f \/ e \in older'[f] \/ f \in older'[e]
    <3>1. e \in begun \ E /\ f \in begun \ E
      BY <1>1
    <3>2. e = f \/ e \in older[f] \/ f \in older[e]
      BY <2>1, <3>1 DEF Created
    <3> QED  BY <1>1, <2>2, <3>1, <3>2
  <2> QED  BY <2>3, <2>4, <2>5, <2>6 DEF Created
<1>3. ASSUME NEW p \in Poll PROVE ReadInOrder(p)'
  <2>1. CASE polls'[p] = Idle
    BY <2>1 DEF ReadInOrder, Idle
  <2>2. CASE polls'[p] = polls[p]
    <3>1. ReadInOrder(p)
      BY DEF InOrder
    <3>2. \A f \in polls[p].todo :
            /\ cause'[f] = cause[f]
            /\ older'[f] \cap polls[p].todo = older[f] \cap polls[p].todo
      BY <1>1, <3>1 DEF ReadInOrder
    <3> QED  BY <1>1, <2>2, <3>1, <3>2 DEF ReadInOrder, Current
  <2> QED  BY <2>1, <2>2
<1>4. CausalOrder'
  BY <1>1 DEF InOrder, CausalOrder
<1> QED  BY <1>1, <1>2, <1>3, <1>4 DEF InOrder

\* An entry begins as the youngest, after all it may have been caused by.
LEMMA BeginTxKeepsOrder ==
  ASSUME IInv, NEW e \in Event, BeginTx(e)
  PROVE  InOrder'
<1> USE DEF IInv
<1>1. /\ committed \subseteq begun /\ begun \subseteq Event /\ e \notin begun
      /\ committed' = committed /\ begun' = begun \cup {e}
      /\ \A f \in Event : older'[f] = IF f = e THEN begun ELSE older[f]
      /\ \A f \in Event : cause'[f] = IF f = e THEN committed ELSE cause[f]
  BY DEF BeginTx, TypeOK
<1>2. Created'
  <2>1. Created
    BY DEF InOrder
  <2>2. \A f \in Event : older'[f] \subseteq begun' \ {f}
    BY <1>1, <2>1 DEF Created
  <2>3. \A f \in Event : cause'[f] \subseteq older'[f] \cap committed'
    BY <1>1, <2>1 DEF Created
  <2>4. ASSUME NEW f \in Event, NEW x \in older'[f]
        PROVE  older'[x] \subseteq older'[f]
    BY <1>1, <2>1 DEF Created
  <2>5. \A x, y \in begun' : x = y \/ x \in older'[y] \/ y \in older'[x]
    BY <1>1, <2>1 DEF Created
  <2> QED  BY <2>2, <2>3, <2>4, <2>5 DEF Created
<1>3. ASSUME NEW p \in Poll PROVE ReadInOrder(p)'
  <2>1. ReadInOrder(p) /\ polls'[p] = polls[p] /\ sent' = sent
    BY DEF InOrder, BeginTx
  <2>2. \A f \in polls[p].todo : cause'[f] = cause[f] /\ older'[f] = older[f]
    BY <1>1, <2>1 DEF ReadInOrder
  <2> QED  BY <1>1, <2>1, <2>2 DEF ReadInOrder, Current
<1>4. CausalOrder'
  BY <1>1 DEF InOrder, CausalOrder, BeginTx
<1> QED  BY <1>1, <1>2, <1>3, <1>4 DEF InOrder, BeginTx

\* Every step keeps the order.
LEMMA OrderIsKept ==
  ASSUME IInv, [Next]_vars
  PROVE  InOrder'
<1>1. ASSUME NEW e \in Event, CommitTx(e) PROVE InOrder'
  BY <1>1 DEF CommitTx, IInv, InOrder, Created, ReadInOrder, Current, CausalOrder
<1>2. ASSUME NEW e \in Event, Rollback(e) PROVE InOrder'
  BY <1>2, ForgetKeepsOrder DEF Rollback
<1>3. CASE Crash
  <2>1. \A p \in Poll : polls'[p] = Idle
    BY <1>3 DEF Crash
  <2> QED  BY <1>3, <2>1, ForgetKeepsOrder DEF Crash
<1>4. ASSUME NEW p \in Poll, SendFails(p) \/ MarkFails(p) PROVE InOrder'
  BY <1>4, EndKeepsOrder DEF SendFails, MarkFails
<1>5. CASE Flush \/ Disconnect \/ Restart \/ UNCHANGED vars
  BY <1>5 DEF Flush, Disconnect, Restart, vars, table, IInv, InOrder, Created,
              ReadInOrder, Current, CausalOrder
<1> QED
  BY <1>1, <1>2, <1>3, <1>4, <1>5, BeginTxKeepsOrder, FindKeepsOrder,
     SendKeepsOrder, MarkKeepsOrder DEF Next, Step

----------------------------------------------------------------------------
(* The theorems.                                                           *)

\* The type invariant and the order are inductive.
LEMMA Inductive == Spec => []IInv
<1>1. Init => IInv
  BY FaultsAssumption
     DEF Init, IInv, TypeOK, InOrder, Created, ReadInOrder, CausalOrder,
         PollState, Idle
<1>2. IInv /\ [Next]_vars => IInv'
  BY TypesAreKept, OrderIsKept DEF IInv
<1> QED  BY <1>1, <1>2, PTL DEF Spec

\* The table, the executions and the channel have their types; an execution
\* that is not idle has an entry to deal with.
THEOREM TypeCorrect == Spec => []TypeOK
<1>1. IInv => TypeOK
  BY DEF IInv
<1> QED  BY <1>1, Inductive, PTL

\* No event is published before the events its handler may have acted on.
THEOREM PublishedInOrder == Spec => []CausalOrder
<1>1. IInv => CausalOrder
  BY DEF IInv, InOrder
<1> QED  BY <1>1, Inductive, PTL

\* The outbox implements the abstract relay: every step is one of the relay's
\* or leaves its variables alone.
THEOREM OutboxImplementsRelay == Spec => RelaySafety
<1>1. Init => Relay!Init
  BY DEF Init, Relay!Init
<1>2. IInv /\ IInv' /\ [Next]_vars => [Relay!Next]_Relay!vars
  <2> SUFFICES ASSUME IInv, IInv', [Next]_vars
               PROVE  Relay!Next \/ UNCHANGED Relay!vars
    OBVIOUS
  <2> USE DEF table, count, Relay!vars
  <2>1. ASSUME NEW e \in Event, BeginTx(e) PROVE Relay!Next
    BY <2>1 DEF BeginTx, Relay!Next, Relay!Begin
  <2>2. ASSUME NEW e \in Event, CommitTx(e) PROVE Relay!Next
    BY <2>2 DEF CommitTx, Relay!Next, Relay!Commit
  <2>3. ASSUME NEW e \in Event, Rollback(e) PROVE Relay!Next
    <3>1. Relay!Abort({e})
      BY <2>3 DEF Rollback, Forget, Relay!Abort
    <3> QED  BY <3>1, <2>3 DEF Relay!Next
  <2>4. CASE Crash
    <3>1. Relay!Abort(begun \ committed)
      BY <2>4 DEF Crash, Forget, Relay!Abort
    <3>2. begun \ committed \in SUBSET Event
      BY DEF IInv, TypeOK
    <3> QED  BY <3>1, <3>2 DEF Relay!Next
  <2>5. ASSUME NEW p \in Poll, Send(p)
        PROVE  Relay!Next \/ UNCHANGED Relay!vars
    <3>1. PICK e \in Current(p) : sent' = sent \cup {e} /\ UNCHANGED table
      BY <2>5 DEF Send
    <3>2. CASE e \in sent
      BY <3>1, <3>2
    <3>3. CASE e \notin sent
      <4>1. e \in committed /\ e \in Event
        BY <3>1 DEF IInv, InOrder, TypeOK, ReadInOrder, Current
      <4>2. cause[e] \subseteq sent'
        BY <3>1 DEF IInv, InOrder, CausalOrder
      <4>3. e \notin cause[e]
        BY <4>1 DEF IInv, InOrder, Created
      <4>4. Relay!Relay(e)
        BY <3>1, <3>3, <4>1, <4>2, <4>3 DEF Relay!Relay
      <4> QED  BY <4>1, <4>4 DEF Relay!Next
    <3> QED  BY <3>2, <3>3
  <2>6. ASSUME NEW p \in Poll, Find(p) \/ SendFails(p) \/ Mark(p) \/ MarkFails(p)
        PROVE  UNCHANGED Relay!vars
    BY <2>6 DEF Find, SendFails, Mark, MarkFails
  <2>7. CASE Flush \/ Disconnect \/ Restart \/ UNCHANGED vars
    BY <2>7 DEF Flush, Disconnect, Restart, vars
  <2> QED
    BY <2>1, <2>2, <2>3, <2>4, <2>5, <2>6, <2>7 DEF Next, Step
<1> QED
  BY <1>1, <1>2, Inductive, PTL DEF Spec, RelaySafety, Relay!SafeSpec

=============================================================================
