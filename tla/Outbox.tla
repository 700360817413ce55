-------------------------------- MODULE Outbox --------------------------------
(***************************************************************************)
(* packages/common: the outbox table of a service, the polls that publish  *)
(* it (outbox.service.ts) and the channel they publish on                  *)
(* (rabbitmq.service.ts).                                                  *)
(*                                                                         *)
(* addToOutbox() inserts an entry in the transaction of its caller.  Every *)
(* two seconds setInterval() starts publishPending(), whether or not the   *)
(* one before has ended: it reads the 100 oldest unpublished entries and,  *)
(* for each of them in turn, publishes it, marks it and saves it; the      *)
(* first error ends the loop.  created_at is now() of PostgreSQL, the time *)
(* the transaction BEGAN, so an entry may appear behind younger ones that  *)
(* were published long ago.                                                *)
(*                                                                         *)
(* channel.publish() of amqplib only writes to the buffer of a socket: the *)
(* channel is not in confirm mode, and a channel that the broker closed is *)
(* never opened again, because ensureConnected() awaits the promise of the *)
(* first connection.                                                       *)
(***************************************************************************)
EXTENDS Naturals, Sequences, FiniteSets

CONSTANTS
  Event,            \* the entries that are ever written
  Poll,             \* executions of publishPending that may overlap
  Batch,            \* how many entries one execution reads (100)
  MaxDbFaults,      \* bounds on the faults: a mark that cannot be saved,
  MaxCrashes,       \* a process that dies,
  MaxDisconnects    \* a connection that the broker closes

ASSUME EventAssumption == IsFiniteSet(Event)
ASSUME BatchAssumption == Batch \in Nat \ {0}
ASSUME FaultsAssumption ==
  MaxDbFaults \in Nat /\ MaxCrashes \in Nat /\ MaxDisconnects \in Nat

VARIABLES
  begun,        \* entries inserted by a transaction, open or committed
  older,        \* the entries begun before it: the order of created_at
  cause,        \* the entries committed when its transaction began
  committed,    \* entries that are visible in the table
  marked,       \* entries with published = true
  polls,        \* the executions of publishPending
  sent,         \* entries that were given to channel.publish (history)
  buffer,       \* what the socket of the channel has not transmitted
  broker,       \* entries that RabbitMQ has (history)
  mode,         \* the process: "up", "unplugged" (no channel) or "down"
  dbFaults, crashes, disconnects

table == <<begun, older, cause, committed>>
count == <<dbFaults, crashes, disconnects>>
vars == <<table, marked, polls, sent, buffer, broker, mode, count>>

Idle == [at |-> "idle", todo |-> {}]

Init ==
  /\ begun = {} /\ committed = {} /\ marked = {} /\ sent = {} /\ broker = {}
  /\ older = [e \in Event |-> {}]
  /\ cause = [e \in Event |-> {}]
  /\ polls = [p \in Poll |-> Idle]
  /\ buffer = <<>>
  /\ mode = "up"
  /\ dbFaults = 0 /\ crashes = 0 /\ disconnects = 0

----------------------------------------------------------------------------
(* The transactions of the service.                                        *)

\* A handler has read its row, opens a transaction and inserts an entry.
BeginTx(e) ==
  /\ mode # "down"
  /\ e \notin begun
  /\ begun' = begun \cup {e}
  /\ older' = [older EXCEPT ![e] = begun]
  /\ cause' = [cause EXCEPT ![e] = committed]
  /\ UNCHANGED <<committed, marked, polls, sent, buffer, broker, mode, count>>

CommitTx(e) ==
  /\ mode # "down"
  /\ e \in begun \ committed
  /\ committed' = committed \cup {e}
  /\ UNCHANGED <<begun, older, cause, marked, polls, sent, buffer, broker,
                 mode, count>>

\* The entries of E were never in the table.
Forget(E) ==
  /\ begun' = begun \ E
  /\ older' = [e \in Event |-> IF e \in E THEN {} ELSE older[e] \ E]
  /\ cause' = [e \in Event |-> IF e \in E THEN {} ELSE cause[e]]
  /\ UNCHANGED committed

Rollback(e) ==
  /\ mode # "down"
  /\ e \in begun \ committed
  /\ Forget({e})
  /\ UNCHANGED <<marked, polls, sent, buffer, broker, mode, count>>

----------------------------------------------------------------------------
(* publishPending.                                                         *)

\* Definitions named after a mistake (YoungestFirst, FindAndMark, AnyOfBatch)
\* are faulty variants of the one that follows; no specification
\* uses them.  They stand in for it when it is checked that a property would
\* notice the mistake.
YoungestFirst(E) ==
  {e \in E : Cardinality({f \in E : e \in older[f]}) < Batch}

\* The first Batch entries of E in the order of created_at.
OldestFirst(E) == {e \in E : Cardinality(older[e] \cap E) < Batch}

SetPoll(p, poll) == polls' = [polls EXCEPT ![p] = poll]

FindAndMark(p) ==
  /\ mode # "down"
  /\ polls[p].at = "idle"
  /\ committed \ marked # {}
  /\ SetPoll(p, [at |-> "send", todo |-> OldestFirst(committed \ marked)])
  /\ marked' = marked \cup OldestFirst(committed \ marked)
  /\ UNCHANGED <<table, sent, buffer, broker, mode, count>>

\* outboxRepo.find(); an execution that finds nothing is no step here.
Find(p) ==
  /\ mode # "down"
  /\ polls[p].at = "idle"
  /\ committed \ marked # {}
  /\ SetPoll(p, [at |-> "send", todo |-> OldestFirst(committed \ marked)])
  /\ UNCHANGED <<table, marked, sent, buffer, broker, mode, count>>

AnyOfBatch(p) == polls[p].todo

\* The entry the loop of p is at.
Current(p) == {e \in polls[p].todo : older[e] \cap polls[p].todo = {}}

\* rabbitMQService.publish().
Send(p) == \E e \in Current(p) :
  /\ mode = "up"
  /\ polls[p].at = "send"
  /\ sent' = sent \cup {e}
  /\ buffer' = Append(buffer, e)
  /\ SetPoll(p, [polls[p] EXCEPT !.at = "mark"])
  /\ UNCHANGED <<table, marked, broker, mode, count>>

\* The loop goes on with the rest of what it read, or ends.
Rest(p, e) ==
  LET rest == polls[p].todo \ {e}
  IN IF rest = {} THEN Idle ELSE [at |-> "send", todo |-> rest]

\* publish() throws because the channel is closed: the loop ends.
SendFails(p) ==
  /\ mode = "unplugged" /\ polls[p].at = "send"
  /\ SetPoll(p, Idle)
  /\ UNCHANGED <<table, marked, sent, buffer, broker, mode, count>>

\* outboxRepo.save(entry) with published = true.
Mark(p) == \E e \in Current(p) :
  /\ polls[p].at = "mark"
  /\ marked' = marked \cup {e}
  /\ SetPoll(p, Rest(p, e))
  /\ UNCHANGED <<table, sent, buffer, broker, mode, count>>

\* That save fails: the loop ends, and the entry will be published again.
MarkFails(p) ==
  /\ polls[p].at = "mark"
  /\ dbFaults < MaxDbFaults
  /\ dbFaults' = dbFaults + 1
  /\ SetPoll(p, Idle)
  /\ UNCHANGED <<table, marked, sent, buffer, broker, mode, crashes, disconnects>>

----------------------------------------------------------------------------
(* The channel and the process.                                            *)

\* The socket transmits in order; messages are persistent once they arrive.
Flush ==
  /\ mode = "up"
  /\ buffer # <<>>
  /\ broker' = broker \cup {Head(buffer)}
  /\ buffer' = Tail(buffer)
  /\ UNCHANGED <<table, marked, polls, sent, mode, count>>

\* The broker closes the connection (it is restarted, for example) and the
\* process goes on without a channel.
Disconnect ==
  /\ mode = "up"
  /\ disconnects < MaxDisconnects
  /\ disconnects' = disconnects + 1
  /\ mode' = "unplugged"
  /\ buffer' = <<>>
  /\ UNCHANGED <<table, marked, polls, sent, broker, dbFaults, crashes>>

\* The process dies: open transactions roll back, executions are gone.
Crash ==
  /\ mode # "down"
  /\ crashes < MaxCrashes
  /\ crashes' = crashes + 1
  /\ mode' = "down"
  /\ buffer' = <<>>
  /\ polls' = [p \in Poll |-> Idle]
  /\ Forget(begun \ committed)
  /\ UNCHANGED <<marked, sent, broker, dbFaults, disconnects>>

\* The container is started again (restart: unless-stopped) and connects.
Restart ==
  /\ mode = "down"
  /\ mode' = "up"
  /\ UNCHANGED <<table, marked, polls, sent, buffer, broker, count>>

Step(p) ==
  Find(p) \/ Send(p) \/ SendFails(p) \/ Mark(p)

Next ==
  \/ \E e \in Event : BeginTx(e) \/ CommitTx(e) \/ Rollback(e)
  \/ \E p \in Poll : Step(p) \/ MarkFails(p)
  \/ Flush \/ Disconnect \/ Crash \/ Restart

Spec == Init /\ [][Next]_vars

\* The timer keeps firing and the database answers, the socket transmits and
\* Docker restarts the container; nobody is assumed to write an entry.
Fairness ==
  /\ \A p \in Poll : WF_vars(Step(p))
  /\ WF_vars(Flush)
  /\ WF_vars(Restart)

FairSpec == Spec /\ Fairness

----------------------------------------------------------------------------
(* Properties.                                                             *)

PollState ==
  [at : {"send", "mark"}, todo : (SUBSET Event) \ {{}}] \cup {Idle}

\* An execution that is not idle has an entry to deal with.
TypeOK ==
  /\ begun \subseteq Event /\ committed \subseteq begun
  /\ older \in [Event -> SUBSET Event] /\ cause \in [Event -> SUBSET Event]
  /\ marked \subseteq Event /\ sent \subseteq Event /\ broker \subseteq Event
  /\ polls \in [Poll -> PollState]
  /\ buffer \in Seq(Event)
  /\ mode \in {"up", "unplugged", "down"}
  /\ dbFaults \in 0 .. MaxDbFaults
  /\ crashes \in 0 .. MaxCrashes
  /\ disconnects \in 0 .. MaxDisconnects

\* An event is not published before the events its handler may have acted on,
\* however polls overlap, entries appear out of order, transactions roll back
\* and the process or the connection dies.
CausalOrder == \A f \in sent : cause[f] \subseteq sent

\* Why that holds.  created_at is a total order of the entries, which places
\* the causes of an entry before it; so what an execution has read contains
\* every cause of its entries that has not been sent.
Created ==
  /\ \A f \in Event : older[f] \subseteq begun \ {f}
  /\ \A f \in Event : cause[f] \subseteq older[f] \cap committed
  /\ \A f \in Event : \A e \in older[f] : older[e] \subseteq older[f]
  /\ \A e, f \in begun : e = f \/ e \in older[f] \/ f \in older[e]

ReadInOrder(p) ==
  /\ polls[p].todo \subseteq committed
  /\ \A f \in polls[p].todo : cause[f] \subseteq sent \cup polls[p].todo
  /\ polls[p].at = "mark" => Current(p) \subseteq sent

InOrder ==
  /\ Created
  /\ marked \subseteq sent /\ sent \subseteq committed
  /\ \A p \in Poll : ReadInOrder(p)
  /\ CausalOrder

\* The outbox, its polls and its faults implement the abstract relay.
Relay == INSTANCE EventRelay WITH relayed <- sent
RelaySafety == Relay!SafeSpec

\* ... and under the fairness above every event that was committed is
\* published, through failures of the database, crashes and restarts, unless
\* the broker closes the connection and the process lives on without it.
PublishedWhileConnected ==
  \A e \in Event : e \in committed ~> e \in sent \/ mode = "unplugged"

\* README.md:77 promises it without the exception: "Events written to DB in
\* same transaction as state changes, then published".
CommittedIsPublished == \A e \in Event : e \in committed ~> e \in sent

=============================================================================
