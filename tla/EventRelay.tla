------------------------------ MODULE EventRelay ------------------------------
(***************************************************************************)
(* What the outbox of packages/common promises to the services that use    *)
(* it, whatever is between the table and the channel: an event that has    *)
(* been committed is relayed, and never before the events that had been    *)
(* committed when its transaction began.                                   *)
(***************************************************************************)
CONSTANT Event

VARIABLES
  begun,        \* events written by a transaction, open or committed
  cause,        \* the events committed when that transaction began
  committed,    \* events whose transaction has committed
  relayed       \* events that have been handed on

vars == <<begun, cause, committed, relayed>>

Init ==
  /\ begun = {}
  /\ cause = [e \in Event |-> {}]
  /\ committed = {}
  /\ relayed = {}

Begin(e) ==
  /\ e \notin begun
  /\ begun' = begun \cup {e}
  /\ cause' = [cause EXCEPT ![e] = committed]
  /\ UNCHANGED <<committed, relayed>>

Commit(e) ==
  /\ e \in begun \ committed
  /\ committed' = committed \cup {e}
  /\ UNCHANGED <<begun, cause, relayed>>

\* The transactions of E roll back; the events may be written again later.
Abort(E) ==
  /\ E \subseteq begun \ committed
  /\ begun' = begun \ E
  /\ cause' = [e \in Event |-> IF e \in E THEN {} ELSE cause[e]]
  /\ UNCHANGED <<committed, relayed>>

Relay(e) ==
  /\ e \in committed \ relayed
  /\ cause[e] \subseteq relayed
  /\ relayed' = relayed \cup {e}
  /\ UNCHANGED <<begun, cause, committed>>

Next ==
  \/ \E e \in Event : Begin(e) \/ Commit(e) \/ Relay(e)
  \/ \E E \in SUBSET Event : Abort(E)

SafeSpec == Init /\ [][Next]_vars
Spec == SafeSpec /\ \A e \in Event : WF_vars(Relay(e))

=============================================================================
