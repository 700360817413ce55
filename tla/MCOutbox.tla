------------------------------- MODULE MCOutbox -------------------------------
(***************************************************************************)
(* An instance of Outbox for TLC: two entries with faults of every kind,   *)
(* or three, and then a batch may be too small for them, without.          *)
(***************************************************************************)
EXTENDS Outbox

CONSTANTS Third     \* one of the entries

ThirdWithoutFaults == Third \in begun => dbFaults + crashes + disconnects = 0

MCSpec == Init /\ [][Next /\ ThirdWithoutFaults']_vars /\ Fairness

=============================================================================
