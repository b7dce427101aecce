------------------------------ MODULE MCTickets ------------------------------
(* Small instances of Tickets for TLC: settings of the event's limits, and *)
(* the symmetry of the identities that no property names.                  *)
EXTENDS Tickets, TLC

CONSTANTS t1, t2, t3, u1, u2, b1, b2, s1, s2

OneSeat == {[max |-> 1, reserved |-> 0]}
OneSeatEach == {[max |-> 2, reserved |-> 1]}
OneOrNoneReserved == {[max |-> 2, reserved |-> 1], [max |-> 1, reserved |-> 0]}

Symmetry == Permutations(Ticket) \cup Permutations(User)
              \cup Permutations(Buyer) \cup Permutations(Staff)
=============================================================================
