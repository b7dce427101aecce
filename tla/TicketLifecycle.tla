--------------------------- MODULE TicketLifecycle ---------------------------
(***************************************************************************)
(* What the ticket system promises about one seat, whatever the requests,  *)
(* webhooks and staff actions that compete for it.  A seat is held while   *)
(* its buyer is at the payment form, is sold only to somebody who paid or  *)
(* whom staff gave it to, and a hold that was paid is given up only if     *)
(* staff take the ticket back, or forgotten if the database may report a   *)
(* statement to have failed which has not.  Tickets.tla implements this    *)
(* specification.                                                          *)
(***************************************************************************)
CONSTANTS
  Ticket,
  DBFaults   \* TRUE if the database may report failures of its own

VARIABLES
  status,   \* what became of each ticket id
  paid,     \* the tickets whose checkout session took the money
  granted,  \* the tickets staff gave away
  revoked,  \* the tickets staff took back
  forgotten \* the tickets of purchases that failed as far as the site knew

vars == <<status, paid, granted, revoked, forgotten>>

Init ==
  /\ status = [t \in Ticket |-> "free"]
  /\ paid = {} /\ granted = {} /\ revoked = {} /\ forgotten = {}

Become(t, s) == status' = [status EXCEPT ![t] = s]

(* A buyer starts a purchase. *)
Hold(t) ==
  /\ status[t] = "free"
  /\ Become(t, "held")
  /\ UNCHANGED <<paid, granted, revoked, forgotten>>

(* The buyer pays; the site does not know it yet. *)
Pay(t) ==
  /\ status[t] = "held" \/ t \in revoked \cup forgotten
  /\ paid' = paid \cup {t}
  /\ UNCHANGED <<status, granted, revoked, forgotten>>

(* The site learns of the payment. *)
Sell(t) ==
  /\ status[t] = "held" /\ t \in paid
  /\ Become(t, "sold")
  /\ UNCHANGED <<paid, granted, revoked, forgotten>>

(* A hold that was not paid is given up. *)
Release(t) ==
  /\ status[t] = "held" /\ t \notin paid
  /\ Become(t, "void")
  /\ UNCHANGED <<paid, granted, revoked, forgotten>>

(* A purchase failed as far as the site knows; its ticket is forgotten,    *)
(* even if the buyer pays, or has paid.                                    *)
Forget(t) ==
  /\ DBFaults
  /\ status[t] \in {"held", "sold"}
  /\ Become(t, "void")
  /\ forgotten' = forgotten \cup {t}
  /\ UNCHANGED <<paid, granted, revoked>>

(* Staff give a ticket away, or take one back. *)
Grant(t) ==
  /\ status[t] = "free"
  /\ Become(t, "sold")
  /\ granted' = granted \cup {t}
  /\ UNCHANGED <<paid, revoked, forgotten>>

Revoke(t) ==
  /\ status[t] \in {"held", "sold"}
  /\ Become(t, "void")
  /\ revoked' = revoked \cup {t}
  /\ UNCHANGED <<paid, granted, forgotten>>

Next == \E t \in Ticket :
  \/ Hold(t) \/ Pay(t) \/ Sell(t) \/ Release(t)
  \/ Forget(t) \/ Grant(t) \/ Revoke(t)

Spec == Init /\ [][Next]_vars
=============================================================================
