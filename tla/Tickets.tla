------------------------------- MODULE Tickets -------------------------------
(***************************************************************************)
(* Event tickets: the purchase handler, the Stripe webhooks, and the staff *)
(* operations of src/src/website/tickets.go and src/src/website/stripe.go, *)
(* over the tables ticket and ticket_metadata.                             *)
(*                                                                         *)
(* Every SQL statement that another request can see or be seen by is one   *)
(* step; the database runs at READ COMMITTED, so the two SELECTs and the   *)
(* INSERT of a purchase each see what is committed when they start.  A     *)
(* ticket id is a UUID and is never used again.  The metadata row and the  *)
(* counts next to it are read together.  A purchase opens at most          *)
(* one checkout session, so a session is identified with its ticket        *)
(* (ClientReferenceID) and stripe_cs_id with the set `linked'.             *)
(***************************************************************************)
EXTENDS Integers, FiniteSets

CONSTANTS
  Ticket,     \* the UUIDs that purchases and reservations may draw
  User,       \* the site's users
  Buyer,      \* the goroutines serving TicketPurchase
  Hook,       \* the goroutines serving the Stripe webhook
  Staff,      \* the goroutines serving TicketsAdminReserve
  NoUser,     \* the owner of a ticket that has no row
  NoTicket,   \* the ticket of a goroutine that has not drawn one
  Limits,     \* the [max, reserved] settings staff may choose for the event
  DBFaults,   \* TRUE if a single statement may fail on its own
  Crashes     \* TRUE if the web server may be killed and restarted

ASSUME TicketsAssumption ==
  /\ IsFiniteSet(Ticket) /\ IsFiniteSet(Buyer) /\ IsFiniteSet(Staff)
  /\ NoUser \notin User /\ NoTicket \notin Ticket
  /\ Limits \subseteq [max : Nat, reserved : Nat]
  /\ DBFaults \in BOOLEAN /\ Crashes \in BOOLEAN

VARIABLES
  used,         \* ids drawn so far
  rows,         \* the rows of table ticket
  pending,      \* ids whose row has pending = TRUE
  reserved,     \* ids whose row has reserved = TRUE
  linked,       \* ids whose row has its stripe_cs_id
  owner,        \* the user_id of each row
  limits,       \* the row of table ticket_metadata
  saleOpen,     \* the event has not started
  buyer,        \* control state of each purchase request
  gone,         \* purchase requests whose client went away (context canceled)
  hook,         \* control state of each webhook request
  staff,        \* control state of each reservation request
  stripe,       \* Stripe's state of each ticket's checkout session
  shown,        \* tickets whose payment page the buyer was sent to
  events,       \* webhook events Stripe has to deliver
  acked,        \* events answered with 200
  emailed,      \* history: tickets whose purchase e-mail went out
  granted,      \* history: tickets staff reserved for somebody
  revoked,      \* history: tickets staff deleted
  overridden,   \* history: staff changed the limits or a reserved flag
  forgotten,    \* history: tickets with a session id that a clean-up deleted
  stranded      \* history: ids whose row was left by its request before it
                \* had a session id, and without a clean-up

dbVars == <<used, rows, pending, reserved, linked, owner>>
saleVars == <<limits, saleOpen>>
buyerVars == <<buyer, gone>>
stripeVars == <<stripe, shown, events, acked>>
histVars == <<emailed, granted, revoked, overridden, forgotten, stranded>>
vars == <<dbVars, saleVars, buyerVars, hook, staff, stripeVars, histVars>>

Completed(t) == [kind |-> "completed", ticket |-> t]
Expired(t) == [kind |-> "expired", ticket |-> t]

TypeOK ==
  /\ used \subseteq Ticket /\ rows \subseteq used
  /\ pending \subseteq rows /\ reserved \subseteq rows /\ linked \subseteq rows
  /\ owner \in [Ticket -> User \cup {NoUser}]
  /\ limits \in Limits /\ saleOpen \in BOOLEAN
  /\ buyer \in [Buyer ->
       [pc : {"idle", "count", "insert", "session", "link", "cleanup"},
        user : User \cup {NoUser}, ticket : Ticket \cup {NoTicket}]]
  /\ gone \subseteq Buyer
  /\ hook \in [Hook -> [pc : {"idle", "update", "email"},
                        ticket : Ticket \cup {NoTicket}]]
  /\ staff \in [Staff -> {"idle", "insert"}]
  /\ stripe \in [Ticket -> {"none", "open", "paid", "expired"}]
  /\ shown \subseteq Ticket
  /\ events \subseteq {Completed(t) : t \in Ticket} \cup {Expired(t) : t \in Ticket}
  /\ acked \subseteq events
  /\ emailed \subseteq Ticket /\ granted \subseteq used /\ revoked \subseteq used
  /\ overridden \in BOOLEAN
  /\ forgotten \subseteq used /\ stranded \subseteq rows

IdleBuyer == [pc |-> "idle", user |-> NoUser, ticket |-> NoTicket]
IdleHook == [pc |-> "idle", ticket |-> NoTicket]

Init ==
  /\ used = {} /\ rows = {} /\ pending = {} /\ reserved = {} /\ linked = {}
  /\ owner = [t \in Ticket |-> NoUser]
  /\ limits \in Limits /\ saleOpen = TRUE
  /\ buyer = [b \in Buyer |-> IdleBuyer] /\ gone = {}
  /\ hook = [h \in Hook |-> IdleHook]
  /\ staff = [s \in Staff |-> "idle"]
  /\ stripe = [t \in Ticket |-> "none"]
  /\ shown = {} /\ events = {} /\ acked = {}
  /\ emailed = {} /\ granted = {} /\ revoked = {} /\ overridden = FALSE
  /\ forgotten = {} /\ stranded = {}
-----------------------------------------------------------------------------
(* The SQL statements of the handlers. *)

(* fetchTicketMetadataForEvent counts a pending ticket as sold, and every  *)
(* ticket as either sold or reserved.                                      *)
Sold == rows \ reserved
Reserved == rows \cap reserved

RemainingIgnoringPending ==    \* mutant: pending tickets hold no seat
  limits.max - limits.reserved - Cardinality(Sold \ pending)

RemainingTicketsForSale ==
  LET kept == IF limits.reserved >= Cardinality(Reserved)
              THEN limits.reserved ELSE Cardinality(Reserved)
  IN  limits.max - kept - Cardinality(Sold)

RemainingOfAllSeats == limits.max - Cardinality(Reserved)   \* mutant: wrong column

RemainingTicketsForReservation == limits.reserved - Cardinality(Reserved)

HasTicket(u) == \E t \in rows : owner[t] = u

InsertRow(t, u) ==
  /\ t \in Ticket \ used
  /\ used' = used \cup {t}
  /\ rows' = rows \cup {t}
  /\ owner' = [owner EXCEPT ![t] = u]
  /\ UNCHANGED linked

DeleteRows(S) ==
  /\ rows' = rows \ S
  /\ pending' = pending \ S
  /\ reserved' = reserved \ S
  /\ linked' = linked \ S
  /\ owner' = [t \in Ticket |-> IF t \in S THEN NoUser ELSE owner[t]]
  /\ stranded' = stranded \ S
  /\ UNCHANGED used

LeaveConfirmed(t) == UNCHANGED pending        \* mutant: the column's default

MarkPending(t) == pending' = pending \cup {t}

(* UPDATE ticket SET stripe_cs_id ... WHERE id: no row, no effect. *)
Link(t) == linked' = linked \cup ({t} \cap rows)

NothingAbandoned(t) == {}          \* mutant: the expiry event is not handled

(* DELETE ... WHERE stripe_cs_id AND pending, of an expired session. *)
AbandonedBy(t) == {t} \cap pending \cap linked
-----------------------------------------------------------------------------
(* TicketPurchase.  A statement of request b fails because the client went *)
(* away (the handler's context is the request's) or by itself.             *)
AlwaysSucceeds(b) == TRUE          \* mutant: a context that outlives the client
Fails(b) == b \in gone \/ DBFaults
Succeeds(b) == b \notin gone

Go(b, pc) == buyer' = [buyer EXCEPT ![b].pc = pc] /\ UNCHANGED gone
Finish(b) == buyer' = [buyer EXCEPT ![b] = IdleBuyer] /\ gone' = gone \ {b}

(* The requests that hold these tickets end as they are. *)
Strand(S) == stranded' = stranded \cup ((S \cap rows) \ linked)

(* The existing-ticket check passes: this user has no row yet.  All the    *)
(* other outcomes of the check leave the database alone; the redirect to   *)
(* an unfinished checkout is ResumeCheckout.                               *)
FindNoTicket(b, u) ==
  /\ saleOpen
  /\ buyer[b].pc = "idle"
  /\ ~HasTicket(u)
  /\ buyer' = [buyer EXCEPT ![b].pc = "count", ![b].user = u]
  /\ UNCHANGED <<dbVars, saleVars, gone, hook, staff, stripeVars, histVars>>

CountRemaining(b) ==
  /\ buyer[b].pc = "count"
  /\ \/ RemainingTicketsForSale > 0 /\ Succeeds(b) /\ Go(b, "insert")
     \/ (RemainingTicketsForSale <= 0 \/ Fails(b)) /\ Finish(b)
  /\ UNCHANGED <<dbVars, saleVars, hook, staff, stripeVars, histVars>>

(* A commit that reports an error may have taken effect all the same; the  *)
(* request then ends before its clean-up is deferred.                      *)
InsertPending(b) ==
  /\ buyer[b].pc = "insert"
  /\ \/ \E t \in Ticket :
          /\ InsertRow(t, buyer[b].user)
          /\ MarkPending(t)
          /\ UNCHANGED reserved
          /\ \/ /\ Succeeds(b)
                /\ buyer' = [buyer EXCEPT ![b].pc = "session", ![b].ticket = t]
                /\ UNCHANGED <<gone, stranded>>
             \/ Fails(b) /\ Finish(b) /\ stranded' = stranded \cup {t}
     \/ Fails(b) /\ Finish(b) /\ UNCHANGED <<dbVars, stranded>>
  /\ UNCHANGED <<saleVars, hook, staff, stripeVars, emailed, granted, revoked,
                 overridden, forgotten>>

(* session.New does not take the request's context.  If it fails, whatever *)
(* session it may have opened is known to nobody and expires.              *)
CreateSession(b) ==
  /\ buyer[b].pc = "session"
  /\ \/ stripe' = [stripe EXCEPT ![buyer[b].ticket] = "open"] /\ Go(b, "link")
     \/ UNCHANGED stripe /\ Go(b, "cleanup")
  /\ UNCHANGED <<dbVars, saleVars, hook, staff, shown, events, acked, histVars>>

(* An UPDATE that reports an error may have taken effect all the same,     *)
(* because the context was canceled while it ran, or because the           *)
(* connection was lost after the server had committed it.  In the second   *)
(* case the clean-up that follows still has a context that works.          *)
SaveSession(b) ==
  LET t == buyer[b].ticket IN
  /\ buyer[b].pc = "link"
  /\ \/ /\ Succeeds(b) /\ Link(t) /\ shown' = shown \cup {t} /\ Finish(b)
     \/ /\ Fails(b) /\ Go(b, "cleanup") /\ UNCHANGED shown
        /\ Link(t) \/ UNCHANGED linked
  /\ UNCHANGED <<used, rows, pending, reserved, owner, saleVars, hook, staff,
                 stripe, events, acked, histVars>>

(* The deferred DELETE of the pending ticket, with the same context.  It   *)
(* does not ask whether the row has a session id, or is still pending.     *)
CleanUp(b) ==
  LET t == buyer[b].ticket IN
  /\ buyer[b].pc = "cleanup"
  /\ \/ /\ Succeeds(b) /\ DeleteRows({t})
        /\ forgotten' = IF b \in gone THEN forgotten
                        ELSE forgotten \cup ({t} \cap linked)
     \/ Fails(b) /\ Strand({t}) /\ UNCHANGED <<dbVars, forgotten>>
  /\ Finish(b)
  /\ UNCHANGED <<saleVars, hook, staff, stripeVars, emailed, granted, revoked,
                 overridden>>

ClientGoesAway(b) ==
  /\ buyer[b].pc # "idle" /\ b \notin gone
  /\ gone' = gone \cup {b}
  /\ UNCHANGED <<dbVars, saleVars, buyer, hook, staff, stripeVars, histVars>>

(* A buyer with an unfinished purchase is sent back to its checkout. *)
ResumeCheckout(t) ==
  /\ saleOpen
  /\ t \in pending \cap linked /\ stripe[t] = "open"
  /\ shown' = shown \cup {t}
  /\ UNCHANGED <<dbVars, saleVars, buyerVars, hook, staff, stripe, events,
                 acked, histVars>>
-----------------------------------------------------------------------------
(* Stripe: the buyer pays, or the session expires after                    *)
(* TicketPendingExpiration.  Either produces a webhook event, which is     *)
(* delivered until it is acknowledged, perhaps more than once.  The 31     *)
(* minutes outlast the UPDATE of the request that opened the session.      *)
Pay(t) ==
  /\ stripe[t] = "open" /\ t \in shown
  /\ stripe' = [stripe EXCEPT ![t] = "paid"]
  /\ events' = events \cup {Completed(t)}
  /\ UNCHANGED <<dbVars, saleVars, buyerVars, hook, staff, shown, acked,
                 histVars>>

Expire(t) ==
  /\ stripe[t] = "open"
  /\ \A b \in Buyer : buyer[b].pc = "link" => buyer[b].ticket # t
  /\ stripe' = [stripe EXCEPT ![t] = "expired"]
  /\ events' = events \cup {Expired(t)}
  /\ UNCHANGED <<dbVars, saleVars, buyerVars, hook, staff, shown, acked,
                 histVars>>

AlwaysOK(e, ok) == acked' = acked \cup {e}    \* mutant: errors answered with 200

(* The status a webhook request is answered with: 200, or 500. *)
Answer(e, ok) == acked' = IF ok THEN acked \cup {e} ELSE acked

(* stripeCheckoutSessionCompleted: FetchTicket by checkout session.  A     *)
(* session nobody knows ("What could it mean???") is answered with 200.    *)
FetchPaidTicket(h, t) ==
  /\ Completed(t) \in events
  /\ hook[h].pc = "idle"
  /\ \/ /\ t \in linked
        /\ hook' = [hook EXCEPT ![h] = [pc |-> "update", ticket |-> t]]
        /\ UNCHANGED acked
     \/ t \notin linked /\ Answer(Completed(t), TRUE) /\ UNCHANGED hook
  /\ UNCHANGED <<dbVars, saleVars, buyerVars, staff, stripe, shown, events,
                 histVars>>

(* confirmStripeTicketPurchase: the UPDATE, then the e-mail.  If the       *)
(* UPDATE reports an error the answer is 500, whether it took effect or    *)
(* not.                                                                    *)
ConfirmPurchase(h) ==
  /\ hook[h].pc = "update"
  /\ \/ /\ pending' = pending \ {hook[h].ticket}
        /\ hook' = [hook EXCEPT ![h].pc = "email"]
     \/ /\ DBFaults
        /\ pending' \in {pending, pending \ {hook[h].ticket}}
        /\ hook' = [hook EXCEPT ![h] = IdleHook]
  /\ UNCHANGED <<used, rows, reserved, linked, owner, saleVars, buyerVars,
                 staff, stripeVars, histVars>>

SendTicketEmail(h) ==
  LET t == hook[h].ticket IN
  /\ hook[h].pc = "email"
  /\ \/ emailed' = emailed \cup {t} /\ Answer(Completed(t), TRUE)
     \/ UNCHANGED emailed /\ Answer(Completed(t), FALSE)
  /\ hook' = [hook EXCEPT ![h] = IdleHook]
  /\ UNCHANGED <<dbVars, saleVars, buyerVars, staff, stripe, shown, events,
                 granted, revoked, overridden, forgotten, stranded>>

(* stripeCheckoutSessionExpired.  The DELETE, too, may take effect and     *)
(* report an error.                                                        *)
CancelExpired(t) ==
  /\ Expired(t) \in events
  /\ DeleteRows(AbandonedBy(t))
  /\ \E ok \in BOOLEAN : (ok \/ DBFaults) /\ Answer(Expired(t), ok)
  /\ UNCHANGED <<saleVars, buyerVars, hook, staff, stripe, shown, events,
                 emailed, granted, revoked, overridden, forgotten>>
-----------------------------------------------------------------------------
(* TicketsAdminReserve.  Its e-mail follows the commit and only decides    *)
(* the response, so it is not a step.                                      *)
CheckReservation(s) ==
  /\ staff[s] = "idle"
  /\ RemainingTicketsForReservation > 0
  /\ staff' = [staff EXCEPT ![s] = "insert"]
  /\ UNCHANGED <<dbVars, saleVars, buyerVars, hook, stripeVars, histVars>>

InsertReserved(s) ==
  /\ staff[s] = "insert"
  /\ \/ \E t \in Ticket, u \in User :
          /\ InsertRow(t, u)
          /\ reserved' = reserved \cup {t}
          /\ granted' = granted \cup {t}
          /\ UNCHANGED pending
     \/ UNCHANGED <<dbVars, granted>>        \* no such user, or the commit fails
  /\ staff' = [staff EXCEPT ![s] = "idle"]
  /\ UNCHANGED <<saleVars, buyerVars, hook, stripeVars, emailed, revoked,
                 overridden, forgotten, stranded>>

(* TicketDeleteSubmit.  If the row vanishes between its SELECT and its     *)
(* DELETE the handler panics and nothing changes.                          *)
DeleteTicket(t) ==
  /\ t \in rows
  /\ DeleteRows({t})
  /\ revoked' = revoked \cup {t}
  /\ UNCHANGED <<saleVars, buyerVars, hook, staff, stripeVars, emailed,
                 granted, overridden, forgotten>>

(* TicketEditSubmit by staff may flip the reserved flag of any ticket. *)
FlipReserved(t) ==
  /\ t \in rows
  /\ reserved' = IF t \in reserved THEN reserved \ {t} ELSE reserved \cup {t}
  /\ overridden' = TRUE
  /\ UNCHANGED <<used, rows, pending, linked, owner, saleVars, buyerVars, hook,
                 staff, stripeVars, emailed, granted, revoked, forgotten,
                 stranded>>

(* TicketsAdminEventSubmit *)
SetLimits ==
  /\ limits' \in Limits \ {limits}
  /\ overridden' = TRUE
  /\ UNCHANGED <<dbVars, saleOpen, buyerVars, hook, staff, stripeVars, emailed,
                 granted, revoked, forgotten, stranded>>

EventStarts ==
  /\ saleOpen
  /\ saleOpen' = FALSE
  /\ UNCHANGED <<dbVars, limits, buyerVars, hook, staff, stripeVars, histVars>>

(* The web server dies: every request in progress ends where it is. *)
Crash ==
  /\ Crashes
  /\ Strand({buyer[b].ticket : b \in Buyer})
  /\ buyer' = [b \in Buyer |-> IdleBuyer] /\ gone' = {}
  /\ hook' = [h \in Hook |-> IdleHook]
  /\ staff' = [s \in Staff |-> "idle"]
  /\ UNCHANGED <<dbVars, saleVars, stripeVars, emailed, granted, revoked,
                 overridden, forgotten>>
-----------------------------------------------------------------------------
BuyerStep(b) ==
  \/ \E u \in User : FindNoTicket(b, u)
  \/ CountRemaining(b) \/ InsertPending(b) \/ CreateSession(b)
  \/ SaveSession(b) \/ CleanUp(b) \/ ClientGoesAway(b)

StripeStep(t) == ResumeCheckout(t) \/ Pay(t) \/ Expire(t) \/ CancelExpired(t)

HookStep(h) ==
  \/ \E t \in Ticket : FetchPaidTicket(h, t)
  \/ ConfirmPurchase(h) \/ SendTicketEmail(h)

StaffStep(s) == CheckReservation(s) \/ InsertReserved(s)

AdminStep == SetLimits \/ \E t \in Ticket : DeleteTicket(t) \/ FlipReserved(t)

Next ==
  \/ \E b \in Buyer : BuyerStep(b)
  \/ \E t \in Ticket : StripeStep(t)
  \/ \E h \in Hook : HookStep(h)
  \/ \E s \in Staff : StaffStep(s)
  \/ AdminStep \/ EventStarts \/ Crash

Spec == Init /\ [][Next]_vars
-----------------------------------------------------------------------------
(* Properties *)

(* A buyer who paid has a ticket row, unless staff deleted it or it was    *)
(* forgotten: the UPDATE of the session id took effect and reported an     *)
(* error, the buyer's next POST was sent on to that session, and the       *)
(* clean-up of the first deleted the ticket (tickets.go:430, :483, :524).  *)
(* In no other way does the deferred clean-up of a failed purchase, or a   *)
(* late expiry webhook, remove a ticket whose session took the money; a    *)
(* client that goes away during the UPDATE also takes away the context of  *)
(* the clean-up.                                                           *)
PaidKeepsTicket ==
  \A t \in Ticket : stripe[t] = "paid" => t \in rows \cup revoked \cup forgotten

(* A payment webhook is answered with 200 only when there is nothing left  *)
(* to retry: the ticket is confirmed and its e-mail went out, or staff     *)
(* deleted the ticket, or there is none any more because the clean-up      *)
(* forgot it (stripe.go:61).                                               *)
AckedIsConfirmed ==
  \A t \in Ticket : Completed(t) \in acked =>
    t \in ((rows \ pending) \cap emailed) \cup revoked \cup forgotten

(* Counting and inserting are not atomic, but the number of seats sold     *)
(* beyond the limit is bounded: as long as staff change neither the limits *)
(* nor a reserved flag, each concurrent request adds at most one.  With a  *)
(* single request at a time nothing is ever oversold (tickets.go:453).     *)
OversoldBound ==
  \/ overridden \/ Sold = {}
  \/ Cardinality(Sold) + 1 <=
       limits.max - limits.reserved + Cardinality(Buyer)

(* A user holds at most as many bought tickets as there are concurrent     *)
(* purchases; with one at a time, one ticket (tickets.go:416).             *)
TicketsPerUser ==
  \A u \in User :
    Cardinality({t \in rows \ granted : owner[t] = u}) <= Cardinality(Buyer)

(* Checking and inserting apart costs no more than that, neither the event *)
(* nor a single user.                                                      *)
SaleBound == OversoldBound /\ TicketsPerUser

(* The same for reservations (tickets.go:245). *)
ReserveBound ==
  \/ overridden \/ Reserved = {}
  \/ Cardinality(Reserved) + 1 <= limits.reserved + Cardinality(Staff)

(* The sale limit proper.  The doc comment of TicketPurchase               *)
(* (tickets.go:391) claims it: tickets are a limited quantity, so the      *)
(* pending ticket is created "atomically!".                                *)
NeverOversold ==
  overridden \/ Cardinality(Sold) <= limits.max - limits.reserved

(* What the system promises about a single seat: a hold becomes a sale     *)
(* only by payment and ends otherwise only if nobody paid or staff say so. *)
SeatStatus ==
  [t \in Ticket |-> IF t \notin used THEN "free"
                    ELSE IF t \notin rows THEN "void"
                    ELSE IF t \in pending THEN "held" ELSE "sold"]

Seat == INSTANCE TicketLifecycle
          WITH status <- SeatStatus,
               paid <- {t \in Ticket : stripe[t] = "paid"}

SeatPromise == Seat!Spec
-----------------------------------------------------------------------------
(* Liveness.  A request that has been accepted keeps running.  Stripe      *)
(* retries a webhook until it is acknowledged, and neither a failing       *)
(* statement nor a crash hits the same webhook every time, so delivery and *)
(* the successful UPDATE are strongly fair.  A session that stays open     *)
(* expires.  Nothing is assumed of buyers, staff and clients.              *)
Purchases(b) == CountRemaining(b) \/ InsertPending(b) \/ CreateSession(b)
                  \/ SaveSession(b) \/ CleanUp(b)
Confirms(h) == ConfirmPurchase(h) /\ hook'[h].pc = "email"
Cancels(t) == Expired(t) \notin acked /\ CancelExpired(t)
Delivers(h, t) == Completed(t) \notin acked /\ FetchPaidTicket(h, t)

Fairness ==
  /\ \A b \in Buyer : WF_vars(Purchases(b))
  /\ \A h \in Hook :
       /\ WF_vars(ConfirmPurchase(h) \/ SendTicketEmail(h))
       /\ SF_vars(Confirms(h))
       /\ \A t \in Ticket : SF_vars(Delivers(h, t))
  /\ \A t \in Ticket : WF_vars(Expire(t)) /\ WF_vars(Cancels(t))

FairSpec == Spec /\ Fairness

(* Whoever paid gets a confirmed ticket in the end, or staff deleted it,   *)
(* or the clean-up (stripe.go:61, confirmStripeTicketPurchase).            *)
PaidIsConfirmed ==
  \A t \in Ticket :
    stripe[t] = "paid" ~> t \in (rows \ pending) \cup revoked \cup forgotten

(* A pending ticket does not hold its seat for ever: it is sold or deleted *)
(* (tickets.go:479, :509), unless its request died, or its clean-up        *)
(* failed, before the session id was saved; nothing deletes that one       *)
(* (models/ticket.go:22 says that every old pending ticket is deleted).    *)
HoldEnds ==
  \A t \in Ticket : t \in pending ~> t \notin pending \/ t \in stranded

(* A purchase comes to an end: whoever paid gets the ticket, and a hold is *)
(* sold or released (stripe.go:61, tickets.go:509).                        *)
PurchasesEnd == PaidIsConfirmed /\ HoldEnds
=============================================================================
