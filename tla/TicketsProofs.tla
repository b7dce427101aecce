---------------------------- MODULE TicketsProofs ----------------------------
(***************************************************************************)
(* Proofs about Tickets, for every set of users, tickets and requests.     *)
(***************************************************************************)
EXTENDS Tickets, FiniteSetTheorems, TLAPS

-----------------------------------------------------------------------------
(* Type correctness.  TypeOK is not inductive by itself: a request that    *)
(* has left "idle" must be known to hold a ticket, and a webhook request   *)
(* to work on an event that Stripe produced.                               *)
Holding == {"session", "link", "cleanup"}

ProcOK ==
  /\ \A b \in Buyer : buyer[b].pc \in Holding => buyer[b].ticket \in used
  /\ \A h \in Hook : hook[h].pc # "idle" =>
       hook[h].ticket \in Ticket /\ Completed(hook[h].ticket) \in events

TypeInv == TypeOK /\ ProcOK

LEMMA TypeInit == Init => TypeInv
<1> SUFFICES ASSUME Init PROVE TypeInv
  OBVIOUS
<1>1. buyer \in [Buyer ->
        [pc : {"idle", "count", "insert", "session", "link", "cleanup"},
         user : User \cup {NoUser}, ticket : Ticket \cup {NoTicket}]]
  BY DEF Init, IdleBuyer
<1>2. hook \in [Hook -> [pc : {"idle", "update", "email"},
                         ticket : Ticket \cup {NoTicket}]]
  BY DEF Init, IdleHook
<1>3. stripe \in [Ticket -> {"none", "open", "paid", "expired"}]
  BY DEF Init
<1>4. TypeOK
  BY <1>1, <1>2, <1>3 DEF Init, TypeOK
<1>5. ProcOK
  BY DEF Init, ProcOK, Holding, IdleBuyer, IdleHook
<1> QED
  BY <1>4, <1>5 DEF TypeInv

(* A request that ends leaves the others as they were. *)
LEMMA FinishTyped ==
  ASSUME TypeInv, NEW b \in Buyer, Finish(b)
  PROVE  /\ buyer' \in [Buyer ->
              [pc : {"idle", "count", "insert", "session", "link", "cleanup"},
               user : User \cup {NoUser}, ticket : Ticket \cup {NoTicket}]]
         /\ gone' \subseteq Buyer
         /\ \A c \in Buyer : buyer'[c].pc \in Holding =>
              /\ buyer[c].pc \in Holding
              /\ buyer'[c].ticket = buyer[c].ticket
<1>1. IdleBuyer \in [pc : {"idle", "count", "insert", "session", "link", "cleanup"},
                     user : User \cup {NoUser}, ticket : Ticket \cup {NoTicket}]
  BY DEF IdleBuyer
<1> QED
  BY <1>1 DEF Finish, TypeInv, TypeOK, Holding, IdleBuyer

(* A request that has drawn ticket t. *)
LEMMA DrawnTyped ==
  ASSUME NEW PCs, "session" \in PCs, NEW Us, NEW Ts, NEW t \in Ts, NEW b \in Buyer,
         NEW f \in [Buyer -> [pc : PCs, user : Us, ticket : Ts]]
  PROVE  [f EXCEPT ![b].pc = "session", ![b].ticket = t]
           \in [Buyer -> [pc : PCs, user : Us, ticket : Ts]]
<1>1. [[f[b] EXCEPT !.pc = "session"] EXCEPT !.ticket = t] \in [pc : PCs, user : Us, ticket : Ts]
  OBVIOUS
<1> QED
  BY <1>1

(* A request whose user has no ticket yet. *)
LEMMA StartedTyped ==
  ASSUME NEW PCs, "count" \in PCs, NEW Us, NEW Ts, NEW u \in Us, NEW b \in Buyer,
         NEW f \in [Buyer -> [pc : PCs, user : Us, ticket : Ts]]
  PROVE  [f EXCEPT ![b].pc = "count", ![b].user = u]
           \in [Buyer -> [pc : PCs, user : Us, ticket : Ts]]
<1>1. [[f[b] EXCEPT !.pc = "count"] EXCEPT !.user = u] \in [pc : PCs, user : Us, ticket : Ts]
  OBVIOUS
<1> QED
  BY <1>1

LEMMA TypeNext == TypeInv /\ [Next]_vars => TypeInv'
<1> SUFFICES ASSUME TypeInv, [Next]_vars PROVE TypeInv'
  OBVIOUS
<1> USE DEF TypeInv, TypeOK, ProcOK, Holding, dbVars,
        saleVars, buyerVars, stripeVars, histVars
<1>1. ASSUME NEW b \in Buyer, NEW u \in User, FindNoTicket(b, u)
      PROVE  TypeInv'
  <2>1. /\ UNCHANGED <<dbVars, saleVars, gone, hook, staff, stripeVars, histVars>>
        /\ buyer' = [buyer EXCEPT ![b].pc = "count", ![b].user = u]
    BY <1>1 DEF FindNoTicket
  <2>2. buyer' \in [Buyer ->
          [pc : {"idle", "count", "insert", "session", "link", "cleanup"},
           user : User \cup {NoUser}, ticket : Ticket \cup {NoTicket}]]
    BY <2>1, StartedTyped DEF TypeInv, TypeOK
  <2>3. TypeOK'
    BY <2>1, <2>2
  <2>4. ProcOK'
    BY <2>1
  <2> QED
    BY <2>3, <2>4
<1>2. ASSUME NEW b \in Buyer, CountRemaining(b) PROVE TypeInv'
  <2>1. UNCHANGED <<dbVars, saleVars, hook, staff, stripeVars, histVars>>
    BY <1>2 DEF CountRemaining
  <2>2. CASE Go(b, "insert")
    <3>1. TypeOK'
      BY <2>1, <2>2 DEF Go
    <3>2. ProcOK'
      BY <2>1, <2>2 DEF Go
    <3> QED
      BY <3>1, <3>2
  <2>3. CASE Finish(b)
    BY <2>1, <2>3, FinishTyped
  <2> QED
    BY <1>2, <2>2, <2>3 DEF CountRemaining
<1>3. ASSUME NEW b \in Buyer, InsertPending(b) PROVE TypeInv'
  <2>1. UNCHANGED <<saleVars, hook, staff, stripeVars, emailed, granted, revoked,
                    overridden, forgotten>>
    BY <1>3 DEF InsertPending
  <2>2. CASE Finish(b) /\ UNCHANGED <<dbVars, stranded>>
    BY <2>1, <2>2, FinishTyped
  <2>3. ASSUME NEW t \in Ticket, InsertRow(t, buyer[b].user), MarkPending(t),
               UNCHANGED reserved, stranded' \subseteq stranded \cup {t},
               \/ Finish(b)
               \/ /\ buyer' = [buyer EXCEPT ![b].pc = "session", ![b].ticket = t]
                  /\ UNCHANGED gone
        PROVE  TypeInv'
    <3>1. /\ used' = used \cup {t} /\ rows' = rows \cup {t}
          /\ pending' = pending \cup {t} /\ reserved' = reserved
          /\ linked' = linked /\ owner' \in [Ticket -> User \cup {NoUser}]
          /\ stranded' \subseteq rows'
      BY <2>3 DEF InsertRow, MarkPending
    <3>2. CASE Finish(b)
      BY <2>1, <3>1, <3>2, FinishTyped
    <3>3. CASE buyer' = [buyer EXCEPT ![b].pc = "session", ![b].ticket = t]
               /\ UNCHANGED gone
      <4>1. buyer' \in [Buyer ->
              [pc : {"idle", "count", "insert", "session", "link", "cleanup"},
               user : User \cup {NoUser}, ticket : Ticket \cup {NoTicket}]]
        BY <3>3, DrawnTyped DEF TypeInv, TypeOK
      <4>2. \A c \in Buyer : buyer'[c].pc \in Holding => buyer'[c].ticket \in used'
        BY <3>1, <3>3
      <4>3. TypeOK'
        BY <2>1, <3>1, <3>3, <4>1
      <4>4. ProcOK'
        BY <2>1, <4>2
      <4> QED
        BY <4>3, <4>4
    <3> QED
      BY <2>3, <3>2, <3>3
  <2> QED
    BY <1>3, <2>2, <2>3 DEF InsertPending
<1>4. ASSUME NEW b \in Buyer, CreateSession(b) PROVE TypeInv'
  <2>1. buyer[b].ticket \in Ticket
    BY <1>4 DEF CreateSession
  <2>2. stripe' \in [Ticket -> {"none", "open", "paid", "expired"}]
    BY <1>4, <2>1 DEF CreateSession
  <2>3. buyer' \in [Buyer ->
          [pc : {"idle", "count", "insert", "session", "link", "cleanup"},
           user : User \cup {NoUser}, ticket : Ticket \cup {NoTicket}]]
    BY <1>4 DEF CreateSession, Go
  <2>4. TypeOK'
    BY <1>4, <2>2, <2>3 DEF CreateSession, Go
  <2>5. ProcOK'
    BY <1>4 DEF CreateSession, Go
  <2> QED
    BY <2>4, <2>5
<1>5. ASSUME NEW b \in Buyer, SaveSession(b) PROVE TypeInv'
  <2>1. /\ UNCHANGED <<used, rows, pending, reserved, owner, saleVars, hook,
                        staff, stripe, events, acked, histVars>>
        /\ buyer[b].ticket \in Ticket
    BY <1>5 DEF SaveSession
  <2>2. linked' \subseteq rows' /\ shown' \subseteq Ticket
    BY <1>5, <2>1 DEF SaveSession, Link
  <2>3. CASE Finish(b)
    BY <2>1, <2>2, <2>3, FinishTyped
  <2>4. CASE Go(b, "cleanup")
    BY <1>5, <2>1, <2>2, <2>4 DEF SaveSession, Go
  <2> QED
    BY <1>5, <2>3, <2>4 DEF SaveSession
<1>6. ASSUME NEW b \in Buyer, CleanUp(b) PROVE TypeInv'
  <2>1. /\ Finish(b)
        /\ UNCHANGED <<saleVars, hook, staff, stripeVars, emailed, granted, revoked,
                       overridden>>
    BY <1>6 DEF CleanUp
  <2>2. /\ used' = used /\ rows' \subseteq rows
        /\ pending' \subseteq rows' /\ reserved' \subseteq rows'
        /\ linked' \subseteq rows' /\ owner' \in [Ticket -> User \cup {NoUser}]
        /\ forgotten' \subseteq used /\ stranded' \subseteq rows'
    BY <1>6 DEF CleanUp, DeleteRows, Strand
  <2> QED
    BY <2>1, <2>2, FinishTyped
<1>7. ASSUME NEW b \in Buyer, ClientGoesAway(b) PROVE TypeInv'
  BY <1>7 DEF ClientGoesAway
<1>8. ASSUME NEW t \in Ticket, StripeStep(t) PROVE TypeInv'
  BY <1>8 DEF StripeStep, ResumeCheckout, Pay, Expire, CancelExpired,
              DeleteRows, AbandonedBy, Answer
<1>9. ASSUME NEW h \in Hook, HookStep(h) PROVE TypeInv'
  BY <1>9 DEF HookStep, FetchPaidTicket, ConfirmPurchase, SendTicketEmail,
              Answer, IdleHook
<1>10. ASSUME NEW s \in Staff, StaffStep(s) PROVE TypeInv'
  BY <1>10 DEF StaffStep, CheckReservation, InsertReserved, InsertRow
<1>11. CASE AdminStep \/ EventStarts
  <2>1. CASE SetLimits \/ EventStarts
    BY <2>1 DEF SetLimits, EventStarts
  <2>2. ASSUME NEW t \in Ticket, DeleteTicket(t) PROVE TypeInv'
    BY <2>2 DEF DeleteTicket, DeleteRows
  <2>3. ASSUME NEW t \in Ticket, FlipReserved(t) PROVE TypeInv'
    BY <2>3 DEF FlipReserved
  <2> QED
    BY <1>11, <2>1, <2>2, <2>3 DEF AdminStep
<1>12. CASE Crash
  BY <1>12 DEF Crash, Strand, IdleBuyer, IdleHook
<1>13. CASE UNCHANGED vars
  BY <1>13 DEF vars
<1> QED
  BY <1>1, <1>2, <1>3, <1>4, <1>5, <1>6, <1>7, <1>8, <1>9, <1>10, <1>11,
     <1>12, <1>13 DEF Next, BuyerStep

(* Every variable keeps its type, and the flags of a ticket (pending,      *)
(* reserved, stripe_cs_id) never outlive its row.                          *)
THEOREM TypeCorrect == Spec => []TypeOK
<1>1. TypeInv => TypeOK
  BY DEF TypeInv
<1> QED
  BY TypeInit, TypeNext, <1>1, PTL DEF Spec
-----------------------------------------------------------------------------
(* A paid ticket keeps its row.  The argument: a payment page is shown     *)
(* only for a ticket whose row has the session id, so the row can only be  *)
(* removed by staff or by the expiry of a session that was never paid; and *)
(* the deferred clean-up of a purchase either runs before the session id   *)
(* was saved, or fails because its context is canceled, or forgets the     *)
(* ticket, because the database misreported the UPDATE.                    *)

(* A request past its INSERT owns its ticket alone. *)
Exclusive ==
  \A b, c \in Buyer :
    /\ buyer[b].pc \in Holding /\ buyer[c].pc \in Holding
    /\ buyer[b].ticket = buyer[c].ticket
    => b = c

(* Until the session id is saved nobody can pay, and the row stays. *)
BeforeLink ==
  \A b \in Buyer : buyer[b].pc \in {"session", "link"} =>
    /\ buyer[b].ticket \in rows \cup revoked
    /\ buyer[b].ticket \notin linked \cup shown
    /\ buyer[b].pc = "session" => stripe[buyer[b].ticket] = "none"

(* A clean-up that can delete a ticket somebody may pay for follows a      *)
(* statement that failed on its own.                                       *)
CleanUpIsSafe ==
  /\ \A b \in Buyer :
       buyer[b].pc = "cleanup" /\ b \notin gone /\ buyer[b].ticket \in linked =>
         DBFaults
  /\ forgotten # {} => DBFaults

(* What Stripe knows, and what its events say. *)
StripeOK ==
  \A t \in Ticket :
    /\ t \notin used => stripe[t] = "none"
    /\ stripe[t] = "paid" => t \in shown
    /\ t \in shown => t \in used
    /\ t \in shown => t \in linked \cup revoked \cup forgotten \/ stripe[t] = "expired"
    /\ Completed(t) \in events => stripe[t] = "paid"
    /\ Expired(t) \in events => stripe[t] = "expired"

(* A row that is neither pending nor granted was paid; a granted ticket    *)
(* never meets a checkout session; what staff deleted stays deleted.       *)
SeatOK ==
  /\ \A t \in rows \ pending : t \in granted \/ stripe[t] = "paid"
  /\ \A t \in granted : t \notin pending \cup linked /\ stripe[t] = "none"
  /\ \A b \in Buyer :
       buyer[b].pc \in Holding => buyer[b].ticket \notin granted
  /\ (revoked \cup forgotten) \cap rows = {}

PaidInv == Exclusive /\ BeforeLink /\ CleanUpIsSafe /\ StripeOK /\ SeatOK

LEMMA PaidInit == Init => PaidInv
BY DEF Init, PaidInv, Exclusive, BeforeLink, CleanUpIsSafe, StripeOK, SeatOK,
       Holding, IdleBuyer, Completed, Expired

LEMMA PaidNext == TypeInv /\ PaidInv /\ [Next]_vars => PaidInv'
<1> SUFFICES ASSUME TypeInv, PaidInv, [Next]_vars PROVE PaidInv'
  OBVIOUS
<1> USE TicketsAssumption DEF TypeInv, TypeOK, ProcOK, PaidInv, Exclusive,
        BeforeLink, CleanUpIsSafe, StripeOK, SeatOK, Holding, dbVars,
        saleVars, buyerVars, stripeVars, histVars
<1>1. ASSUME NEW b \in Buyer, NEW u \in User, FindNoTicket(b, u)
      PROVE  PaidInv'
  BY <1>1 DEF FindNoTicket
<1>2. ASSUME NEW b \in Buyer, CountRemaining(b) PROVE PaidInv'
  <2>1. CASE Go(b, "insert")
    BY <1>2, <2>1 DEF CountRemaining, Go
  <2>2. CASE Finish(b)
    BY <1>2, <2>2 DEF CountRemaining, Finish, IdleBuyer
  <2> QED
    BY <1>2, <2>1, <2>2 DEF CountRemaining
<1>3. ASSUME NEW b \in Buyer, InsertPending(b) PROVE PaidInv'
  <2>1. Exclusive'
    BY <1>3 DEF InsertPending, InsertRow, MarkPending, Finish, IdleBuyer
  <2>2. BeforeLink'
    BY <1>3 DEF InsertPending, InsertRow, MarkPending, Finish, IdleBuyer
  <2>3. CleanUpIsSafe'
    BY <1>3 DEF InsertPending, InsertRow, MarkPending, Finish, IdleBuyer
  <2>4. StripeOK'
    BY <1>3 DEF InsertPending, InsertRow, MarkPending, Finish, IdleBuyer
  <2>5. SeatOK'
    <3>1. UNCHANGED <<stripe, granted, revoked, forgotten>>
      BY <1>3 DEF InsertPending, stripeVars
    <3>2. PICK S \in SUBSET (Ticket \ used) :
            /\ used' = used \cup S /\ rows' = rows \cup S
            /\ pending' = pending \cup S /\ UNCHANGED linked
            /\ buyer'[b].pc \in Holding => buyer'[b].ticket \in S
      <4>1. CASE \E t \in Ticket : InsertRow(t, buyer[b].user) /\ MarkPending(t)
        <5> PICK t \in Ticket : /\ InsertRow(t, buyer[b].user) /\ MarkPending(t)
                                /\ \/ buyer' = [buyer EXCEPT ![b].pc = "session",
                                                             ![b].ticket = t]
                                   \/ Finish(b)
          BY <1>3, <4>1 DEF InsertPending, InsertRow
        <5> {t} \in SUBSET (Ticket \ used)
          BY DEF InsertRow
        <5> WITNESS {t} \in SUBSET (Ticket \ used)
        <5> QED
          BY DEF InsertRow, MarkPending, Finish, IdleBuyer, Holding
      <4>2. CASE Finish(b) /\ UNCHANGED dbVars
        <5> WITNESS {} \in SUBSET (Ticket \ used)
        <5> QED
          BY <4>2 DEF Finish, IdleBuyer, Holding, dbVars
      <4> QED
        BY <1>3, <4>1, <4>2 DEF InsertPending
    <3>3. \A c \in Buyer : c # b => buyer'[c] = buyer[c]
      BY <1>3 DEF InsertPending, Finish
    <3> QED
      BY <3>1, <3>2, <3>3
  <2> QED
    BY <2>1, <2>2, <2>3, <2>4, <2>5
<1>4. ASSUME NEW b \in Buyer, CreateSession(b) PROVE PaidInv'
  <2>1. Exclusive'
    BY <1>4 DEF CreateSession, Go, Completed, Expired
  <2>2. BeforeLink'
    BY <1>4 DEF CreateSession, Go, Completed, Expired
  <2>3. CleanUpIsSafe'
    BY <1>4 DEF CreateSession, Go, Completed, Expired
  <2>4. StripeOK'
    <3>1. /\ buyer[b].ticket \in used /\ buyer[b].ticket \notin shown
          /\ stripe[buyer[b].ticket] = "none"
      BY <1>4 DEF CreateSession
    <3>2. \A t \in Ticket : \/ stripe'[t] = stripe[t]
                            \/ t = buyer[b].ticket /\ stripe'[t] = "open"
      BY <1>4, <3>1 DEF CreateSession
    <3>3. UNCHANGED <<used, shown, linked, revoked, forgotten, events>>
      BY <1>4 DEF CreateSession
    <3>4. SUFFICES ASSUME NEW t \in Ticket
                   PROVE  (/\ t \notin used => stripe[t] = "none"
                           /\ stripe[t] = "paid" => t \in shown
                           /\ t \in shown => t \in used
                           /\ t \in shown => \/ t \in linked \cup revoked \cup forgotten
                                             \/ stripe[t] = "expired"
                           /\ Completed(t) \in events => stripe[t] = "paid"
                           /\ Expired(t) \in events => stripe[t] = "expired")'
      BY DEF StripeOK
    <3>5. CASE stripe'[t] = stripe[t]
      BY <3>3, <3>5
    <3>6. CASE t = buyer[b].ticket /\ stripe'[t] = "open"
      BY <3>1, <3>3, <3>6
    <3> QED
      BY <3>2, <3>5, <3>6
  <2>5. SeatOK'
    BY <1>4 DEF CreateSession, Go, Completed, Expired
  <2> QED
    BY <2>1, <2>2, <2>3, <2>4, <2>5
<1>5. ASSUME NEW b \in Buyer, SaveSession(b) PROVE PaidInv'
  <2>1. Exclusive'
    BY <1>5 DEF SaveSession, Link, Go, Finish, Fails, IdleBuyer
  <2>2. BeforeLink'
    BY <1>5 DEF SaveSession, Link, Go, Finish, Fails, IdleBuyer
  <2>3. CleanUpIsSafe'
    BY <1>5 DEF SaveSession, Link, Go, Finish, Fails, IdleBuyer
  <2>4. StripeOK'
    BY <1>5 DEF SaveSession, Link, Go, Finish, Fails, IdleBuyer
  <2>5. SeatOK'
    BY <1>5 DEF SaveSession, Link, Go, Finish, Fails, IdleBuyer
  <2> QED
    BY <2>1, <2>2, <2>3, <2>4, <2>5
<1>6. ASSUME NEW b \in Buyer, CleanUp(b) PROVE PaidInv'
  <2>1. Exclusive'
    BY <1>6 DEF CleanUp, DeleteRows, Strand, Finish, IdleBuyer, Succeeds
  <2>2. BeforeLink'
    BY <1>6 DEF CleanUp, DeleteRows, Strand, Finish, IdleBuyer, Succeeds
  <2>3. CleanUpIsSafe'
    BY <1>6 DEF CleanUp, DeleteRows, Strand, Finish, IdleBuyer, Succeeds
  <2>4. StripeOK'
    BY <1>6 DEF CleanUp, DeleteRows, Strand, Finish, IdleBuyer, Succeeds
  <2>5. SeatOK'
    BY <1>6 DEF CleanUp, DeleteRows, Strand, Finish, IdleBuyer, Succeeds
  <2> QED
    BY <2>1, <2>2, <2>3, <2>4, <2>5
<1>7. ASSUME NEW b \in Buyer, ClientGoesAway(b) PROVE PaidInv'
  BY <1>7 DEF ClientGoesAway
<1>8. ASSUME NEW t \in Ticket, ResumeCheckout(t) PROVE PaidInv'
  BY <1>8 DEF ResumeCheckout
<1>9. ASSUME NEW t \in Ticket, Pay(t) PROVE PaidInv'
  BY <1>9 DEF Pay, Completed, Expired
<1>10. ASSUME NEW t \in Ticket, Expire(t) PROVE PaidInv'
  BY <1>10 DEF Expire, Completed, Expired
<1>11. ASSUME NEW t \in Ticket, CancelExpired(t) PROVE PaidInv'
  BY <1>11 DEF CancelExpired, DeleteRows, AbandonedBy
<1>12. ASSUME NEW h \in Hook, HookStep(h) PROVE PaidInv'
  <2>1. Exclusive'
    <3>1. UNCHANGED buyer
      BY <1>12 DEF HookStep, FetchPaidTicket, ConfirmPurchase, SendTicketEmail
    <3> QED
      BY <3>1
  <2>2. BeforeLink'
    BY <1>12 DEF HookStep, FetchPaidTicket, ConfirmPurchase, SendTicketEmail
  <2>3. CleanUpIsSafe'
    BY <1>12 DEF HookStep, FetchPaidTicket, ConfirmPurchase, SendTicketEmail
  <2>4. StripeOK'
    BY <1>12 DEF HookStep, FetchPaidTicket, ConfirmPurchase, SendTicketEmail
  <2>5. SeatOK'
    BY <1>12 DEF HookStep, FetchPaidTicket, ConfirmPurchase, SendTicketEmail
  <2> QED
    BY <2>1, <2>2, <2>3, <2>4, <2>5
<1>13. ASSUME NEW s \in Staff, StaffStep(s) PROVE PaidInv'
  BY <1>13 DEF StaffStep, CheckReservation, InsertReserved, InsertRow
<1>14. ASSUME NEW t \in Ticket, DeleteTicket(t) PROVE PaidInv'
  BY <1>14 DEF DeleteTicket, DeleteRows
<1>15. ASSUME NEW t \in Ticket, FlipReserved(t) PROVE PaidInv'
  BY <1>15 DEF FlipReserved
<1>16. CASE SetLimits \/ EventStarts
  BY <1>16 DEF SetLimits, EventStarts
<1>17. CASE Crash
  BY <1>17 DEF Crash, Strand, IdleBuyer
<1>18. CASE UNCHANGED vars
  BY <1>18 DEF vars
<1> QED
  BY <1>1, <1>2, <1>3, <1>4, <1>5, <1>6, <1>7, <1>8, <1>9, <1>10, <1>11,
     <1>12, <1>13, <1>14, <1>15, <1>16, <1>17, <1>18
  DEF Next, BuyerStep, StripeStep, AdminStep

(* Neither a failing purchase nor an expiry removes the ticket of a buyer  *)
(* who paid, unless an UPDATE was misreported (tickets.go:483, :524).      *)
THEOREM PaidKeepsItsTicket == Spec => []PaidKeepsTicket
<1>1. PaidInv /\ TypeInv => PaidKeepsTicket
  BY DEF PaidInv, StripeOK, PaidKeepsTicket, TypeInv, TypeOK
<1> QED
  BY TypeInit, TypeNext, PaidInit, PaidNext, <1>1, PTL DEF Spec
-----------------------------------------------------------------------------
(* Without statements that fail on their own nothing is forgotten: a       *)
(* client that goes away while the session id is saved takes away the      *)
(* context of the clean-up as well (tickets.go:483).                       *)
THEOREM OnlyFaultsForget == Spec => [](forgotten # {} => DBFaults)
<1>1. PaidInv => (forgotten # {} => DBFaults)
  BY DEF PaidInv, CleanUpIsSafe
<1> QED
  BY TypeInit, TypeNext, PaidInit, PaidNext, <1>1, PTL DEF Spec
-----------------------------------------------------------------------------
(* What is answered with 200 is done.  A webhook that finds no session id  *)
(* answers so too: a session that was paid has had one (StripeOK), so its  *)
(* ticket was deleted by staff or forgotten.  One that is about to send the e-mail has  *)
(* confirmed the ticket, and nothing makes a drawn ticket pending again.   *)
AckInv ==
  /\ \A h \in Hook : hook[h].pc = "email" => hook[h].ticket \notin pending
  /\ \A t \in Ticket : Completed(t) \in acked =>
       t \notin pending /\ t \in emailed \cup revoked \cup forgotten

(* A paid ticket, and so one whose payment Stripe reports, was drawn. *)
LEMMA PaidIsDrawn ==
  ASSUME TypeInv, PaidInv, NEW t \in Ticket, Completed(t) \in events
  PROVE  t \in used /\ t \in linked \cup revoked \cup forgotten
BY DEF PaidInv, StripeOK

(* A step that makes no drawn ticket pending, answers no payment webhook   *)
(* and forgets no e-mail.                                                  *)
LEMMA AckStays ==
  ASSUME TypeInv, PaidInv, AckInv,
         pending' \cap used \subseteq pending,
         emailed \subseteq emailed', revoked \subseteq revoked',
         forgotten \subseteq forgotten',
         \A t \in Ticket : Completed(t) \in acked' => Completed(t) \in acked,
         \A h \in Hook : hook'[h] \in {hook[h], IdleHook}
  PROVE  AckInv'
<1>1. ASSUME NEW h \in Hook, hook'[h].pc = "email" PROVE hook'[h].ticket \notin pending'
  <2>1. hook'[h] = hook[h]
    BY <1>1 DEF IdleHook
  <2>2. hook[h].ticket \in Ticket /\ Completed(hook[h].ticket) \in events
    BY <1>1, <2>1 DEF TypeInv, ProcOK
  <2>3. hook[h].ticket \in used
    BY <2>2, PaidIsDrawn
  <2> QED
    BY <1>1, <2>1, <2>3 DEF AckInv
<1>2. ASSUME NEW t \in Ticket, Completed(t) \in acked'
      PROVE  t \notin pending' /\ t \in emailed' \cup revoked' \cup forgotten'
  <2>1. Completed(t) \in acked /\ Completed(t) \in events
    BY <1>2 DEF TypeInv, TypeOK
  <2>2. t \in used
    BY <2>1, PaidIsDrawn
  <2> QED
    BY <2>1, <2>2 DEF AckInv
<1> QED
  BY <1>1, <1>2 DEF AckInv, Completed

LEMMA AckInit == Init => AckInv
BY DEF Init, AckInv, IdleHook

LEMMA AckNext == TypeInv /\ PaidInv /\ AckInv /\ [Next]_vars => AckInv'
<1> SUFFICES ASSUME TypeInv, PaidInv, AckInv, [Next]_vars PROVE AckInv'
  OBVIOUS
<1>1. ASSUME NEW b \in Buyer, BuyerStep(b) PROVE AckInv'
  <2>1. UNCHANGED <<hook, acked, emailed, revoked>> /\ forgotten \subseteq forgotten'
    BY <1>1 DEF BuyerStep, FindNoTicket, CountRemaining, InsertPending, CreateSession,
         SaveSession, CleanUp, ClientGoesAway, stripeVars, histVars
  <2>2. pending' \cap used \subseteq pending
    BY <1>1 DEF BuyerStep, FindNoTicket, CountRemaining, InsertPending, InsertRow, MarkPending,
         CreateSession, SaveSession, CleanUp, DeleteRows, ClientGoesAway, dbVars
  <2> QED
    BY <2>1, <2>2, AckStays
<1>2. ASSUME NEW t \in Ticket, StripeStep(t) PROVE AckInv'
  <2>1. UNCHANGED <<hook, emailed, revoked, forgotten>> /\ pending' \subseteq pending
    BY <1>2 DEF StripeStep, ResumeCheckout, Pay, Expire, CancelExpired, DeleteRows, dbVars, histVars
  <2>2. ASSUME NEW s \in Ticket, Completed(s) \in acked' PROVE Completed(s) \in acked
    BY <1>2, <2>2 DEF StripeStep, ResumeCheckout, Pay, Expire, CancelExpired, Answer, Completed, Expired
  <2> QED
    BY <2>1, <2>2, AckStays
<1>3. ASSUME NEW h \in Hook, NEW t \in Ticket, FetchPaidTicket(h, t) PROVE AckInv'
  <2>1. CASE t \in linked
    <3>1. UNCHANGED <<pending, acked, emailed, revoked, forgotten>>
      BY <1>3, <2>1 DEF FetchPaidTicket, dbVars, histVars
    <3>2. hook' = [hook EXCEPT ![h] = [pc |-> "update", ticket |-> t]]
      BY <1>3, <2>1 DEF FetchPaidTicket
    <3>3. ASSUME NEW g \in Hook, hook'[g].pc = "email" PROVE hook'[g] = hook[g]
      BY <3>2, <3>3 DEF TypeInv, TypeOK
    <3> QED
      BY <3>1, <3>3 DEF AckInv, Completed
  <2>2. CASE t \notin linked
    <3>1. t \in revoked \cup forgotten /\ t \notin pending
      BY <1>3, <2>2, PaidIsDrawn DEF FetchPaidTicket, TypeInv, TypeOK, PaidInv, SeatOK
    <3> QED
      BY <1>3, <2>2, <3>1 DEF FetchPaidTicket, Answer, AckInv, Completed, dbVars, histVars
  <2> QED
    BY <2>1, <2>2
<1>4. ASSUME NEW h \in Hook, ConfirmPurchase(h) PROVE AckInv'
  BY <1>4 DEF ConfirmPurchase, AckInv, TypeInv, TypeOK, IdleHook, stripeVars, histVars
<1>5. ASSUME NEW h \in Hook, SendTicketEmail(h) PROVE AckInv'
  BY <1>5 DEF SendTicketEmail, Answer, AckInv, TypeInv, TypeOK, IdleHook, Completed, dbVars
<1>6. ASSUME NEW s \in Staff, StaffStep(s) PROVE AckInv'
  BY <1>6, AckStays DEF StaffStep, CheckReservation, InsertReserved, dbVars, stripeVars, histVars
<1>7. CASE AdminStep \/ EventStarts
  <2>1. UNCHANGED <<hook, acked, emailed, forgotten>> /\ revoked \subseteq revoked' /\ pending' \subseteq pending
    BY <1>7 DEF AdminStep, SetLimits, DeleteTicket, DeleteRows, FlipReserved, EventStarts, dbVars,
         stripeVars, histVars
  <2> QED
    BY <2>1, AckStays
<1>8. CASE Crash
  BY <1>8, AckStays DEF Crash, dbVars, stripeVars, histVars
<1>9. CASE UNCHANGED vars
  BY <1>9, AckStays DEF vars, dbVars, stripeVars, histVars
<1> QED
  BY <1>1, <1>2, <1>3, <1>4, <1>5, <1>6, <1>7, <1>8, <1>9 DEF Next, HookStep

(* A payment webhook is answered with 200 only when the ticket is          *)
(* confirmed and its e-mail sent, or staff deleted it, or it was forgotten *)
(* before, so that giving up the retries loses nothing.                    *)
THEOREM AcknowledgedIsDone == Spec => []AckedIsConfirmed
<1>1. TypeInv /\ PaidInv /\ AckInv => AckedIsConfirmed
  BY PaidIsDrawn DEF AckInv, AckedIsConfirmed, TypeInv, TypeOK
<1> QED
  BY TypeInit, TypeNext, PaidInit, PaidNext, AckInit, AckNext, <1>1, PTL DEF Spec
-----------------------------------------------------------------------------
(* The sale limit.  A purchase that has counted the seats and not yet      *)
(* inserted its row is a seat the next count does not see; counting these  *)
(* purchases with the seats sold makes the bound inductive.                *)
Inserting == {b \in Buyer : buyer[b].pc = "insert"}

SaleInv ==
  \/ overridden
  \/ Sold = {} /\ Inserting = {}
  \/ Cardinality(Sold) + Cardinality(Inserting) + 1 <=
       limits.max - limits.reserved + Cardinality(Buyer)

LEMMA SaleInit == Init => SaleInv
BY DEF Init, SaleInv, Sold, Inserting, IdleBuyer

LEMMA SaleFacts ==
  ASSUME TypeInv
  PROVE  /\ IsFiniteSet(Sold) /\ IsFiniteSet(Inserting) /\ IsFiniteSet(Reserved)
         /\ Cardinality(Sold) \in Nat /\ Cardinality(Inserting) \in Nat
         /\ Cardinality(Reserved) \in Nat
         /\ Cardinality(Buyer) \in Nat
         /\ Cardinality(Inserting) <= Cardinality(Buyer)
         /\ limits.max \in Nat /\ limits.reserved \in Nat
<1>1. Sold \subseteq Ticket /\ Reserved \subseteq Ticket /\ Inserting \subseteq Buyer
  BY DEF TypeInv, TypeOK, Sold, Reserved, Inserting
<1>2. IsFiniteSet(Ticket) /\ IsFiniteSet(Buyer)
  BY TicketsAssumption DEF TicketsAssumption
<1>3. limits.max \in Nat /\ limits.reserved \in Nat
  BY TicketsAssumption DEF TicketsAssumption, TypeInv, TypeOK
<1> QED
  BY <1>1, <1>2, <1>3, FS_Subset, FS_CardinalityType

(* A step that sells nothing, lets nobody past the count and leaves the    *)
(* limits alone keeps the bound.                                           *)
LEMMA SaleShrinks ==
  ASSUME TypeInv, TypeInv', SaleInv,
         Sold' \subseteq Sold, Inserting' \subseteq Inserting,
         UNCHANGED <<limits, overridden>>
  PROVE  SaleInv'
<1>1. /\ Cardinality(Sold') <= Cardinality(Sold)
      /\ Cardinality(Inserting') <= Cardinality(Inserting)
      /\ Cardinality(Sold') \in Nat /\ Cardinality(Inserting') \in Nat
  BY SaleFacts, FS_Subset, FS_CardinalityType
<1>2. (Sold = {} => Sold' = {}) /\ (Inserting = {} => Inserting' = {})
  OBVIOUS
<1> QED
  BY <1>1, <1>2, SaleFacts DEF SaleInv

LEMMA SaleNext == TypeInv /\ TypeInv' /\ SaleInv /\ [Next]_vars => SaleInv'
<1> SUFFICES ASSUME TypeInv, TypeInv', SaleInv, [Next]_vars PROVE SaleInv'
  OBVIOUS
<1>1. ASSUME NEW b \in Buyer, CountRemaining(b) PROVE SaleInv'
  <2>1. CASE Finish(b)
    <3>1. Sold' \subseteq Sold /\ UNCHANGED <<limits, overridden>>
      BY <1>1 DEF CountRemaining, dbVars, saleVars, histVars, Sold
    <3>2. Inserting' \subseteq Inserting
      BY <2>1 DEF Finish, Inserting, IdleBuyer, TypeInv, TypeOK
    <3> QED
      BY <3>1, <3>2, SaleShrinks
  <2>2. CASE RemainingTicketsForSale > 0 /\ Go(b, "insert")
    <3>1. UNCHANGED <<Sold, limits, overridden>>
      BY <1>1 DEF CountRemaining, dbVars, saleVars, histVars, Sold
    <3>2. Cardinality(Sold) + 1 <= limits.max - limits.reserved
      BY <2>2, SaleFacts DEF RemainingTicketsForSale
    <3>3. IsFiniteSet(Buyer) /\ Inserting' \subseteq Buyer
      BY TicketsAssumption DEF TicketsAssumption, Inserting
    <3>4. /\ Cardinality(Inserting') <= Cardinality(Buyer)
          /\ Cardinality(Inserting') \in Nat
      BY <3>3, FS_Subset, FS_CardinalityType
    <3> QED
      BY <3>1, <3>2, <3>4, SaleFacts DEF SaleInv
  <2> QED
    BY <1>1, <2>1, <2>2 DEF CountRemaining
<1>2. ASSUME NEW b \in Buyer, InsertPending(b) PROVE SaleInv'
  <2>1. CASE Finish(b) /\ UNCHANGED dbVars
    <3>1. Sold' \subseteq Sold /\ UNCHANGED <<limits, overridden>>
      BY <1>2, <2>1 DEF InsertPending, dbVars, saleVars, histVars, Sold
    <3>2. Inserting' \subseteq Inserting
      BY <2>1 DEF Finish, Inserting, IdleBuyer, TypeInv, TypeOK
    <3> QED
      BY <3>1, <3>2, SaleShrinks
  <2>2. CASE \E t \in Ticket : /\ InsertRow(t, buyer[b].user)
                               /\ UNCHANGED reserved
                               /\ \/ buyer' = [buyer EXCEPT ![b].pc = "session",
                                                            ![b].ticket = t]
                                  \/ Finish(b)
    <3> PICK t \in Ticket : /\ InsertRow(t, buyer[b].user)
                            /\ UNCHANGED reserved
                            /\ \/ buyer' = [buyer EXCEPT ![b].pc = "session",
                                                         ![b].ticket = t]
                               \/ Finish(b)
      BY <2>2
    <3>1. Sold' = Sold \cup {t} /\ t \notin Sold
      BY DEF InsertRow, Sold, TypeInv, TypeOK
    <3>7. b \in Inserting
      BY <1>2 DEF InsertPending, Inserting
    <3>8. /\ buyer'[b].pc # "insert"
          /\ \A c \in Buyer : c # b => buyer'[c].pc = buyer[c].pc
      BY DEF Finish, IdleBuyer, TypeInv, TypeOK
    <3>9. \A c \in Buyer : buyer'[c].pc = "insert" <=> c \in Inserting \ {b}
      BY <3>8 DEF Inserting
    <3>2. Inserting' = Inserting \ {b}
      BY <3>9 DEF Inserting
    <3>3. Cardinality(Sold') = Cardinality(Sold) + 1
      BY <3>1, SaleFacts, FS_AddElement
    <3>4. Cardinality(Inserting') = Cardinality(Inserting) - 1
      BY <3>2, <3>7, SaleFacts, FS_RemoveElement
    <3>5. UNCHANGED <<limits, overridden>>
      BY <1>2 DEF InsertPending, saleVars, histVars
    <3>6. Inserting # {}
      BY <3>7
    <3> QED
      BY <3>3, <3>4, <3>5, <3>6, SaleFacts DEF SaleInv
  <2> QED
    BY <1>2, <2>1, <2>2 DEF InsertPending
<1>3. ASSUME NEW b \in Buyer, \/ \E u \in User : FindNoTicket(b, u)
                              \/ CreateSession(b) \/ SaveSession(b)
                              \/ CleanUp(b) \/ ClientGoesAway(b)
      PROVE  SaleInv'
  <2>1. Sold' \subseteq Sold /\ UNCHANGED <<limits, overridden>>
    BY <1>3 DEF FindNoTicket, CreateSession, SaveSession, CleanUp,
       ClientGoesAway, DeleteRows, dbVars, saleVars, histVars, Sold
  <2>2. Inserting' \subseteq Inserting
    BY <1>3 DEF FindNoTicket, CreateSession, SaveSession, CleanUp,
       ClientGoesAway, Go, Finish, IdleBuyer, Inserting, TypeInv, TypeOK
  <2> QED
    BY <2>1, <2>2, SaleShrinks
<1>4. ASSUME NEW t \in Ticket, StripeStep(t) PROVE SaleInv'
  <2>1. Sold' \subseteq Sold /\ Inserting' \subseteq Inserting
        /\ UNCHANGED <<limits, overridden>>
    BY <1>4 DEF StripeStep, ResumeCheckout, Pay, Expire, CancelExpired,
       DeleteRows, dbVars, saleVars, buyerVars, histVars, Sold, Inserting
  <2> QED
    BY <2>1, SaleShrinks
<1>5. ASSUME NEW h \in Hook, HookStep(h) PROVE SaleInv'
  <2>1. Sold' \subseteq Sold /\ Inserting' \subseteq Inserting
        /\ UNCHANGED <<limits, overridden>>
    BY <1>5 DEF HookStep, FetchPaidTicket, ConfirmPurchase, SendTicketEmail,
       dbVars, saleVars, buyerVars, histVars, Sold, Inserting
  <2> QED
    BY <2>1, SaleShrinks
<1>6. ASSUME NEW s \in Staff, StaffStep(s) PROVE SaleInv'
  <2>1. Sold' \subseteq Sold /\ Inserting' \subseteq Inserting
        /\ UNCHANGED <<limits, overridden>>
    BY <1>6 DEF StaffStep, CheckReservation, InsertReserved, InsertRow,
       dbVars, saleVars, buyerVars, histVars, Sold, Inserting
  <2> QED
    BY <2>1, SaleShrinks
<1>7. CASE AdminStep
  <2>1. CASE SetLimits \/ \E t \in Ticket : FlipReserved(t)
    BY <2>1 DEF SetLimits, FlipReserved, SaleInv
  <2>2. ASSUME NEW t \in Ticket, DeleteTicket(t) PROVE SaleInv'
    <3>1. Sold' \subseteq Sold /\ Inserting' \subseteq Inserting
          /\ UNCHANGED <<limits, overridden>>
      BY <2>2 DEF DeleteTicket, DeleteRows, saleVars, buyerVars, Sold, Inserting
    <3> QED
      BY <3>1, SaleShrinks
  <2> QED
    BY <1>7, <2>1, <2>2 DEF AdminStep
<1>8. CASE EventStarts \/ Crash \/ UNCHANGED vars
  <2>1. Sold' \subseteq Sold /\ Inserting' \subseteq Inserting
        /\ UNCHANGED <<limits, overridden>>
    BY <1>8 DEF EventStarts, Crash, vars, dbVars, saleVars, buyerVars,
       histVars, Sold, Inserting, IdleBuyer
  <2> QED
    BY <2>1, SaleShrinks
<1> QED
  BY <1>1, <1>2, <1>3, <1>4, <1>5, <1>6, <1>7, <1>8 DEF Next, BuyerStep

(* What a user has bought, and the purchases that have looked for a ticket *)
(* of the user and found none: together they are never more than there are *)
(* purchases at a time.                                                    *)
Bought(u) == {t \in rows \ granted : owner[t] = u}
Looked(u) == {b \in Buyer : buyer[b].pc \in {"count", "insert"} /\ buyer[b].user = u}

UserInv ==
  \A u \in User : Cardinality(Bought(u)) + Cardinality(Looked(u)) <= Cardinality(Buyer)

LEMMA UserFacts ==
  ASSUME TypeInv, NEW u \in User
  PROVE  /\ IsFiniteSet(Bought(u)) /\ IsFiniteSet(Looked(u))
         /\ Cardinality(Bought(u)) \in Nat /\ Cardinality(Looked(u)) \in Nat
         /\ Cardinality(Buyer) \in Nat
         /\ Cardinality(Looked(u)) <= Cardinality(Buyer)
<1>1. Bought(u) \subseteq Ticket /\ Looked(u) \subseteq Buyer
  BY DEF TypeInv, TypeOK, Bought, Looked
<1>2. IsFiniteSet(Ticket) /\ IsFiniteSet(Buyer)
  BY TicketsAssumption DEF TicketsAssumption
<1> QED
  BY <1>1, <1>2, FS_Subset, FS_CardinalityType

LEMMA UserInit == Init => UserInv
<1> SUFFICES ASSUME Init, NEW u \in User
             PROVE  Cardinality(Bought(u)) + Cardinality(Looked(u)) <= Cardinality(Buyer)
  BY DEF UserInv
<1>1. Bought(u) = {} /\ Looked(u) = {}
  BY DEF Init, Bought, Looked, IdleBuyer
<1>2. IsFiniteSet(Buyer)
  BY TicketsAssumption DEF TicketsAssumption
<1> QED
  BY <1>1, <1>2, FS_EmptySet, FS_CardinalityType

(* A step that neither sells the user anything nor lets a purchase of the  *)
(* user past its check keeps the bound.                                    *)
LEMMA UserShrinks ==
  ASSUME TypeInv, TypeInv', UserInv, NEW u \in User,
         Bought(u)' \subseteq Bought(u), Looked(u)' \subseteq Looked(u)
  PROVE  Cardinality(Bought(u)') + Cardinality(Looked(u)') <= Cardinality(Buyer)
<1>1. /\ Cardinality(Bought(u)') <= Cardinality(Bought(u))
      /\ Cardinality(Looked(u)') <= Cardinality(Looked(u))
      /\ Cardinality(Bought(u)') \in Nat /\ Cardinality(Looked(u)') \in Nat
  BY UserFacts, FS_Subset, FS_CardinalityType
<1>2. Cardinality(Bought(u)) + Cardinality(Looked(u)) <= Cardinality(Buyer)
  BY DEF UserInv
<1> QED
  BY <1>1, <1>2, UserFacts

LEMMA UserNext == TypeInv /\ TypeInv' /\ UserInv /\ [Next]_vars => UserInv'
<1> SUFFICES ASSUME TypeInv, TypeInv', UserInv, [Next]_vars, NEW u \in User
             PROVE  Cardinality(Bought(u)') + Cardinality(Looked(u)') <= Cardinality(Buyer)
  BY DEF UserInv
<1> DEFINE Goal == Cardinality(Bought(u)') + Cardinality(Looked(u)') <= Cardinality(Buyer)
<1> HIDE DEF Goal
<1>0. ASSUME Bought(u)' \subseteq Bought(u), Looked(u)' \subseteq Looked(u) PROVE Goal
  BY <1>0, UserShrinks DEF Goal
<1>1. ASSUME NEW b \in Buyer, InsertPending(b) PROVE Goal
  <2>1. CASE Finish(b) /\ UNCHANGED dbVars
    <3>1. Bought(u)' \subseteq Bought(u)
      BY <1>1, <2>1 DEF InsertPending, dbVars, histVars, Bought
    <3>2. Looked(u)' \subseteq Looked(u)
      BY <2>1 DEF Finish, Looked, IdleBuyer, TypeInv, TypeOK
    <3> QED
      BY <3>1, <3>2, <1>0
  <2>2. CASE \E t \in Ticket : /\ InsertRow(t, buyer[b].user)
                               /\ \/ buyer' = [buyer EXCEPT ![b].pc = "session",
                                                            ![b].ticket = t]
                                  \/ Finish(b)
    <3> PICK t \in Ticket : /\ InsertRow(t, buyer[b].user)
                            /\ \/ buyer' = [buyer EXCEPT ![b].pc = "session",
                                                         ![b].ticket = t]
                               \/ Finish(b)
      BY <2>2
    <3>1. /\ buyer'[b].pc \notin {"count", "insert"}
          /\ \A c \in Buyer : c # b => buyer'[c] = buyer[c]
      BY DEF Finish, IdleBuyer, TypeInv, TypeOK
    <3>2. Looked(u)' = Looked(u) \ {b}
      BY <3>1 DEF Looked
    <3>3. t \notin rows /\ rows' = rows \cup {t} /\ UNCHANGED granted
      BY <1>1 DEF InsertRow, InsertPending, histVars, TypeInv, TypeOK
    <3>4. /\ owner'[t] = buyer[b].user
          /\ \A s \in Ticket : s # t => owner'[s] = owner[s]
      BY DEF InsertRow, TypeInv, TypeOK
    <3>5. CASE buyer[b].user # u
      <4>1. Bought(u)' \subseteq Bought(u)
        BY <3>3, <3>4, <3>5 DEF Bought, TypeInv, TypeOK
      <4> QED
        BY <4>1, <3>2, <1>0
    <3>6. CASE buyer[b].user = u
      <4>1. Bought(u)' \subseteq Bought(u) \cup {t}
        BY <3>3, <3>4 DEF Bought, TypeInv, TypeOK
      <4>2. b \in Looked(u)
        BY <1>1, <3>6 DEF InsertPending, Looked
      <4>3. t \notin Bought(u)
        BY <3>3 DEF Bought
      <4>4. /\ Cardinality(Bought(u) \cup {t}) = Cardinality(Bought(u)) + 1
            /\ IsFiniteSet(Bought(u) \cup {t})
        BY <4>3, UserFacts, FS_AddElement
      <4>5. /\ Cardinality(Bought(u)') <= Cardinality(Bought(u)) + 1
            /\ Cardinality(Bought(u)') \in Nat
        BY <4>1, <4>4, FS_Subset, FS_CardinalityType
      <4>6. Cardinality(Looked(u)') = Cardinality(Looked(u)) - 1
        BY <3>2, <4>2, UserFacts, FS_RemoveElement
      <4>7. Cardinality(Bought(u)) + Cardinality(Looked(u)) <= Cardinality(Buyer)
        BY DEF UserInv
      <4> QED
        BY <4>5, <4>6, <4>7, UserFacts DEF Goal
    <3> QED
      BY <3>5, <3>6
  <2> QED
    BY <1>1, <2>1, <2>2 DEF InsertPending
<1>2. ASSUME NEW b \in Buyer, NEW v \in User, FindNoTicket(b, v) PROVE Goal
  <2>1. UNCHANGED <<rows, granted, owner>>
    BY <1>2 DEF FindNoTicket, dbVars, histVars
  <2>2. Bought(u)' = Bought(u)
    BY <2>1 DEF Bought
  <2>3. CASE v # u
    <3>1. Looked(u)' \subseteq Looked(u)
      BY <1>2, <2>3 DEF FindNoTicket, Looked, TypeInv, TypeOK
    <3> QED
      BY <2>2, <3>1, <1>0
  <2>4. CASE v = u
    <3>1. Bought(u) = {}
      BY <1>2, <2>4 DEF FindNoTicket, HasTicket, Bought
    <3>2. IsFiniteSet(Buyer) /\ Looked(u)' \subseteq Buyer
      BY TicketsAssumption DEF TicketsAssumption, Looked
    <3>3. Cardinality(Looked(u)') <= Cardinality(Buyer) /\ Cardinality(Looked(u)') \in Nat
      BY <3>2, FS_Subset, FS_CardinalityType
    <3>4. Cardinality(Bought(u)') = 0
      BY <3>1, <2>2, FS_EmptySet
    <3> QED
      BY <3>3, <3>4, UserFacts DEF Goal
  <2> QED
    BY <2>3, <2>4
<1>3. ASSUME NEW b \in Buyer, \/ CountRemaining(b) \/ CreateSession(b) \/ SaveSession(b)
                              \/ CleanUp(b) \/ ClientGoesAway(b)
      PROVE  Goal
  <2>1. Bought(u)' \subseteq Bought(u)
    BY <1>3 DEF CountRemaining, CreateSession, SaveSession, CleanUp, ClientGoesAway,
       DeleteRows, dbVars, saleVars, histVars, Bought, TypeInv, TypeOK
  <2>2. Looked(u)' \subseteq Looked(u)
    BY <1>3 DEF CountRemaining, CreateSession, SaveSession, CleanUp, ClientGoesAway,
       Go, Finish, IdleBuyer, Looked, TypeInv, TypeOK
  <2> QED
    BY <2>1, <2>2, <1>0
<1>4. ASSUME NEW t \in Ticket, StripeStep(t) PROVE Goal
  <2>1. Bought(u)' \subseteq Bought(u) /\ Looked(u)' \subseteq Looked(u)
    BY <1>4 DEF StripeStep, ResumeCheckout, Pay, Expire, CancelExpired,
       DeleteRows, dbVars, buyerVars, histVars, Bought, Looked, TypeInv, TypeOK
  <2> QED
    BY <2>1, <1>0
<1>5. ASSUME NEW h \in Hook, HookStep(h) PROVE Goal
  <2>1. Bought(u)' \subseteq Bought(u) /\ Looked(u)' \subseteq Looked(u)
    BY <1>5 DEF HookStep, FetchPaidTicket, ConfirmPurchase, SendTicketEmail,
       dbVars, buyerVars, histVars, Bought, Looked
  <2> QED
    BY <2>1, <1>0
<1>6. ASSUME NEW s \in Staff, StaffStep(s) PROVE Goal
  <2>1. Looked(u)' \subseteq Looked(u)
    BY <1>6 DEF StaffStep, CheckReservation, InsertReserved, buyerVars, Looked
  <2>2. CASE UNCHANGED <<rows, granted, owner>>
    BY <2>1, <2>2, <1>0 DEF Bought
  <2>3. ASSUME NEW t \in Ticket, NEW v \in User, InsertRow(t, v), granted' = granted \cup {t}
        PROVE Goal
    <3>1. Bought(u)' \subseteq Bought(u)
      BY <2>3 DEF InsertRow, Bought, TypeInv, TypeOK
    <3> QED
      BY <2>1, <3>1, <1>0
  <2> QED
    BY <1>6, <2>2, <2>3 DEF StaffStep, CheckReservation, InsertReserved, dbVars, histVars
<1>7. ASSUME AdminStep PROVE Goal
  <2>1. Bought(u)' \subseteq Bought(u) /\ Looked(u)' \subseteq Looked(u)
    BY <1>7 DEF AdminStep, SetLimits, FlipReserved, DeleteTicket, DeleteRows,
       dbVars, buyerVars, histVars, Bought, Looked, TypeInv, TypeOK
  <2> QED
    BY <2>1, <1>0
<1>8. ASSUME EventStarts \/ Crash \/ UNCHANGED vars PROVE Goal
  <2>1. Bought(u)' \subseteq Bought(u) /\ Looked(u)' \subseteq Looked(u)
    BY <1>8 DEF EventStarts, Crash, vars, dbVars, buyerVars, histVars, Bought, Looked,
       IdleBuyer
  <2> QED
    BY <2>1, <1>0
<1> QED
  BY <1>1, <1>2, <1>3, <1>4, <1>5, <1>6, <1>7, <1>8 DEF Next, BuyerStep, Goal

(* However many purchases race, each can oversell the event by one seat at *)
(* most, and a user ends up with no more tickets than that.                *)
THEOREM SaleIsBounded == Spec => []SaleBound
<1>1. TypeInv /\ SaleInv => OversoldBound
  <2> SUFFICES ASSUME TypeInv, SaleInv PROVE OversoldBound
    OBVIOUS
  <2> QED
    BY SaleFacts DEF SaleInv, OversoldBound
<1>2. TypeInv /\ UserInv => TicketsPerUser
  <2> SUFFICES ASSUME TypeInv, UserInv, NEW u \in User
               PROVE  Cardinality(Bought(u)) <= Cardinality(Buyer)
    BY DEF TicketsPerUser, Bought
  <2> QED
    BY UserFacts DEF UserInv
<1>3. OversoldBound /\ TicketsPerUser => SaleBound
  BY DEF SaleBound
<1> QED
  BY TypeInit, TypeNext, SaleInit, SaleNext, UserInit, UserNext, <1>1, <1>2, <1>3, PTL DEF Spec
-----------------------------------------------------------------------------
(* The reservation limit, in the same way: a reservation that has passed   *)
(* the check and not yet inserted its row counts as a seat.                *)
Reserving == {s \in Staff : staff[s] = "insert"}

ReserveInv ==
  \/ overridden
  \/ Reserved = {} /\ Reserving = {}
  \/ Cardinality(Reserved) + Cardinality(Reserving) + 1 <=
       limits.reserved + Cardinality(Staff)

LEMMA ReserveInit == Init => ReserveInv
BY DEF Init, ReserveInv, Reserved, Reserving

LEMMA ReserveFacts ==
  ASSUME TypeInv
  PROVE  /\ IsFiniteSet(Reserved) /\ IsFiniteSet(Reserving)
         /\ Cardinality(Reserved) \in Nat /\ Cardinality(Reserving) \in Nat
         /\ Cardinality(Staff) \in Nat
         /\ Cardinality(Reserving) <= Cardinality(Staff)
         /\ limits.reserved \in Nat
<1>1. Reserved \subseteq Ticket /\ Reserving \subseteq Staff
  BY DEF TypeInv, TypeOK, Reserved, Reserving
<1>2. IsFiniteSet(Ticket) /\ IsFiniteSet(Staff)
  BY TicketsAssumption DEF TicketsAssumption
<1>3. limits.reserved \in Nat
  BY TicketsAssumption DEF TicketsAssumption, TypeInv, TypeOK
<1> QED
  BY <1>1, <1>2, <1>3, FS_Subset, FS_CardinalityType

LEMMA ReserveShrinks ==
  ASSUME TypeInv, TypeInv', ReserveInv,
         Reserved' \subseteq Reserved, Reserving' \subseteq Reserving,
         UNCHANGED <<limits, overridden>>
  PROVE  ReserveInv'
<1>1. /\ Cardinality(Reserved') <= Cardinality(Reserved)
      /\ Cardinality(Reserving') <= Cardinality(Reserving)
      /\ Cardinality(Reserved') \in Nat /\ Cardinality(Reserving') \in Nat
  BY ReserveFacts, FS_Subset, FS_CardinalityType
<1>2. (Reserved = {} => Reserved' = {}) /\ (Reserving = {} => Reserving' = {})
  OBVIOUS
<1> QED
  BY <1>1, <1>2, ReserveFacts DEF ReserveInv

LEMMA ReserveNext ==
  TypeInv /\ TypeInv' /\ ReserveInv /\ [Next]_vars => ReserveInv'
<1> SUFFICES ASSUME TypeInv, TypeInv', ReserveInv, [Next]_vars PROVE ReserveInv'
  OBVIOUS
<1>1. ASSUME NEW s \in Staff, CheckReservation(s) PROVE ReserveInv'
  <2>1. UNCHANGED <<Reserved, limits, overridden>>
    BY <1>1 DEF CheckReservation, dbVars, saleVars, histVars, Reserved
  <2>2. Cardinality(Reserved) + 1 <= limits.reserved
    BY <1>1, ReserveFacts DEF CheckReservation, RemainingTicketsForReservation
  <2>3. /\ Cardinality(Reserving') <= Cardinality(Staff)
        /\ Cardinality(Reserving') \in Nat
    <3>1. IsFiniteSet(Staff) /\ Reserving' \subseteq Staff
      BY TicketsAssumption DEF TicketsAssumption, Reserving
    <3> QED
      BY <3>1, FS_Subset, FS_CardinalityType
  <2> QED
    BY <2>1, <2>2, <2>3, ReserveFacts DEF ReserveInv
<1>2. ASSUME NEW s \in Staff, InsertReserved(s) PROVE ReserveInv'
  <2>1. s \in Reserving /\ Reserving' = Reserving \ {s}
    BY <1>2 DEF InsertReserved, Reserving, TypeInv, TypeOK
  <2>2. UNCHANGED <<limits, overridden>>
    BY <1>2 DEF InsertReserved, saleVars
  <2>3. CASE UNCHANGED dbVars
    <3>1. Reserved' \subseteq Reserved
      BY <2>3 DEF dbVars, Reserved
    <3> QED
      BY <2>1, <2>2, <3>1, ReserveShrinks
  <2>4. ASSUME NEW t \in Ticket, NEW u \in User, InsertRow(t, u),
               reserved' = reserved \cup {t}
        PROVE  ReserveInv'
    <3>1. Reserved' = Reserved \cup {t} /\ t \notin Reserved
      BY <2>4 DEF InsertRow, Reserved, TypeInv, TypeOK
    <3>2. Cardinality(Reserved') = Cardinality(Reserved) + 1
      BY <3>1, ReserveFacts, FS_AddElement
    <3>3. Cardinality(Reserving') = Cardinality(Reserving) - 1
      BY <2>1, ReserveFacts, FS_RemoveElement
    <3>4. Reserving # {}
      BY <2>1
    <3> QED
      BY <2>2, <3>2, <3>3, <3>4, ReserveFacts DEF ReserveInv
  <2> QED
    BY <1>2, <2>3, <2>4 DEF InsertReserved
<1>3. CASE SetLimits \/ \E t \in Ticket : FlipReserved(t)
  BY <1>3 DEF SetLimits, FlipReserved, ReserveInv
<1>4. ASSUME NEW b \in Buyer, BuyerStep(b) PROVE ReserveInv'
  <2>1. UNCHANGED <<staff, limits, overridden>>
    BY <1>4 DEF BuyerStep, FindNoTicket, CountRemaining, InsertPending, CreateSession,
       SaveSession, CleanUp, ClientGoesAway, saleVars, histVars
  <2>2. Reserved' \subseteq Reserved
    <3>1. CASE InsertPending(b)
      BY <3>1 DEF InsertPending, InsertRow, dbVars, Reserved, TypeInv, TypeOK
    <3>2. CASE ~InsertPending(b)
      BY <1>4, <3>2 DEF BuyerStep, FindNoTicket, CountRemaining, CreateSession,
         SaveSession, CleanUp, ClientGoesAway, DeleteRows, dbVars, Reserved
    <3> QED
      BY <3>1, <3>2
  <2> QED
    BY <2>1, <2>2, ReserveShrinks DEF Reserving
<1>5. CASE \/ \E t \in Ticket : StripeStep(t) \/ DeleteTicket(t)
           \/ \E h \in Hook : HookStep(h)
           \/ EventStarts \/ Crash \/ UNCHANGED vars
  <2>1. UNCHANGED <<limits, overridden>> /\ Reserving' \subseteq Reserving
    BY <1>5 DEF StripeStep, ResumeCheckout, Pay, Expire, CancelExpired, DeleteTicket,
       HookStep, FetchPaidTicket, ConfirmPurchase, SendTicketEmail, EventStarts, Crash,
       vars, saleVars, histVars, Reserving
  <2>2. Reserved' \subseteq Reserved
    BY <1>5 DEF StripeStep, ResumeCheckout, Pay, Expire, CancelExpired, DeleteTicket,
       HookStep, FetchPaidTicket, ConfirmPurchase, SendTicketEmail, EventStarts, Crash,
       vars, dbVars, DeleteRows, Reserved
  <2> QED
    BY <2>1, <2>2, ReserveShrinks
<1> QED
  BY <1>1, <1>2, <1>3, <1>4, <1>5 DEF Next, StaffStep, AdminStep

(* However many reservations race, each can exceed the seats kept for      *)
(* staff by one at most (tickets.go:245).                                  *)
THEOREM ReservationsAreBounded == Spec => []ReserveBound
<1>1. TypeInv /\ ReserveInv => ReserveBound
  <2> SUFFICES ASSUME TypeInv, ReserveInv PROVE ReserveBound
    OBVIOUS
  <2> QED
    BY ReserveFacts DEF ReserveInv, ReserveBound
<1> QED
  BY TypeInit, TypeNext, ReserveInit, ReserveNext, <1>1, PTL DEF Spec
-----------------------------------------------------------------------------
(* The refinement of TicketLifecycle.  The tickets whose session took the  *)
(* money, and what a step that does not touch the seats leaves.            *)
Paid == {t \in Ticket : stripe[t] = "paid"}

LEMMA SeatStutters ==
  ASSUME UNCHANGED <<used, rows, pending, granted, revoked, forgotten>>, Paid' = Paid
  PROVE  UNCHANGED Seat!vars
BY DEF Seat!vars, SeatStatus, Paid

(* A step that changes the status of ticket t only. *)
LEMMA SeatBecomes ==
  ASSUME NEW t \in Ticket, NEW s,
         \A x \in Ticket \ {t} : /\ x \in used' <=> x \in used
                                 /\ x \in rows' <=> x \in rows
                                 /\ x \in pending' <=> x \in pending,
         SeatStatus'[t] = s
  PROVE  Seat!Become(t, s)
BY DEF SeatStatus, Seat!Become

(* Deleting the row of a pending ticket that was not paid gives it up.     *)
LEMMA SeatReleased ==
  ASSUME TypeInv, NEW t \in Ticket, DeleteRows({t} \cap pending), t \notin Paid,
         UNCHANGED <<stripe, granted, revoked, forgotten>>
  PROVE  [Seat!Next]_(Seat!vars)
<1>1. CASE t \in pending
  <2>1. t \in used /\ t \in rows /\ t \notin rows' /\ used' = used
    BY <1>1 DEF DeleteRows, TypeInv, TypeOK
  <2>2. SeatStatus[t] = "held" /\ SeatStatus'[t] = "void"
    BY <1>1, <2>1 DEF SeatStatus
  <2>3. Seat!Become(t, "void")
    BY <1>1, <2>2, SeatBecomes DEF DeleteRows
  <2>4. Seat!Release(t)
    BY <2>2, <2>3 DEF Seat!Release, Paid
  <2> QED
    BY <2>4 DEF Seat!Next
<1>2. CASE t \notin pending
  <2>1. UNCHANGED <<used, rows, pending, granted, revoked, forgotten>> /\ Paid' = Paid
    BY <1>2 DEF DeleteRows, Paid
  <2> QED
    BY <2>1, SeatStutters
<1> QED
  BY <1>1, <1>2

LEMMA SeatNext == TypeInv /\ PaidInv /\ [Next]_vars => [Seat!Next]_(Seat!vars)
<1> SUFFICES ASSUME TypeInv, PaidInv, [Next]_vars PROVE [Seat!Next]_(Seat!vars)
  OBVIOUS
<1> USE DEF TypeInv, PaidInv
<1>1. ASSUME NEW b \in Buyer, InsertPending(b) PROVE [Seat!Next]_(Seat!vars)
  <2>1. CASE UNCHANGED dbVars
    BY <1>1, <2>1, SeatStutters DEF InsertPending, dbVars, stripeVars, histVars, Paid
  <2>2. ASSUME NEW t \in Ticket, InsertRow(t, buyer[b].user), MarkPending(t)
        PROVE  [Seat!Next]_(Seat!vars)
    <3>1. t \notin used /\ t \in used' /\ t \in rows' /\ t \in pending'
      BY <2>2 DEF InsertRow, MarkPending
    <3>2. SeatStatus[t] = "free" /\ SeatStatus'[t] = "held"
      BY <3>1 DEF SeatStatus
    <3>3. Seat!Become(t, "held")
      BY <2>2, <3>2, SeatBecomes DEF InsertRow, MarkPending
    <3>4. Seat!Hold(t)
      BY <1>1, <3>2, <3>3 DEF Seat!Hold, InsertPending, stripeVars, histVars
    <3> QED
      BY <3>4 DEF Seat!Next
  <2> QED
    BY <1>1, <2>1, <2>2 DEF InsertPending
<1>2. ASSUME NEW b \in Buyer, CreateSession(b) PROVE [Seat!Next]_(Seat!vars)
  <2>1. stripe[buyer[b].ticket] = "none"
    BY <1>2 DEF CreateSession, BeforeLink
  <2>2. Paid' = Paid
    BY <1>2, <2>1 DEF CreateSession, Paid, TypeOK
  <2> QED
    BY <1>2, <2>2, SeatStutters DEF CreateSession, dbVars, histVars
<1>3. ASSUME NEW b \in Buyer, CleanUp(b) PROVE [Seat!Next]_(Seat!vars)
  <2>1. PICK t \in Ticket : t = buyer[b].ticket
    BY <1>3 DEF CleanUp, ProcOK, Holding, TypeOK
  <2>2. UNCHANGED <<stripe, granted, revoked>> /\ Paid' = Paid
    BY <1>3 DEF CleanUp, stripeVars, Paid
  <2>3. CASE Succeeds(b) /\ DeleteRows({t}) /\ t \in linked
    <3>1. DBFaults /\ forgotten' = forgotten \cup {t}
      BY <1>3, <2>1, <2>3 DEF CleanUp, CleanUpIsSafe, Succeeds, DeleteRows, dbVars, TypeOK
    <3>2. t \in used /\ t \in rows /\ t \notin rows' /\ used' = used
      BY <2>3 DEF DeleteRows, TypeOK
    <3>3. SeatStatus[t] \in {"held", "sold"} /\ SeatStatus'[t] = "void"
      BY <3>2 DEF SeatStatus
    <3>4. Seat!Become(t, "void")
      BY <2>3, <3>3, SeatBecomes DEF DeleteRows
    <3>5. Seat!Forget(t)
      BY <2>2, <3>1, <3>3, <3>4 DEF Seat!Forget, Paid
    <3> QED
      BY <3>5 DEF Seat!Next
  <2>4. CASE Succeeds(b) /\ DeleteRows({t}) /\ t \notin linked
    <3>1. forgotten' = forgotten
      BY <1>3, <2>1, <2>4 DEF CleanUp, Succeeds
    <3>2. CASE t \in pending
      <4>1. t \in rows /\ t \notin revoked \cup forgotten
        BY <3>2 DEF SeatOK, TypeOK
      <4>2. t \notin Paid
        BY <2>4, <4>1 DEF StripeOK, Paid
      <4>3. DeleteRows({t} \cap pending)
        BY <2>4, <3>2 DEF DeleteRows
      <4> QED
        BY <2>2, <3>1, <4>2, <4>3, SeatReleased
    <3>3. CASE t \notin pending
      <4>1. t \notin rows
        BY <1>3, <2>1, <2>4, <3>3 DEF CleanUp, SeatOK, StripeOK, Holding, TypeOK
      <4>2. UNCHANGED <<used, rows, pending>>
        BY <2>4, <3>3, <4>1 DEF DeleteRows
      <4> QED
        BY <2>2, <3>1, <4>2, SeatStutters
    <3> QED
      BY <3>2, <3>3
  <2>5. CASE UNCHANGED <<dbVars, forgotten>>
    BY <2>2, <2>5, SeatStutters DEF dbVars
  <2> QED
    BY <1>3, <2>1, <2>3, <2>4, <2>5 DEF CleanUp, Succeeds
<1>4. ASSUME NEW t \in Ticket, Pay(t) PROVE [Seat!Next]_(Seat!vars)
  <2>1. stripe[t] = "open" /\ t \in linked \cup revoked \cup forgotten
    BY <1>4 DEF Pay, StripeOK
  <2>2. t \in linked => t \in rows /\ t \in used /\ t \in pending
    BY <2>1 DEF SeatOK, TypeOK
  <2>3. SeatStatus[t] = "held" \/ t \in revoked \cup forgotten
    BY <2>1, <2>2 DEF SeatStatus
  <2>4. Paid' = Paid \cup {t}
    BY <1>4 DEF Pay, Paid, TypeOK
  <2>5. UNCHANGED <<SeatStatus, granted, revoked, forgotten>>
    BY <1>4 DEF Pay, dbVars, histVars, SeatStatus
  <2>6. Seat!Pay(t)
    BY <2>3, <2>4, <2>5 DEF Seat!Pay, Paid
  <2> QED
    BY <2>6 DEF Seat!Next
<1>5. ASSUME NEW t \in Ticket, Expire(t) PROVE [Seat!Next]_(Seat!vars)
  <2>1. Paid' = Paid
    BY <1>5 DEF Expire, Paid, TypeOK
  <2> QED
    BY <1>5, <2>1, SeatStutters DEF Expire, dbVars, histVars
<1>6. ASSUME NEW t \in Ticket, CancelExpired(t) PROVE [Seat!Next]_(Seat!vars)
  <2>1. t \notin Paid /\ UNCHANGED <<stripe, granted, revoked, forgotten>>
    BY <1>6 DEF CancelExpired, StripeOK, Paid, histVars
  <2>2. CASE t \in linked
    <3>1. AbandonedBy(t) = {t} \cap pending
      BY <2>2 DEF AbandonedBy
    <3> QED
      BY <1>6, <2>1, <3>1, SeatReleased DEF CancelExpired
  <2>3. CASE t \notin linked
    <3>1. AbandonedBy(t) = {}
      BY <2>3 DEF AbandonedBy
    <3>2. UNCHANGED <<used, rows, pending>> /\ Paid' = Paid
      BY <1>6, <2>1, <3>1 DEF CancelExpired, DeleteRows, Paid
    <3> QED
      BY <2>1, <3>2, SeatStutters
  <2> QED
    BY <2>2, <2>3
<1>7. ASSUME NEW h \in Hook, ConfirmPurchase(h) PROVE [Seat!Next]_(Seat!vars)
  <2>1. PICK t \in Ticket : t = hook[h].ticket
    BY <1>7 DEF ConfirmPurchase, ProcOK
  <2>2. t \in Paid /\ Paid' = Paid /\ UNCHANGED <<used, rows, granted, revoked, forgotten>>
    BY <1>7, <2>1 DEF ConfirmPurchase, ProcOK, StripeOK, Paid, stripeVars, histVars
  <2>3. CASE t \in pending /\ pending' = pending \ {t}
    <3>1. t \in rows /\ t \in used
      BY <2>3 DEF TypeOK
    <3>2. SeatStatus[t] = "held" /\ SeatStatus'[t] = "sold"
      BY <2>2, <2>3, <3>1 DEF SeatStatus
    <3>3. Seat!Become(t, "sold")
      BY <2>2, <2>3, <3>2, SeatBecomes
    <3>4. Seat!Sell(t)
      BY <2>2, <3>2, <3>3 DEF Seat!Sell, Paid
    <3> QED
      BY <3>4 DEF Seat!Next
  <2>4. CASE pending' = pending
    BY <2>2, <2>4, SeatStutters
  <2> QED
    BY <1>7, <2>1, <2>3, <2>4 DEF ConfirmPurchase
<1>8. ASSUME NEW s \in Staff, InsertReserved(s) PROVE [Seat!Next]_(Seat!vars)
  <2>1. CASE UNCHANGED <<dbVars, granted>>
    BY <1>8, <2>1, SeatStutters DEF InsertReserved, dbVars, stripeVars, Paid
  <2>2. ASSUME NEW t \in Ticket, NEW u \in User, InsertRow(t, u),
               granted' = granted \cup {t}, UNCHANGED pending
        PROVE  [Seat!Next]_(Seat!vars)
    <3>1. t \notin used /\ t \notin pending /\ t \in used' /\ t \in rows'
      BY <2>2 DEF InsertRow, TypeOK
    <3>2. SeatStatus[t] = "free" /\ SeatStatus'[t] = "sold"
      BY <2>2, <3>1 DEF SeatStatus
    <3>3. Seat!Become(t, "sold")
      BY <2>2, <3>2, SeatBecomes DEF InsertRow
    <3>4. Seat!Grant(t)
      BY <1>8, <2>2, <3>2, <3>3 DEF Seat!Grant, InsertReserved, stripeVars
    <3> QED
      BY <3>4 DEF Seat!Next
  <2> QED
    BY <1>8, <2>1, <2>2 DEF InsertReserved
<1>9. ASSUME NEW t \in Ticket, DeleteTicket(t) PROVE [Seat!Next]_(Seat!vars)
  <2>1. t \in used /\ t \in rows /\ t \notin rows' /\ used' = used
    BY <1>9 DEF DeleteTicket, DeleteRows, TypeOK
  <2>2. SeatStatus[t] \in {"held", "sold"} /\ SeatStatus'[t] = "void"
    BY <2>1 DEF SeatStatus
  <2>3. Seat!Become(t, "void")
    BY <1>9, <2>2, SeatBecomes DEF DeleteTicket, DeleteRows
  <2>4. Seat!Revoke(t)
    BY <1>9, <2>2, <2>3 DEF Seat!Revoke, DeleteTicket, stripeVars
  <2> QED
    BY <2>4 DEF Seat!Next
<1>a. ASSUME NEW b \in Buyer, \/ \E u \in User : FindNoTicket(b, u)
                              \/ CountRemaining(b) \/ SaveSession(b) \/ ClientGoesAway(b)
      PROVE  [Seat!Next]_(Seat!vars)
  <2>1. UNCHANGED <<used, rows, pending, granted, revoked, forgotten>> /\ Paid' = Paid
    BY <1>a DEF FindNoTicket, CountRemaining, SaveSession, ClientGoesAway,
                dbVars, stripeVars, histVars, Paid
  <2> QED
    BY <2>1, SeatStutters
<1>b. CASE \/ \E t \in Ticket : ResumeCheckout(t) \/ FlipReserved(t)
           \/ \E h \in Hook : SendTicketEmail(h) \/ \E t \in Ticket : FetchPaidTicket(h, t)
           \/ \E s \in Staff : CheckReservation(s)
           \/ SetLimits \/ EventStarts \/ Crash \/ UNCHANGED vars
  <2>1. UNCHANGED <<used, rows, pending, granted, revoked, forgotten>> /\ Paid' = Paid
    BY <1>b DEF ResumeCheckout, FlipReserved, SendTicketEmail, FetchPaidTicket,
                CheckReservation, SetLimits, EventStarts, Crash, vars,
                dbVars, stripeVars, histVars, Paid
  <2> QED
    BY <2>1, SeatStutters
<1> QED
  BY <1>1, <1>2, <1>3, <1>4, <1>5, <1>6, <1>7, <1>8, <1>9, <1>a, <1>b
  DEF Next, BuyerStep, StripeStep, HookStep, StaffStep, AdminStep

(* Whatever the handlers, webhooks and staff do, each seat goes through    *)
(* the life cycle of TicketLifecycle (tickets.go:453, stripe.go:61).       *)
THEOREM SeatPromiseIsKept == Spec => SeatPromise
<1>1. Init => Seat!Init
  BY DEF Init, Seat!Init, SeatStatus
<1>2. Spec => [](TypeInv /\ PaidInv)
  BY TypeInit, TypeNext, PaidInit, PaidNext, PTL DEF Spec
<1> QED
  BY <1>1, <1>2, SeatNext, PTL DEF Spec, SeatPromise, Seat!Spec
=============================================================================
