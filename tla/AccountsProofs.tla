--------------------------- MODULE AccountsProofs ---------------------------
(***************************************************************************)
(* Proofs about Accounts, for every set of requests and names.             *)
(***************************************************************************)
EXTENDS Accounts, TLAPS

(* What a request knows of the account it works on: the id it read or      *)
(* drew, its name, a reset token if it is about one, and that a            *)
(* registration's mail was sent before its commit.                         *)
Unread == {"idle", "insert", "discordNew"}
Resetting == {"drop", "reset", "resetConfirm", "mailReset"}

WorkOK(x, sent) ==
  /\ x \in Work
  /\ x.at \notin Unread => x.user \in User
  /\ x.at # "idle" => x.name \in Name
  /\ x.at \in Resetting => x.reset # 0
  /\ x.at = "commit" => <<x.user, 0>> \in sent

ReqOK == \A r \in Request : WorkOK(req[r], mailed)

UsersNamed == \A u \in User : Exists(u) => users[u].name \in Name

TypeInv == TypeOK /\ ReqOK /\ UsersNamed

LEMMA IdleOK == \A sent : WorkOK(Idle, sent)
  BY AccountsAssumption DEF WorkOK, Work, Stage, Idle, NoAccount, Unread, Resetting

LEMMA StartOK ==
  \A sent : \A n \in Name, at \in {"insert", "discordNew"} : WorkOK(NoAccount(at, n), sent)
<1> TAKE sent
<1> TAKE n \in Name, at \in {"insert", "discordNew"}
<1>1. NoAccount(at, n) \in Work
  BY AccountsAssumption DEF NoAccount, Work, Stage
<1> QED
  BY <1>1 DEF NoAccount, WorkOK, Unread, Resetting

LEMMA TypeInit == Init => TypeInv
<1> SUFFICES ASSUME Init PROVE TypeInv
  OBVIOUS
<1> USE AccountsAssumption
<1>1. ReqOK
  BY IdleOK DEF Init, ReqOK
<1>2. NoUser \in [name : Name \cup {"nobody"}, status : Status \cup {"none"}]
  BY DEF NoUser
<1>3. TypeOK
  BY <1>1, <1>2 DEF Init, TypeOK, ReqOK, WorkOK
<1>4. UsersNamed
  BY DEF Init, UsersNamed, Exists, NoUser
<1> QED
  BY <1>1, <1>3, <1>4 DEF TypeInv

(* A step of one request leaves the others as they were. *)
LEMMA ReqMoves ==
  ASSUME ReqOK, req \in [Request -> Work], NEW r \in Request, NEW x, WorkOK(x, mailed'),
         req' = [req EXCEPT ![r] = x], mailed \subseteq mailed'
  PROVE  ReqOK' /\ req' \in [Request -> Work]
  BY DEF ReqOK, WorkOK

LEMMA GotoMoves ==
  ASSUME ReqOK, req \in [Request -> Work], NEW r \in Request, NEW at \in Stage,
         Goto(r, at), mailed \subseteq mailed',
         WorkOK([req[r] EXCEPT !.at = at], mailed')
  PROVE  ReqOK' /\ req' \in [Request -> Work]
<1>1. req' = [req EXCEPT ![r] = [req[r] EXCEPT !.at = at]]
  BY DEF Goto
<1> QED
  BY <1>1, ReqMoves

LEMMA EndMoves ==
  ASSUME ReqOK, req \in [Request -> Work], NEW r \in Request, End(r),
         mailed \subseteq mailed'
  PROVE  ReqOK' /\ req' \in [Request -> Work]
  BY IdleOK, ReqMoves DEF End

LEMMA WithMoves ==
  ASSUME TypeInv, NEW r \in Request, NEW at \in Stage \ {"commit"}, NEW u \in User,
         NEW reset \in 0 .. MaxResets, With(r, at, u, reset),
         mailed \subseteq mailed', at \in Resetting => reset # 0
  PROVE  ReqOK' /\ req' \in [Request -> Work]
<1> DEFINE x == [at |-> at, user |-> u, name |-> users[u].name, reset |-> reset]
<1>1. WorkOK(x, mailed')
  BY DEF With, TypeInv, UsersNamed, WorkOK, Work
<1>2. req' = [req EXCEPT ![r] = x]
  BY DEF With
<1> QED
  BY <1>1, <1>2, ReqMoves DEF TypeInv, TypeOK

LEMMA TypeNext == TypeInv /\ [Next]_vars => TypeInv'
<1> SUFFICES ASSUME TypeInv, [Next]_vars PROVE TypeInv'
  OBVIOUS
<1> USE AccountsAssumption DEF TypeInv, TypeOK, UsersNamed, Exists
<1>r. \A r \in Request : WorkOK(req[r], mailed)
  BY DEF ReqOK
<1>1. ASSUME NEW r \in Request, NEW n \in Name, RegisterCheck(r, n) PROVE TypeInv'
  <2>1. WorkOK(NoAccount("insert", n), mailed')
    BY StartOK
  <2> QED
    BY <1>1, <2>1, ReqMoves DEF RegisterCheck
<1>2. ASSUME NEW r \in Request, RegisterInsert(r) PROVE TypeInv'
  <2>1. lastUser + 1 \in User
    BY <1>2 DEF RegisterInsert, User
  <2>2. WorkOK([req[r] EXCEPT !.at = "mail", !.user = lastUser + 1], mailed')
    BY <1>2, <1>r, <2>1 DEF RegisterInsert, WorkOK, Work, Stage, Unread, Resetting
  <2> QED
    BY <1>2, <2>1, <2>2, ReqMoves DEF RegisterInsert
<1>3. ASSUME NEW r \in Request, RegisterMail(r) PROVE TypeInv'
  <2>1. WorkOK([req[r] EXCEPT !.at = "commit"], mailed')
    BY <1>3, <1>r DEF RegisterMail, WorkOK, Work, Stage, Unread, Resetting
  <2>2. mailed' \subseteq User \X (0 .. MaxResets)
    BY <1>3, <1>r DEF RegisterMail, WorkOK, Unread
  <2> QED
    BY <1>3, <2>1, <2>2, GotoMoves DEF RegisterMail, Stage
<1>4. ASSUME NEW r \in Request, RegisterCommit(r) PROVE TypeInv'
  <2>1. req[r].user \in User /\ req[r].name \in Name
    BY <1>4, <1>r DEF RegisterCommit, WorkOK, Unread
  <2>2. users' \in [User -> [name : Name \cup {"nobody"}, status : Status \cup {"none"}]]
    BY <1>4, <2>1 DEF RegisterCommit, Status, Unusable
  <2>3. tokens' \subseteq Token
    BY <1>4, <2>1 DEF RegisterCommit, Token
  <2>4. UsersNamed'
    BY <1>4, <2>1 DEF RegisterCommit
  <2> QED
    BY <1>4, <2>2, <2>3, <2>4, EndMoves DEF RegisterCommit
<1>5. ASSUME NEW r \in Request, NEW u \in User, Login(r, u) \/ AskReset(r, u)
      PROVE  TypeInv'
  <2>1. CASE Login(r, u)
    BY <2>1, WithMoves DEF Login, Stage, Resetting
  <2>2. CASE AskReset(r, u)
    <3>1. ReqOK' /\ req' \in [Request -> Work]
      <4>1. \A t \in tokens : t.reset \in 0 .. MaxResets
        BY DEF Token
      <4> QED
        BY <2>2, <4>1, WithMoves DEF AskReset, Stage, Resetting
    <3> QED
      BY <2>2, <3>1 DEF AskReset
  <2> QED
    BY <1>5, <2>1, <2>2
<1>6. ASSUME NEW r \in Request, CreateSession(r) PROVE TypeInv'
  <2>1. req[r].user \in User /\ req[r].name \in Name
    BY <1>6, <1>r DEF CreateSession, WorkOK, Unread
  <2> DEFINE b == users[req[r].user].status \notin {"none", "Banned"}
             s == [name |-> req[r].name, owner |-> req[r].user, sound |-> b]
  <2>2. b \in BOOLEAN
    OBVIOUS
  <2>3. sessions' = sessions \cup {s}
    BY <1>6 DEF CreateSession
  <2> HIDE DEF b
  <2>4. s \in [name : Name, owner : User, sound : BOOLEAN]
    BY <2>1, <2>2
  <2>5. sessions' \subseteq [name : Name, owner : User, sound : BOOLEAN]
    BY <2>3, <2>4
  <2> QED
    BY <1>6, <2>5, EndMoves DEF CreateSession
<1>7. ASSUME NEW r \in Request, NEW t \in tokens, ConfirmBegin(r, t) \/ ResetBegin(r, t)
      PROVE  TypeInv'
  <2>1. t.owner \in User /\ t.reset \in 0 .. MaxResets
    BY DEF Token
  <2>2. ReqOK' /\ req' \in [Request -> Work]
    BY <1>7, <2>1, WithMoves DEF ConfirmBegin, ResetBegin, Stage, Resetting
  <2> QED
    BY <1>7, <2>2 DEF ConfirmBegin, ResetBegin
<1>8. ASSUME NEW r \in Request, ConfirmCommit(r) \/ ResetCommit(r) PROVE TypeInv'
  <2>1. WorkOK([req[r] EXCEPT !.at = "session"], mailed')
    BY <1>8, <1>r DEF ConfirmCommit, ResetCommit, WorkOK, Work, Stage, Unread, Resetting
  <2>2. ReqOK' /\ req' \in [Request -> Work]
    BY <1>8, <2>1, GotoMoves DEF ConfirmCommit, ResetCommit, Stage
  <2>3. users' \in [User -> [name : Name \cup {"nobody"}, status : Status \cup {"none"}]]
    BY <1>8 DEF ConfirmCommit, ResetCommit, SetStatus, Status, Unusable
  <2>4. UsersNamed'
    BY <1>8 DEF ConfirmCommit, ResetCommit, SetStatus, Status, Unusable
  <2> QED
    BY <1>8, <2>2, <2>3, <2>4 DEF ConfirmCommit, ResetCommit
<1>9. ASSUME NEW r \in Request, DropReset(r) PROVE TypeInv'
  <2>1. WorkOK([req[r] EXCEPT !.at = "issue"], mailed')
    BY <1>9, <1>r DEF DropReset, WorkOK, Work, Stage, Unread, Resetting
  <2> QED
    BY <1>9, <2>1, GotoMoves DEF DropReset, Stage
<1>10. ASSUME NEW r \in Request, IssueReset(r) PROVE TypeInv'
  <2>1. req[r].user \in User /\ lastReset + 1 \in 0 .. MaxResets /\ lastReset + 1 # 0
    <3>1. req[r].user \in User
      BY <1>10, <1>r DEF IssueReset, WorkOK, Unread
    <3>2. lastReset + 1 \in 0 .. MaxResets /\ lastReset + 1 # 0
      BY <1>10 DEF IssueReset
    <3> QED
      BY <3>1, <3>2
  <2>2. WorkOK([req[r] EXCEPT !.at = "mailReset", !.reset = lastReset + 1], mailed')
    BY <1>10, <1>r, <2>1 DEF IssueReset, WorkOK, Work, Stage, Unread, Resetting
  <2>3. tokens' \subseteq Token
    BY <1>10, <2>1 DEF IssueReset, Token
  <2> QED
    BY <1>10, <2>1, <2>2, <2>3, ReqMoves DEF IssueReset
<1>11. ASSUME NEW r \in Request, MailReset(r) PROVE TypeInv'
  <2>1. mailed' \subseteq User \X (0 .. MaxResets)
    <3>1. req[r].user \in User
      BY <1>11, <1>r DEF MailReset, WorkOK, Unread
    <3>2. req[r].reset \in 0 .. MaxResets
      BY DEF Work
    <3> QED
      BY <1>11, <3>1, <3>2 DEF MailReset
  <2> QED
    BY <1>11, <2>1, EndMoves DEF MailReset
<1>12. ASSUME NEW r \in Request, DiscordBegin(r) PROVE TypeInv'
  <2>1. ASSUME NEW n \in Name
        PROVE  WorkOK(NoAccount("discordNew", n), mailed')
    BY StartOK
  <2>2. CASE \E u \in User : With(r, "discord", u, 0)
    <3>1. "discord" \in Stage \ {"commit"} /\ "discord" \notin Resetting /\ 0 \in 0 .. MaxResets
      BY DEF Stage, Resetting
    <3>2. mailed \subseteq mailed'
      BY <1>12 DEF DiscordBegin
    <3>3. ReqOK' /\ req' \in [Request -> Work]
      BY <2>2, <3>1, <3>2, WithMoves
    <3> QED
      BY <1>12, <3>3 DEF DiscordBegin
  <2>3. CASE \E n \in Name : req' = [req EXCEPT ![r] = NoAccount("discordNew", n)]
    BY <1>12, <2>1, <2>3, ReqMoves DEF DiscordBegin
  <2> QED
    BY <1>12, <2>2, <2>3 DEF DiscordBegin
<1>13. ASSUME NEW r \in Request, DiscordCommit(r) PROVE TypeInv'
  <2>1. WorkOK([req[r] EXCEPT !.at = "session"], mailed')
    BY <1>13, <1>r DEF DiscordCommit, WorkOK, Work, Stage, Unread, Resetting
  <2> QED
    BY <1>13, <2>1, GotoMoves DEF DiscordCommit, SetStatus, Status, Unusable, Stage
<1>14. ASSUME NEW r \in Request, DiscordNew(r) PROVE TypeInv'
  <2>1. lastUser + 1 \in User /\ req[r].name \in Name
    <3>1. lastUser + 1 \in User
      BY <1>14 DEF DiscordNew, User
    <3>2. req[r].name \in Name
      BY <1>14, <1>r DEF DiscordNew, WorkOK
    <3> QED
      BY <3>1, <3>2
  <2>2. WorkOK([req[r] EXCEPT !.at = "session", !.user = lastUser + 1], mailed')
    BY <1>14, <1>r, <2>1 DEF DiscordNew, WorkOK, Work, Stage, Unread, Resetting
  <2> QED
    BY <1>14, <2>1, <2>2, ReqMoves DEF DiscordNew, Status, Unusable
<1>15. ASSUME NEW r \in Request, NEW u \in User, BanFirst(r, u) PROVE TypeInv'
  <2>1. "logout" \in Stage \ {"commit"} /\ "logout" \notin Resetting /\ 0 \in 0 .. MaxResets
    BY DEF Stage, Resetting
  <2>2. With(r, "logout", u, 0) /\ mailed \subseteq mailed'
    BY <1>15 DEF BanFirst
  <2>3. ReqOK' /\ req' \in [Request -> Work]
    BY <2>1, <2>2, WithMoves
  <2> QED
    BY <1>15, <2>3 DEF BanFirst, With, Status, Unusable
<1>16. ASSUME NEW r \in Request, BanSecond(r) \/ Fail(r) PROVE TypeInv'
  <2>1. \A s \in sessions : [s EXCEPT !.sound = FALSE] \in [name : Name, owner : User, sound : BOOLEAN]
    OBVIOUS
  <2>2. sessions' \subseteq [name : Name, owner : User, sound : BOOLEAN]
    BY <1>16, <2>1 DEF BanSecond, Fail, Unsound
  <2> QED
    BY <1>16, <2>2, EndMoves DEF BanSecond, Fail
<1>17. ASSUME NEW u \in User, StaffSets(u) \/ ContentChanges(u) PROVE TypeInv'
  <2>1. PICK status \in Status : SetStatus(u, status)
    BY <1>17 DEF StaffSets, ContentChanges, Status, Unusable
  <2>2. users' \in [User -> [name : Name \cup {"nobody"}, status : Status \cup {"none"}]]
    BY <2>1 DEF SetStatus
  <2>3. UsersNamed'
    BY <2>1 DEF SetStatus
  <2> QED
    BY <1>17, <2>2, <2>3 DEF StaffSets, ContentChanges, ReqOK
<1>18. ASSUME NEW n \in Name, Bounce(n) PROVE TypeInv'
  <2>1. users' \in [User -> [name : Name \cup {"nobody"}, status : Status \cup {"none"}]]
    BY <1>18 DEF Bounce, Status, Unusable
  <2>2. sessions' \subseteq [name : Name, owner : User, sound : BOOLEAN]
    BY <1>18 DEF Bounce
  <2>3. UsersNamed'
    BY <1>18 DEF Bounce, Status, Unusable
  <2> QED
    BY <1>18, <2>1, <2>2, <2>3 DEF Bounce, ReqOK
<1>19. CASE Jobs
  <2>1. \A s \in sessions : [s EXCEPT !.sound = FALSE] \in [name : Name, owner : User, sound : BOOLEAN]
    OBVIOUS
  <2>2. sessions' \subseteq [name : Name, owner : User, sound : BOOLEAN]
    BY <1>19, <2>1 DEF Jobs, DeleteInactiveUsers, DeleteExpiredPasswordResets
  <2>3. /\ users' \in [User -> [name : Name \cup {"nobody"}, status : Status \cup {"none"}]]
        /\ UsersNamed'
    BY <1>19 DEF Jobs, DeleteInactiveUsers, DeleteExpiredPasswordResets, NoUser
  <2>4. tokens' \subseteq Token
    BY <1>19 DEF Jobs, DeleteInactiveUsers, DeleteExpiredPasswordResets
  <2> QED
    BY <1>19, <2>2, <2>3, <2>4
    DEF Jobs, DeleteInactiveUsers, DeleteExpiredPasswordResets, ReqOK
<1>20. CASE Time
  <2>1. \A t \in tokens : Older(t) \in Token
    BY DEF Older, Token
  <2> QED
    BY <1>20, <2>1 DEF Time, Without, ReqOK
<1>21. CASE SessionEnds
  BY <1>21 DEF SessionEnds, ReqOK
<1>22. CASE UNCHANGED vars
  BY <1>22 DEF vars, ReqOK
<1> QED
  BY <1>1, <1>2, <1>3, <1>4, <1>5, <1>6, <1>7, <1>8, <1>9, <1>10, <1>11, <1>12,
     <1>13, <1>14, <1>15, <1>16, <1>17, <1>18, <1>19, <1>20, <1>21, <1>22
     DEF Next, Begins, Continues

(* Every variable of Accounts keeps its type. *)
THEOREM AccountsTyped == Spec => []TypeOK
<1>1. TypeInv => TypeOK
  BY DEF TypeInv
<1> QED
  BY TypeInit, TypeNext, <1>1, PTL DEF Spec
-----------------------------------------------------------------------------
(* The link of an inactive account.  Apart from staff, only a registration *)
(* makes one, and it writes the token in the same commit, after the mail;  *)
(* the token only goes with the account or with its confirmation.          *)
LinkInv == TypeInv /\ InactiveHasLink

LEMMA LinkNext == LinkInv /\ [Next]_vars => LinkInv'
<1> SUFFICES ASSUME LinkInv, [Next]_vars PROVE InactiveHasLink'
  BY TypeNext DEF LinkInv
<1> USE DEF LinkInv, InactiveHasLink, Key
<1>t. TypeInv
  OBVIOUS
<1>r. \A r \in Request : WorkOK(req[r], mailed)
  BY DEF TypeInv, ReqOK
<1>u. users \in [User -> [name : Name \cup {"nobody"}, status : Status \cup {"none"}]]
  BY DEF TypeInv, TypeOK
<1>1. CASE UNCHANGED <<users, tokens>> /\ mailed \subseteq mailed'
  BY <1>1
<1>2. ASSUME NEW r \in Request, RegisterCommit(r) PROVE InactiveHasLink'
  <2>1. <<req[r].user, 0>> \in mailed
    BY <1>2, <1>r DEF RegisterCommit, WorkOK
  <2>2. ASSUME NEW u \in User, users'[u].status = "Inactive"
        PROVE  \E t \in tokens' : t.owner = u /\ t.reset = 0 /\ Key(t) \in mailed'
    <3>1. CASE u = req[r].user
      <4> DEFINE t == [owner |-> req[r].user, reset |-> 0, age |-> "fresh"]
      <4>1. t \in tokens' /\ mailed' = mailed
        BY <1>2 DEF RegisterCommit
      <4>2. t.owner = u /\ t.reset = 0 /\ Key(t) = <<req[r].user, 0>>
        BY <3>1
      <4> QED
        BY <2>1, <4>1, <4>2
    <3>2. CASE u # req[r].user
      BY <1>2, <1>u, <2>2, <3>2 DEF RegisterCommit
    <3> QED
      BY <3>1, <3>2
  <2> QED
    BY <2>2
<1>3. ASSUME NEW r \in Request, ConfirmCommit(r) \/ ResetCommit(r) PROVE InactiveHasLink'
  <2>1. ASSUME NEW u \in User, users'[u].status = "Inactive"
        PROVE  \E t \in tokens' : t.owner = u /\ t.reset = 0 /\ Key(t) \in mailed'
    <3>1. users[u].status = "Inactive"
      BY <1>3, <1>u, <2>1 DEF ConfirmCommit, ResetCommit, SetStatus, Exists
    <3>2. PICK t \in tokens : t.owner = u /\ t.reset = 0 /\ Key(t) \in mailed
      BY <3>1
    <3>3. Key(t) # <<req[r].user, req[r].reset>>
      <4>1. CASE ConfirmCommit(r)
        BY <1>u, <2>1, <3>1, <3>2, <4>1 DEF ConfirmCommit, SetStatus, Exists
      <4>2. CASE ResetCommit(r)
        BY <1>r, <3>2, <4>2 DEF ResetCommit, WorkOK, Resetting
      <4> QED
        BY <1>3, <4>1, <4>2
    <3> QED
      BY <1>3, <3>2, <3>3 DEF ConfirmCommit, ResetCommit
  <2> QED
    BY <2>1
<1>4. ASSUME NEW r \in Request, DropReset(r) PROVE InactiveHasLink'
  BY <1>4, <1>r DEF DropReset, WorkOK, Resetting
<1>5. ASSUME NEW r \in Request, IssueReset(r) PROVE InactiveHasLink'
  BY <1>5 DEF IssueReset
<1>6. ASSUME NEW r \in Request, DiscordCommit(r) \/ DiscordNew(r) PROVE InactiveHasLink'
  <2>1. tokens' = tokens /\ mailed' = mailed
    BY <1>6 DEF DiscordCommit, DiscordNew
  <2>2. ASSUME NEW u \in User, users'[u].status = "Inactive" PROVE users[u].status = "Inactive"
    <3>1. CASE DiscordCommit(r)
      BY <1>u, <2>2, <3>1 DEF DiscordCommit, SetStatus, Exists
    <3>2. CASE DiscordNew(r)
      BY <1>u, <2>2, <3>2 DEF DiscordNew
    <3> QED
      BY <1>6, <3>1, <3>2
  <2> QED
    BY <2>1, <2>2
<1>7. ASSUME NEW u \in User,
             StaffSets(u) \/ ContentChanges(u) \/ \E r \in Request : BanFirst(r, u)
      PROVE  InactiveHasLink'
  <2>1. UNCHANGED <<tokens, mailed>>
    BY <1>7 DEF StaffSets, ContentChanges, BanFirst
  <2>2. \A v \in User : users'[v].status = "Inactive" => users[v].status = "Inactive"
    BY <1>7, <1>u DEF StaffSets, ContentChanges, BanFirst, SetStatus, Exists
  <2> QED
    BY <2>1, <2>2
<1>8. ASSUME NEW n \in Name, Bounce(n) PROVE InactiveHasLink'
  BY <1>8, <1>u DEF Bounce
<1>9. CASE DeleteInactiveUsers
  BY <1>9, <1>u DEF DeleteInactiveUsers, NoUser
<1>10. CASE DeleteExpiredPasswordResets
  BY <1>10 DEF DeleteExpiredPasswordResets
<1>11. CASE Time
  <2>1. PICK o \in tokens : tokens' = Without(o) \cup {Older(o)}
    BY <1>11 DEF Time
  <2>2. \A t \in tokens : \E x \in tokens' : x.owner = t.owner /\ x.reset = t.reset
    <3>1. o \in [owner : User, reset : 0 .. MaxResets, age : {"fresh", "soon", "expired"}]
      BY DEF TypeInv, TypeOK, Token
    <3>2. Older(o).owner = o.owner /\ Older(o).reset = o.reset
      BY <3>1 DEF Older
    <3>3. ASSUME NEW t \in tokens PROVE \E x \in tokens' : x.owner = t.owner /\ x.reset = t.reset
      <4>1. CASE Key(t) = Key(o)
        BY <2>1, <3>2, <4>1
      <4>2. CASE Key(t) # Key(o)
        BY <2>1, <4>2 DEF Without
      <4> QED
        BY <4>1, <4>2
    <3> QED
      BY <3>3
  <2>3. UNCHANGED <<users, mailed>>
    BY <1>11 DEF Time
  <2>4. ASSUME NEW u \in User, users'[u].status = "Inactive"
        PROVE  \E x \in tokens' : x.owner = u /\ x.reset = 0 /\ Key(x) \in mailed'
    <3>1. PICK t \in tokens : t.owner = u /\ t.reset = 0 /\ Key(t) \in mailed
      BY <2>3, <2>4
    <3>2. PICK x \in tokens' : x.owner = t.owner /\ x.reset = t.reset
      BY <2>2
    <3> QED
      BY <2>3, <3>1, <3>2
  <2> QED
    BY <2>4
<1>12. CASE \E r \in Request : Begins(r) /\ ~(\E u \in User : BanFirst(r, u))
  BY <1>12, <1>1 DEF Begins, RegisterCheck, Login, AskReset, ConfirmBegin, ResetBegin,
                     DiscordBegin
<1>13. CASE \E r \in Request : RegisterInsert(r) \/ RegisterMail(r) \/ CreateSession(r)
                               \/ MailReset(r) \/ BanSecond(r) \/ Fail(r)
  BY <1>13, <1>1 DEF RegisterInsert, RegisterMail, CreateSession, MailReset, BanSecond,
                     Fail
<1>14. CASE SessionEnds \/ UNCHANGED vars
  BY <1>14, <1>1 DEF SessionEnds, vars
<1> QED
  BY <1>2, <1>3, <1>4, <1>5, <1>6, <1>7, <1>8, <1>9, <1>10, <1>11, <1>12, <1>13,
     <1>14 DEF Next, Continues, Begins, Jobs

(* An account waiting for its confirmation always has a registration token *)
(* whose mail was sent, whatever fails and whatever the requests' order.   *)
THEOREM InactiveIsLinked == Spec => []InactiveHasLink
<1>1. Init => LinkInv
  BY TypeInit DEF Init, LinkInv, InactiveHasLink, NoUser
<1>2. LinkInv => InactiveHasLink
  BY DEF LinkInv
<1> QED
  BY LinkNext, <1>1, <1>2, PTL DEF Spec
-----------------------------------------------------------------------------
(* A session keeps its account.  A session that finds its account there    *)
(* finds it confirmed, because its request has either seen it so or        *)
(* confirmed it; the cleaning job deletes only inactive accounts, only     *)
(* staff make one inactive again, and ids are not drawn twice.             *)
Drawn == {"mail", "commit"}
Reading == Stage \ (Unread \cup Drawn)

IdsDrawn ==
  /\ \A u \in User : Exists(u) => u <= lastUser
  /\ \A r \in Request : req[r].at \notin Unread => req[r].user <= lastUser

NamesUnique ==
  \A u, v \in User : Exists(u) /\ Exists(v) /\ users[u].name = users[v].name => u = v

DraftOK ==
  \A r \in Request : req[r].at \in Drawn =>
    /\ ~Exists(req[r].user) /\ ~NameTaken(req[r].name)
    /\ \A q \in Request \ {r} :
         /\ req[q].at \notin Unread => req[q].user # req[r].user
         /\ req[q].at \in Drawn => req[q].name # req[r].name

ReadOK ==
  \A r \in Request : req[r].at \in Reading /\ Exists(req[r].user) =>
    /\ users[req[r].user].name = req[r].name
    /\ req[r].at \in {"session", "reset"} => users[req[r].user].status # "Inactive"

SoundAt(s) ==
  /\ Exists(s.owner) /\ users[s.owner].status # "Inactive"
  /\ users[s.owner].name = s.name

SoundOK == \A s \in sessions : s.sound => SoundAt(s)

KeepInv == TypeInv /\ IdsDrawn /\ NamesUnique /\ DraftOK /\ ReadOK /\ SoundOK

(* Most steps neither make nor unconfirm an account, and delete only those *)
(* that wait or whose sessions are no longer sound; their request stops,   *)
(* goes on with its account, or has just read one.                         *)
Steady ==
  \A u \in User :
    /\ Exists(u)' => /\ Exists(u) /\ users'[u].name = users[u].name
                     /\ users'[u].status = "Inactive" => users[u].status = "Inactive"
    /\ Exists(u) /\ ~Exists(u)' => \/ users[u].status = "Inactive"
                                   \/ \A s \in sessions' : s.owner = u => ~s.sound

Stops(r) == req'[r].at \in Unread

GoesOn(r) ==
  /\ req[r].at \notin Unread /\ req'[r].at \notin Unread
  /\ req'[r].at \in Drawn <=> req[r].at \in Drawn
  /\ req'[r].user = req[r].user /\ req'[r].name = req[r].name

Reads(r) ==
  /\ req'[r].at \in Reading /\ Exists(req'[r].user)
  /\ req'[r].name = users[req'[r].user].name

Moved(r) ==
  /\ \A q \in Request \ {r} : req'[q] = req[q]
  /\ Stops(r) \/ GoesOn(r) \/ Reads(r)
  /\ req'[r].at \in {"session", "reset"} => users'[req'[r].user].status # "Inactive"

LEMMA SteadyStep ==
  ASSUME KeepInv, TypeInv', Steady, lastUser' = lastUser,
         UNCHANGED req \/ \E r \in Request : Moved(r),
         \A s \in sessions' : s.sound => s \in sessions \/ SoundAt(s)'
  PROVE  KeepInv'
<1> USE DEF KeepInv
<1>u. \A r \in Request : req'[r].at \notin Unread => req'[r].user \in User
  BY DEF TypeInv, ReqOK, WorkOK
<1>v. \A r \in Request : req[r].at \notin Unread => req[r].user \in User
  BY DEF TypeInv, ReqOK, WorkOK
<1>w. \A r \in Request : req'[r].at \in Stage
  BY DEF TypeInv, TypeOK, Work
<1>1. IdsDrawn'
  BY <1>u, <1>v DEF IdsDrawn, Steady, Moved, Stops, GoesOn, Reads
<1>2. NamesUnique'
  BY DEF NamesUnique, Steady
<1>3. \A n : NameTaken(n)' => NameTaken(n)
  BY DEF NameTaken, Steady
<1>4. DraftOK'
  <2>1. CASE UNCHANGED req
    BY <1>3, <1>v, <2>1 DEF DraftOK, Steady, Drawn, Unread
  <2>2. ASSUME NEW r \in Request, Moved(r) PROVE DraftOK'
    <3> SUFFICES ASSUME NEW d \in Request, req'[d].at \in Drawn
                 PROVE  /\ ~Exists(req[d].user)' /\ ~NameTaken(req[d].name)'
                        /\ \A q \in Request \ {d} :
                             /\ req'[q].at \notin Unread => req'[q].user # req'[d].user
                             /\ req'[q].at \in Drawn => req'[q].name # req'[d].name
      BY DEF DraftOK
    <3>1. req[d].at \in Drawn /\ req'[d].user = req[d].user /\ req'[d].name = req[d].name
      <4>1. CASE d = r
        BY <2>2, <4>1 DEF Moved, Stops, GoesOn, Reads, Drawn, Unread, Reading
      <4>2. CASE d # r
        BY <2>2, <4>2 DEF Moved
      <4> QED
        BY <4>1, <4>2
    <3>2. ~Exists(req[d].user)' /\ ~NameTaken(req[d].name)'
      <4>1. req[d].user \in User /\ ~Exists(req[d].user) /\ ~NameTaken(req[d].name)
        BY <1>v, <3>1 DEF DraftOK, Drawn, Unread
      <4>2. (Exists(req[d].user))' = (users'[req[d].user].status # "none")
        BY <3>1 DEF Exists
      <4>3. (NameTaken(req[d].name))' = \E u \in User : Exists(u)' /\ users'[u].name = req[d].name
        BY <3>1 DEF NameTaken
      <4> QED
        BY <4>1, <4>2, <4>3 DEF Steady, Exists, NameTaken
    <3>3. ASSUME NEW q \in Request \ {d}
          PROVE  /\ req'[q].at \notin Unread => req'[q].user # req'[d].user
                 /\ req'[q].at \in Drawn => req'[q].name # req'[d].name
      <4>1. CASE q # r \/ GoesOn(r)
        BY <2>2, <3>1, <4>1 DEF DraftOK, Moved, GoesOn
      <4>2. CASE q = r /\ Stops(r)
        BY <4>2 DEF Stops, Drawn, Unread
      <4>3. CASE q = r /\ Reads(r)
        BY <3>1, <4>3 DEF DraftOK, Reads, Drawn, Reading
      <4> QED
        BY <2>2, <4>1, <4>2, <4>3 DEF Moved
    <3> QED
      BY <3>2, <3>3
  <2> QED
    BY <2>1, <2>2
<1>5. ReadOK'
  <2>1. CASE UNCHANGED req
    BY <1>v, <2>1 DEF ReadOK, Steady, Reading
  <2>2. ASSUME NEW r \in Request, Moved(r) PROVE ReadOK'
    <3> SUFFICES ASSUME NEW q \in Request, req'[q].at \in Reading, Exists(req[q].user)'
                 PROVE  /\ users'[req'[q].user].name = req'[q].name
                        /\ req'[q].at \in {"session", "reset"} =>
                             users'[req'[q].user].status # "Inactive"
      BY DEF ReadOK
    <3>1. CASE q = r /\ Stops(r)
      BY <3>1 DEF Stops, Reading
    <3>2. CASE q = r /\ GoesOn(r)
      <4>1. req[r].at \in Reading
        BY <3>2 DEF GoesOn, TypeInv, TypeOK, Work, Reading
      <4> QED
        BY <1>u, <2>2, <3>2, <4>1 DEF ReadOK, Moved, GoesOn, Steady
    <3>3. CASE q = r /\ Reads(r)
      <4>1. req'[q].user \in User
        BY <1>u, <3>3 DEF Reads, Reading
      <4>2. users'[req'[q].user].status # "none"
        BY DEF Exists
      <4>3. users'[req'[q].user].name = users[req'[q].user].name
        BY <4>1, <4>2 DEF Steady, Exists
      <4> QED
        BY <2>2, <3>3, <4>3 DEF Moved, Reads
    <3>4. CASE q # r
      <4>1. req'[q] = req[q] /\ req[q].user \in User
        BY <1>v, <2>2, <3>4 DEF Moved, Reading
      <4>2. users'[req[q].user].status # "none"
        BY <4>1 DEF Exists
      <4> QED
        BY <4>1, <4>2 DEF ReadOK, Steady, Exists
    <3> QED
      BY <2>2, <3>1, <3>2, <3>3, <3>4 DEF Moved
  <2> QED
    BY <2>1, <2>2
<1>6. SoundOK'
  <2>1. \A s \in sessions : s.owner \in User
    BY DEF TypeInv, TypeOK
  <2> QED
    BY <2>1 DEF SoundOK, SoundAt, Steady
<1> QED
  BY <1>1, <1>2, <1>4, <1>5, <1>6

LEMMA KeepNext == KeepInv /\ [Next]_vars => KeepInv'
<1> SUFFICES ASSUME KeepInv, [Next]_vars PROVE KeepInv'
  OBVIOUS
<1>t. TypeInv'
  BY TypeNext DEF KeepInv
<1>u. /\ users \in [User -> [name : Name \cup {"nobody"}, status : Status \cup {"none"}]]
      /\ req \in [Request -> Work]
      /\ \A r \in Request : req[r].at \notin Unread => req[r].user \in User
  BY DEF KeepInv, TypeInv, TypeOK, ReqOK, WorkOK
<1>s. \A s \in sessions : ~[s EXCEPT !.sound = FALSE].sound
  BY DEF KeepInv, TypeInv, TypeOK
<1> USE DEF Exists
<1>same. UNCHANGED users => Steady
  BY DEF Steady
(* Steps that keep the accounts and move one request. *)
<1>1. ASSUME NEW r \in Request, NEW n \in Name, RegisterCheck(r, n) PROVE KeepInv'
  <2>1. Moved(r)
    BY <1>1, <1>u DEF RegisterCheck, Moved, Stops, NoAccount, Unread
  <2> QED
    BY <1>1, <1>t, <1>same, <2>1, SteadyStep DEF RegisterCheck
<1>2. ASSUME NEW r \in Request, RegisterMail(r) PROVE KeepInv'
  <2>1. Moved(r)
    BY <1>2, <1>u DEF RegisterMail, Goto, Moved, GoesOn, Drawn, Unread
  <2> QED
    BY <1>2, <1>t, <1>same, <2>1, SteadyStep DEF RegisterMail
<1>3. ASSUME NEW r \in Request, NEW u \in User, Login(r, u) \/ AskReset(r, u)
      PROVE  KeepInv'
  <2>1. Moved(r)
    <3>1. CASE Login(r, u)
      BY <1>u, <3>1 DEF Login, Unusable, With, Moved, Reads, Reading, Stage, Drawn, Unread
    <3>2. CASE AskReset(r, u)
      BY <1>u, <3>2 DEF AskReset, With, Moved, Reads, Reading, Stage, Drawn, Unread
    <3> QED
      BY <1>3, <3>1, <3>2
  <2> QED
    BY <1>3, <1>t, <1>same, <2>1, SteadyStep DEF Login, AskReset
<1>4. ASSUME NEW r \in Request, NEW t \in tokens, ConfirmBegin(r, t) \/ ResetBegin(r, t)
      PROVE  KeepInv'
  <2>1. t.owner \in User
    BY DEF KeepInv, TypeInv, TypeOK, Token
  <2>2. Moved(r)
    <3>1. CASE ConfirmBegin(r, t)
      BY <1>u, <2>1, <3>1 DEF ConfirmBegin, With, Moved, Reads, Reading, Stage, Drawn, Unread
    <3>2. CASE ResetBegin(r, t)
      BY <1>u, <2>1, <3>2 DEF ResetBegin, Unusable, With, Moved, Reads, Reading, Stage, Drawn, Unread
    <3> QED
      BY <1>4, <3>1, <3>2
  <2> QED
    BY <1>4, <1>t, <1>same, <2>2, SteadyStep DEF ConfirmBegin, ResetBegin
<1>5. ASSUME NEW r \in Request, DropReset(r) PROVE KeepInv'
  <2>1. Moved(r)
    BY <1>5, <1>u DEF DropReset, Goto, Moved, GoesOn, Drawn, Unread
  <2> QED
    BY <1>5, <1>t, <1>same, <2>1, SteadyStep DEF DropReset
<1>6. ASSUME NEW r \in Request, IssueReset(r) PROVE KeepInv'
  <2>1. Moved(r)
    BY <1>6, <1>u DEF IssueReset, Moved, GoesOn, Drawn, Unread
  <2> QED
    BY <1>6, <1>t, <1>same, <2>1, SteadyStep DEF IssueReset
<1>7. ASSUME NEW r \in Request, MailReset(r) \/ BanSecond(r) \/ Fail(r) PROVE KeepInv'
  <2>1. Moved(r)
    BY <1>7, <1>u DEF MailReset, BanSecond, Fail, End, Moved, Stops, Idle, NoAccount, Unread
  <2>2. \A s \in sessions' : s.sound => s \in sessions
    <3>1. CASE MailReset(r) \/ BanSecond(r)
      BY <3>1 DEF MailReset, BanSecond
    <3>2. CASE Fail(r)
      <4>1. \A s \in Unsound(req[r].name) : s.sound => s \in sessions
        BY <1>s DEF Unsound
      <4> QED
        BY <3>2, <4>1 DEF Fail
    <3> QED
      BY <1>7, <3>1, <3>2
  <2>3. UNCHANGED <<users, lastUser>>
    BY <1>7 DEF MailReset, BanSecond, Fail
  <2> QED
    BY <1>t, <1>same, <2>1, <2>2, <2>3, SteadyStep
<1>8. ASSUME NEW r \in Request, DiscordBegin(r) PROVE KeepInv'
  <2>1. Moved(r)
    <3>1. CASE \E u \in User : With(r, "discord", u, 0)
      BY <1>u, <3>1 DEF With, Moved, Reads, Reading, Stage, Drawn, Unread
    <3>2. CASE \E n \in Name : req' = [req EXCEPT ![r] = NoAccount("discordNew", n)]
      BY <1>u, <3>2 DEF NoAccount, Moved, Stops, Unread
    <3> QED
      BY <1>8, <3>1, <3>2 DEF DiscordBegin
  <2> QED
    BY <1>8, <1>t, <1>same, <2>1, SteadyStep DEF DiscordBegin
(* Steps that change the status of accounts, or delete them. *)
<1>9. ASSUME NEW r \in Request, ConfirmCommit(r) \/ ResetCommit(r) \/ DiscordCommit(r)
      PROVE  KeepInv'
  <2>1. Steady
    BY <1>9, <1>u DEF ConfirmCommit, ResetCommit, DiscordCommit, SetStatus, Steady
  <2>2. req' = [req EXCEPT ![r].at = "session"]
    BY <1>9 DEF ConfirmCommit, ResetCommit, DiscordCommit, Goto
  <2>3. req[r].at \notin Unread /\ req[r].at \notin Drawn /\ req[r].at \in Reading
    BY <1>9, <1>u DEF ConfirmCommit, ResetCommit, DiscordCommit, Unread, Drawn, Reading, Stage
  <2>4. users'[req[r].user].status # "Inactive"
    <3>1. req[r].at = "reset" => users[req[r].user].status # "Inactive"
      BY <2>3 DEF KeepInv, ReadOK
    <3> QED
      BY <1>9, <1>u, <2>3, <3>1 DEF ConfirmCommit, ResetCommit, DiscordCommit, SetStatus
  <2>5. Moved(r)
    BY <1>u, <2>2, <2>3, <2>4 DEF Moved, GoesOn, Drawn, Unread
  <2> QED
    BY <1>9, <1>t, <2>1, <2>5, SteadyStep DEF ConfirmCommit, ResetCommit, DiscordCommit
<1>10. ASSUME NEW r \in Request, NEW u \in User, BanFirst(r, u) PROVE KeepInv'
  <2>1. Steady
    BY <1>10, <1>u DEF BanFirst, With, Steady
  <2>2. Moved(r)
    BY <1>10, <1>u DEF BanFirst, With, Moved, Reads, Reading, Stage, Drawn, Unread
  <2> QED
    BY <1>10, <1>t, <2>1, <2>2, SteadyStep DEF BanFirst
<1>11. ASSUME NEW u \in User, StaffSets(u) \/ ContentChanges(u) PROVE KeepInv'
  <2>1. Steady
    BY <1>11, <1>u DEF StaffSets, ContentChanges, SetStatus, Steady
  <2>2. UNCHANGED <<sessions, req, lastUser>>
    BY <1>11 DEF StaffSets, ContentChanges
  <2> QED
    BY <1>t, <2>1, <2>2, SteadyStep
<1>12. ASSUME NEW n \in Name, Bounce(n) PROVE KeepInv'
  <2>1. Steady
    BY <1>12, <1>u DEF Bounce, Unusable, Steady
  <2>2. \A s \in sessions' : s.sound => s \in sessions
    BY <1>12, <1>s DEF Bounce
  <2> QED
    BY <1>12, <1>t, <2>1, <2>2, SteadyStep DEF Bounce
<1>13. CASE DeleteInactiveUsers
  <2>0. ASSUME NEW s \in sessions', s.sound
        PROVE  /\ s \in sessions
               /\ ~(s.owner \in Unconfirmed /\ users[s.owner].status = "Demoted")
    <3>1. PICK x \in sessions :
            s = IF x.owner \in Unconfirmed /\ users[x.owner].status = "Demoted"
                THEN [x EXCEPT !.sound = FALSE] ELSE x
      BY <1>13 DEF DeleteInactiveUsers
    <3>2. s = x /\ ~(x.owner \in Unconfirmed /\ users[x.owner].status = "Demoted")
      BY <1>s, <2>0, <3>1
    <3> QED
      BY <3>2
  <2>1. \A u \in User : users'[u] = IF u \in Unconfirmed THEN NoUser ELSE users[u]
    BY <1>13 DEF DeleteInactiveUsers
  <2>2. \A u \in Unconfirmed : users[u].status \in {"Inactive", "Demoted"}
    BY <1>13 DEF DeleteInactiveUsers, Unconfirmed, Unusable
  <2>3. Steady
    BY <2>0, <2>1, <2>2 DEF Steady, NoUser
  <2> QED
    BY <1>13, <1>t, <2>0, <2>3, SteadyStep DEF DeleteInactiveUsers
<1>14. CASE DeleteExpiredPasswordResets \/ Time \/ SessionEnds \/ UNCHANGED vars
  BY <1>14, <1>t, <1>same, SteadyStep
     DEF DeleteExpiredPasswordResets, Time, SessionEnds, vars
(* Steps that make a session or an account. *)
<1>15. ASSUME NEW r \in Request, CreateSession(r) PROVE KeepInv'
  <2> DEFINE new == [name |-> req[r].name, owner |-> req[r].user,
                     sound |-> users[req[r].user].status \notin {"none", "Banned"}]
  <2>1. new.sound => users[new.owner].status \notin {"none", "Inactive"}
                     /\ users[new.owner].name = new.name
    BY <1>15, <1>u DEF CreateSession, KeepInv, ReadOK, Reading, Stage, Drawn, Unread
  <2>2. sessions' = sessions \cup {new} /\ users' = users /\ lastUser' = lastUser
    BY <1>15 DEF CreateSession
  <2>3. Moved(r)
    BY <1>15, <1>u DEF CreateSession, End, Moved, Stops, Idle, NoAccount, Unread
  <2> HIDE DEF new
  <2>4. \A s \in sessions' : s.sound => s \in sessions \/ SoundAt(s)'
    BY <2>1, <2>2 DEF SoundAt
  <2> QED
    BY <1>t, <1>same, <2>2, <2>3, <2>4, SteadyStep
<1>16. ASSUME NEW r \in Request, RegisterInsert(r) PROVE KeepInv'
  <2>1. /\ req[r].at = "insert" /\ users' = users /\ sessions' = sessions
        /\ lastUser' = lastUser + 1 /\ lastUser \in Nat
        /\ ~NameTaken(req[r].name) /\ ~NameLocked(req[r].name)
    BY <1>16 DEF RegisterInsert, KeepInv, TypeInv, TypeOK, User
  <2>2. /\ req'[r].at = "mail" /\ req'[r].user = lastUser + 1 /\ req'[r].name = req[r].name
        /\ \A q \in Request \ {r} : req'[q] = req[q]
    BY <1>16, <1>u DEF RegisterInsert, Work
  <2>3. \A u \in User : Exists(u) => u <= lastUser
    BY DEF KeepInv, IdsDrawn
  <2>4. \A q \in Request : req[q].at \notin Unread => req[q].user <= lastUser /\ req[q].user \in User
    BY <1>u DEF KeepInv, IdsDrawn
  <2>5. lastUser + 1 \in User
    BY <1>16, <2>1, AccountsAssumption DEF RegisterInsert, User
  <2>6. IdsDrawn'
    BY <2>1, <2>2, <2>3, <2>4 DEF IdsDrawn, User
  <2>7. NamesUnique' /\ SoundOK'
    BY <2>1 DEF KeepInv, NamesUnique, SoundOK, SoundAt
  <2>8. ReadOK'
    BY <2>1, <2>2 DEF KeepInv, ReadOK, Reading, Drawn
  <2>9. DraftOK'
    <3>1. \A n : NameTaken(n)' = NameTaken(n)
      BY <2>1 DEF NameTaken
    <3>2. \A q \in Request : req[q].at \in Drawn => req[q].name # req[r].name
      BY <2>1 DEF NameLocked, Drawn
    <3>3. \A q \in Request : req[q].at \notin Unread => req[q].user # lastUser + 1
      BY <2>1, <2>4 DEF User
    <3>4. ~Exists(lastUser + 1)
      BY <2>1, <2>3, <2>5
    <3> QED
      BY <2>1, <2>2, <3>1, <3>2, <3>3, <3>4 DEF KeepInv, DraftOK, Drawn, Unread
  <2> QED
    BY <1>t, <2>6, <2>7, <2>8, <2>9 DEF KeepInv
<1>17. ASSUME NEW r \in Request, RegisterCommit(r) PROVE KeepInv'
  <2> DEFINE d == req[r].user
  <2>1. /\ d \in User /\ req[r].at \in Drawn /\ ~Exists(d) /\ ~NameTaken(req[r].name)
        /\ \A q \in Request \ {r} :
             /\ req[q].at \notin Unread => req[q].user # d
             /\ req[q].at \in Drawn => req[q].name # req[r].name
    BY <1>17, <1>u DEF RegisterCommit, KeepInv, DraftOK, Drawn, Unread
  <2>2. /\ users'[d] = [name |-> req[r].name, status |-> "Inactive"]
        /\ \A u \in User \ {d} : users'[u] = users[u]
        /\ lastUser' = lastUser /\ sessions' = sessions
    BY <1>17, <1>u, <2>1 DEF RegisterCommit
  <2>3. req'[r].at = "idle" /\ \A q \in Request \ {r} : req'[q] = req[q]
    BY <1>17, <1>u DEF RegisterCommit, End, Idle, NoAccount
  <2> HIDE DEF d
  <2>4. IdsDrawn'
    BY <1>u, <2>1, <2>2, <2>3 DEF d, KeepInv, IdsDrawn, Unread, Drawn
  <2>5. NamesUnique'
    BY <2>1, <2>2 DEF KeepInv, NamesUnique, NameTaken
  <2>6. ReadOK'
    BY <1>u, <2>1, <2>2, <2>3 DEF KeepInv, ReadOK, Reading, Unread
  <2>7. SoundOK'
    BY <2>1, <2>2 DEF KeepInv, SoundOK, SoundAt, TypeInv, TypeOK
  <2>8. DraftOK'
    <3>1. ASSUME NEW q \in Request, req'[q].at \in Drawn
          PROVE  /\ users'[req'[q].user].status = "none"
                 /\ ~\E u \in User : users'[u].status # "none" /\ users'[u].name = req'[q].name
                 /\ q # r /\ req'[q] = req[q]
      BY <1>u, <2>1, <2>2, <2>3, <3>1 DEF KeepInv, DraftOK, NameTaken, Drawn, Unread
    <3> QED
      BY <2>3, <3>1 DEF KeepInv, DraftOK, NameTaken, Drawn, Unread
  <2> QED
    BY <1>t, <2>4, <2>5, <2>6, <2>7, <2>8 DEF KeepInv
<1>18. ASSUME NEW r \in Request, DiscordNew(r) PROVE KeepInv'
  <2> DEFINE d == lastUser + 1
  <2>1. /\ req[r].at = "discordNew" /\ d \in User /\ lastUser' = d /\ sessions' = sessions
        /\ lastUser \in Nat /\ ~NameTaken(req[r].name) /\ ~NameLocked(req[r].name)
    BY <1>18, AccountsAssumption DEF DiscordNew, KeepInv, TypeInv, TypeOK, User
  <2>2. /\ \A u \in User : Exists(u) => u <= lastUser
        /\ \A q \in Request : req[q].at \notin Unread => req[q].user <= lastUser /\ req[q].user \in User
    BY <1>u DEF KeepInv, IdsDrawn
  <2>3. /\ users'[d] = [name |-> req[r].name, status |-> "Approved"]
        /\ \A u \in User \ {d} : users'[u] = users[u]
    BY <1>18, <1>u, <2>1 DEF DiscordNew
  <2>4. /\ req'[r].at = "session" /\ req'[r].user = d /\ req'[r].name = req[r].name
        /\ \A q \in Request \ {r} : req'[q] = req[q]
    BY <1>18, <1>u DEF DiscordNew, Work
  <2>5. /\ ~Exists(d) /\ \A q \in Request : req[q].at \notin Unread => req[q].user # d
        /\ \A q \in Request : req[q].at \in Drawn => req[q].name # req[r].name
    BY <2>1, <2>2 DEF User, NameLocked, Drawn
  <2>6. IdsDrawn'
    <3>1. \A u \in User : u <= lastUser => u <= lastUser + 1
      BY <2>1 DEF User
    <3> QED
      BY <2>1, <2>2, <2>3, <2>4, <3>1 DEF IdsDrawn
  <2> HIDE DEF d
  <2>7. NamesUnique'
    BY <2>1, <2>3, <2>5 DEF KeepInv, NamesUnique, NameTaken
  <2>8. ReadOK'
    BY <1>u, <2>3, <2>4, <2>5 DEF KeepInv, ReadOK, Reading, Unread
  <2>9. SoundOK'
    BY <2>1, <2>3, <2>5 DEF KeepInv, SoundOK, SoundAt, TypeInv, TypeOK
  <2>10. DraftOK'
    <3>1. ASSUME NEW q \in Request, req'[q].at \in Drawn
          PROVE  /\ users'[req'[q].user].status = "none"
                 /\ ~\E u \in User : users'[u].status # "none" /\ users'[u].name = req'[q].name
                 /\ q # r /\ req'[q] = req[q]
      BY <1>u, <2>3, <2>4, <2>5, <3>1 DEF KeepInv, DraftOK, NameTaken, Drawn, Unread
    <3> QED
      BY <2>4, <2>5, <3>1 DEF KeepInv, DraftOK, NameTaken, Drawn, Unread
  <2> QED
    BY <1>t, <2>6, <2>7, <2>8, <2>9, <2>10 DEF KeepInv
<1> QED
  BY <1>1, <1>2, <1>3, <1>4, <1>5, <1>6, <1>7, <1>8, <1>9, <1>10, <1>11, <1>12,
     <1>13, <1>14, <1>15, <1>16, <1>17, <1>18 DEF Next, Begins, Continues, Jobs

(* Somebody logged in keeps the account: it is not deleted, not            *)
(* unconfirmed, and the name does not become another account's.            *)
THEOREM SessionIsKept == Spec => []SessionKeepsAccount
<1>1. Init => KeepInv
  BY TypeInit DEF Init, KeepInv, IdsDrawn, NamesUnique, DraftOK, ReadOK, SoundOK, NoUser,
                  Idle, NoAccount, Exists, Drawn, Reading, Unread
<1>2. KeepInv => SessionKeepsAccount
  BY DEF KeepInv, SoundOK, SoundAt, NamesUnique, SessionKeepsAccount, Exists, TypeInv, TypeOK
<1> QED
  BY KeepNext, <1>1, <1>2, PTL DEF Spec
-----------------------------------------------------------------------------
(* A ban ends the sessions made before it.  Only BanFirst bans an account  *)
(* and leaves its sessions sound, and then its request is at "logout"; the *)
(* request ends by deleting the sessions of the name, which is still the   *)
(* account's, or by failing.                                               *)
BanInv == KeepInv /\ BanEndsSessions

LEMMA BanQuiet ==
  ASSUME BanInv,
         \A s \in sessions' : s.sound => s \in sessions,
         \A u \in User : users'[u].status = "Banned" => users[u].status = "Banned",
         \A r \in Request : req[r].at = "logout" => req'[r] = req[r]
  PROVE  BanEndsSessions'
<1>1. \A s \in sessions : s.owner \in User
  BY DEF BanInv, KeepInv, TypeInv, TypeOK
<1> QED
  BY <1>1 DEF BanInv, BanEndsSessions

LEMMA BanNext == BanInv /\ [Next]_vars => BanInv'
<1> SUFFICES ASSUME BanInv, [Next]_vars PROVE BanEndsSessions'
  BY KeepNext DEF BanInv
<1>u. /\ users \in [User -> [name : Name \cup {"nobody"}, status : Status \cup {"none"}]]
      /\ req \in [Request -> Work]
      /\ \A s \in sessions : s.owner \in User /\ ~[s EXCEPT !.sound = FALSE].sound
  BY DEF BanInv, KeepInv, TypeInv, TypeOK
<1>1. CASE \E r \in Request : Begins(r) /\ UNCHANGED users
  <2> PICK r \in Request : Begins(r) /\ UNCHANGED users
    BY <1>1
  <2>1. req[r].at = "idle" /\ \A q \in Request \ {r} : req'[q] = req[q]
    BY <1>u DEF Begins, RegisterCheck, Login, AskReset, BanFirst, ConfirmBegin, ResetBegin,
               DiscordBegin, With
  <2>2. sessions' = sessions
    BY DEF Begins, RegisterCheck, Login, AskReset, BanFirst, ConfirmBegin, ResetBegin,
           DiscordBegin
  <2> QED
    BY <1>1, <2>1, <2>2, BanQuiet
<1>2. ASSUME NEW r \in Request, NEW u \in User, BanFirst(r, u) PROVE BanEndsSessions'
  <2>1. ASSUME NEW s \in sessions', s.sound, users'[s.owner].status = "Banned"
        PROVE  \E q \in Request : req'[q].at = "logout" /\ req'[q].name = s.name
    <3>1. s \in sessions /\ s.owner \in User
      BY <1>2, <1>u DEF BanFirst
    <3>2. CASE s.owner = u
      BY <1>2, <1>u, <2>1, <3>1, <3>2 DEF BanFirst, With, BanInv, KeepInv, SoundOK, SoundAt
    <3>3. CASE s.owner # u
      <4>1. PICK q \in Request : req[q].at = "logout" /\ req[q].name = s.name
        BY <1>2, <1>u, <2>1, <3>1, <3>3 DEF BanFirst, BanInv, BanEndsSessions
      <4>2. req'[q] = req[q]
        BY <1>2, <1>u, <4>1 DEF BanFirst, With
      <4> QED
        BY <4>1, <4>2
    <3> QED
      BY <3>2, <3>3
  <2> QED
    BY <2>1 DEF BanEndsSessions
<1>3. ASSUME NEW r \in Request, BanSecond(r) \/ Fail(r) PROVE BanEndsSessions'
  <2>1. ASSUME NEW s \in sessions', s.sound, users'[s.owner].status = "Banned"
        PROVE  \E q \in Request : req'[q].at = "logout" /\ req'[q].name = s.name
    <3>1. s \in sessions /\ (req[r].at = "logout" => s.name # req[r].name)
      <4>1. CASE BanSecond(r)
        BY <2>1, <4>1 DEF BanSecond
      <4>2. CASE Fail(r) /\ req[r].at # "logout"
        BY <2>1, <4>2 DEF Fail
      <4>3. CASE Fail(r) /\ req[r].at = "logout"
        <5>1. s \in Unsound(req[r].name)
          BY <4>3 DEF Fail
        <5> QED
          BY <1>u, <2>1, <5>1 DEF Unsound
      <4> QED
        BY <1>3, <4>1, <4>2, <4>3
    <3>2. users' = users
      BY <1>3 DEF BanSecond, Fail
    <3>3. PICK q \in Request : req[q].at = "logout" /\ req[q].name = s.name
      BY <2>1, <3>1, <3>2 DEF BanInv, BanEndsSessions
    <3>4. req'[q] = req[q]
      BY <1>3, <1>u, <3>1, <3>3 DEF BanSecond, Fail, End
    <3> QED
      BY <3>3, <3>4
  <2> QED
    BY <2>1 DEF BanEndsSessions
<1>4. ASSUME NEW r \in Request, CreateSession(r) PROVE BanEndsSessions'
  <2> DEFINE new == [name |-> req[r].name, owner |-> req[r].user,
                     sound |-> users[req[r].user].status \notin {"none", "Banned"}]
  <2>1. sessions' = sessions \cup {new} /\ users' = users
    BY <1>4 DEF CreateSession
  <2>2. new.sound => users[new.owner].status # "Banned"
    OBVIOUS
  <2>3. \A q \in Request : req[q].at = "logout" => req'[q] = req[q]
    BY <1>4, <1>u DEF CreateSession, End
  <2> HIDE DEF new
  <2> QED
    BY <2>1, <2>2, <2>3 DEF BanInv, BanEndsSessions
<1>5. ASSUME NEW n \in Name, Bounce(n) PROVE BanEndsSessions'
  <2>1. ASSUME NEW s \in sessions', s.sound, users'[s.owner].status = "Banned"
        PROVE  \E q \in Request : req'[q].at = "logout" /\ req'[q].name = s.name
    <3>1. s \in sessions
      <4>1. PICK x \in sessions : s = x \/ s = [x EXCEPT !.sound = FALSE]
        BY <1>5, <2>1 DEF Bounce
      <4> QED
        BY <1>u, <2>1, <4>1
    <3>2. users[s.owner].status = "Banned"
      <4>1. users[s.owner].name = s.name
        BY <2>1, <3>1 DEF BanInv, KeepInv, SoundOK, SoundAt
      <4>2. SUFFICES ASSUME users[s.owner].status # "Banned" PROVE FALSE
        OBVIOUS
      <4> DEFINE hit == {u \in User : /\ users[u].status \in Unusable \cup {"Confirmed"}
                                     /\ Email[users[u].name] = Email[n]}
      <4>3. /\ users' = [u \in User |-> IF u \in hit THEN [users[u] EXCEPT !.status = "Banned"]
                                       ELSE users[u]]
            /\ sessions' = {IF \E u \in hit : users[u].name = x.name
                            THEN [x EXCEPT !.sound = FALSE] ELSE x : x \in sessions}
        BY <1>5 DEF Bounce
      <4>4. s.owner \in hit
        <5> HIDE DEF hit
        <5> QED
          BY <1>u, <2>1, <3>1, <4>2, <4>3
      <4>5. PICK x \in sessions : s = IF \E u \in hit : users[u].name = x.name
                                     THEN [x EXCEPT !.sound = FALSE] ELSE x
        <5> HIDE DEF hit
        <5> QED
          BY <4>3
      <4>6. s = x /\ ~(\E u \in hit : users[u].name = x.name)
        <5> HIDE DEF hit
        <5> QED
          BY <1>u, <2>1, <4>5
      <4> HIDE DEF hit
      <4> QED
        BY <4>1, <4>4, <4>6
    <3>3. req' = req
      BY <1>5 DEF Bounce
    <3> QED
      BY <2>1, <3>1, <3>2, <3>3 DEF BanInv, BanEndsSessions
  <2> QED
    BY <2>1 DEF BanEndsSessions
<1>6. CASE \E r \in Request : Continues(r) /\ ~BanSecond(r) /\ ~CreateSession(r)
  <2> PICK r \in Request : Continues(r) /\ ~BanSecond(r) /\ ~CreateSession(r)
    BY <1>6
  <2>1. req[r].at # "logout" /\ \A q \in Request \ {r} : req'[q] = req[q]
    BY <1>u DEF Continues, RegisterInsert, RegisterMail, RegisterCommit, ConfirmCommit, DropReset,
               IssueReset, MailReset, ResetCommit, DiscordCommit, DiscordNew, Goto, End
  <2>2. sessions' = sessions
    BY DEF Continues, RegisterInsert, RegisterMail, RegisterCommit, ConfirmCommit, DropReset,
           IssueReset, MailReset, ResetCommit, DiscordCommit, DiscordNew
  <2>3. \A u \in User : users'[u].status = "Banned" => users[u].status = "Banned"
    BY <1>u DEF Continues, RegisterInsert, RegisterMail, RegisterCommit, ConfirmCommit, DropReset,
               IssueReset, MailReset, ResetCommit, DiscordCommit, DiscordNew, SetStatus
  <2> QED
    BY <2>1, <2>2, <2>3, BanQuiet
<1>7. ASSUME NEW u \in User, StaffSets(u) \/ ContentChanges(u) PROVE BanEndsSessions'
  BY <1>7, <1>u, BanQuiet DEF StaffSets, ContentChanges, SetStatus
<1>8. CASE Jobs \/ Time \/ SessionEnds \/ UNCHANGED vars
  <2>1. \A u \in User : users'[u].status = "Banned" => users[u].status = "Banned"
    BY <1>8, <1>u DEF Jobs, DeleteInactiveUsers, DeleteExpiredPasswordResets, Time, SessionEnds,
                     NoUser, vars
  <2>2. req' = req /\ \A s \in sessions' : s.sound => s \in sessions
    <3>1. CASE DeleteInactiveUsers
      BY <1>u, <3>1 DEF DeleteInactiveUsers
    <3>2. CASE ~DeleteInactiveUsers
      BY <1>8, <3>2 DEF Jobs, DeleteExpiredPasswordResets, Time, SessionEnds, vars
    <3> QED
      BY <3>1, <3>2
  <2> QED
    BY <2>1, <2>2, BanQuiet
<1>9. \A r \in Request : Begins(r) => UNCHANGED users \/ \E u \in User : BanFirst(r, u)
  BY DEF Begins, RegisterCheck, Login, AskReset, ConfirmBegin, ResetBegin, DiscordBegin
<1> QED
  BY <1>1, <1>2, <1>3, <1>4, <1>5, <1>6, <1>7, <1>8, <1>9 DEF Next

(* Whatever logins and bans overlap, a sound session of a banned account   *)
(* is one that the ban is still about to delete.                           *)
THEOREM BanLogsOut == Spec => []BanEndsSessions
<1>1. Init => BanInv
  BY TypeInit DEF Init, BanInv, KeepInv, IdsDrawn, NamesUnique, DraftOK, ReadOK, SoundOK, NoUser,
                  Idle, NoAccount, Exists, Drawn, Reading, Unread, BanEndsSessions
<1>2. BanInv => BanEndsSessions
  BY DEF BanInv
<1> QED
  BY BanNext, <1>1, <1>2, PTL DEF Spec
=============================================================================
