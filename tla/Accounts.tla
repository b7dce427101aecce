------------------------------ MODULE Accounts ------------------------------
(***************************************************************************)
(* Accounts, one-time tokens and login sessions: registration, e-mail      *)
(* confirmation, password reset and login (src/src/website/auth.go), the   *)
(* Discord login (website/discord.go), bans (website/user.go, admin.go,    *)
(* email/bounces.go) and the jobs that clean up (src/src/auth/).           *)
(*                                                                         *)
(* A request reads what it needs on the connection pool, and then writes   *)
(* in a transaction or in single statements; every request keeps the row   *)
(* it read.  A transaction here writes when it commits: its UPDATEs are    *)
(* unconditional, by id, and hold the rows' locks until the commit.        *)
(* Sessions name their account by username, as the session table does.     *)
(***************************************************************************)
EXTENDS Integers

CONSTANTS
  Request,    \* the goroutines serving requests
  Name,       \* usernames
  Email,      \* the address somebody registering each name gives
  MaxUsers,   \* bound: ids of accounts
  MaxResets   \* bound: password reset tokens ever issued

ASSUME AccountsAssumption ==
  MaxUsers \in Nat /\ MaxResets \in Nat /\ "nobody" \notin Name

User == 1 .. MaxUsers

(* The status inactive has three names here, by history: since the account *)
(* registered; set by staff; and set by staff on an account with a ticket, *)
(* an asset or a personal article, which the database will not delete.     *)
Unusable == {"Inactive", "Demoted", "Held"}
Status == Unusable \cup {"Confirmed", "Approved", "Banned"}

VARIABLES
  users,      \* hmn_user: name and status of each id, status "none" for no row
  tokens,     \* one_time_token: reset = 0 marks the registration token
  mailed,     \* the tokens, as <<owner, reset>>, sent by e-mail
  sessions,   \* session; sound: see CreateSession
  blacklist,  \* email_blacklist
  req,        \* what each request is about to do, and what it has read
  lastUser,   \* the last account id drawn
  lastReset   \* the number of reset tokens issued

vars == <<users, tokens, mailed, sessions, blacklist, req, lastUser, lastReset>>

Exists(u) == users[u].status # "none"
NoUser == [name |-> "nobody", status |-> "none"]
Token == [owner : User, reset : 0 .. MaxResets, age : {"fresh", "soon", "expired"}]
Key(t) == <<t.owner, t.reset>>
Without(t) == {x \in tokens : Key(x) # Key(t)}
Stage == {"idle", "insert", "mail", "commit", "session", "confirm", "drop",
          "issue", "mailReset", "reset", "resetConfirm", "logout",
          "discord", "discordNew"}
Work == [at : Stage, user : User \cup {0}, name : Name \cup {"nobody"},
         reset : 0 .. MaxResets]
NoAccount(at, n) == [at |-> at, user |-> 0, name |-> n, reset |-> 0]
Idle == NoAccount("idle", "nobody")

TypeOK ==
  /\ users \in [User -> [name : Name \cup {"nobody"}, status : Status \cup {"none"}]]
  /\ tokens \subseteq Token
  /\ mailed \subseteq User \X (0 .. MaxResets)
  /\ sessions \subseteq [name : Name, owner : User, sound : BOOLEAN]
  /\ blacklist \subseteq {Email[n] : n \in Name}
  /\ req \in [Request -> Work]
  /\ lastUser \in User \cup {0}
  /\ lastReset \in 0 .. MaxResets

Init ==
  /\ users = [u \in User |-> NoUser]
  /\ tokens = {} /\ mailed = {} /\ sessions = {} /\ blacklist = {}
  /\ req = [r \in Request |-> Idle]
  /\ lastUser = 0 /\ lastReset = 0

Goto(r, at) == req' = [req EXCEPT ![r].at = at]
End(r) == req' = [req EXCEPT ![r] = Idle]

(* The request has read account u and goes on with it. *)
With(r, at, u, reset) ==
  /\ req[r].at = "idle" /\ Exists(u)
  /\ req' = [req EXCEPT ![r] = [at |-> at, user |-> u, name |-> users[u].name,
                                reset |-> reset]]

(* The unique index on usernames; an INSERT waits for one of the same name. *)
NameTaken(n) == \E u \in User : Exists(u) /\ users[u].name = n
NameLocked(n) == \E r \in Request : req[r].at \in {"mail", "commit"} /\ req[r].name = n
-----------------------------------------------------------------------------
(* RegisterNewUserSubmit: the blacklist, then the accounts with the name   *)
(* or the address; with one of them there is nothing to register.          *)
RegisterCheck(r, n) ==
  /\ req[r].at = "idle"
  /\ Email[n] \notin blacklist /\ ~NameTaken(n)
  /\ \A u \in User : Exists(u) => Email[users[u].name] # Email[n]
  /\ req' = [req EXCEPT ![r] = NoAccount("insert", n)]
  /\ UNCHANGED <<users, tokens, mailed, sessions, blacklist, lastUser, lastReset>>

(* Its transaction: the account and its token, written at the commit. *)
RegisterInsert(r) ==
  /\ req[r].at = "insert" /\ lastUser < MaxUsers
  /\ ~NameTaken(req[r].name) /\ ~NameLocked(req[r].name)
  /\ lastUser' = lastUser + 1
  /\ req' = [req EXCEPT ![r].at = "mail", ![r].user = lastUser + 1]
  /\ UNCHANGED <<users, tokens, mailed, sessions, blacklist, lastReset>>

RegisterMail(r) ==
  /\ req[r].at = "mail"
  /\ mailed' = mailed \cup {<<req[r].user, 0>>}
  /\ Goto(r, "commit")
  /\ UNCHANGED <<users, tokens, sessions, blacklist, lastUser, lastReset>>

RegisterCommit(r) ==
  /\ req[r].at = "commit"
  /\ users' = [users EXCEPT ![req[r].user] = [name |-> req[r].name, status |-> "Inactive"]]
  /\ tokens' = tokens \cup {[owner |-> req[r].user, reset |-> 0, age |-> "fresh"]}
  /\ End(r)
  /\ UNCHANGED <<mailed, sessions, blacklist, lastUser, lastReset>>

(* LoginAction, with the right password: tryLogin refuses the banned. *)
Login(r, u) ==
  /\ users[u].status \notin {"Banned"} \cup Unusable
  /\ With(r, "session", u, 0)
  /\ UNCHANGED <<users, tokens, mailed, sessions, blacklist, lastUser, lastReset>>

(* loginUser.  The session is sound if its account exists and is not       *)
(* banned at this moment; the handler looked before.                       *)
CreateSession(r) ==
  /\ req[r].at = "session"
  /\ sessions' = sessions \cup
       {[name |-> req[r].name, owner |-> req[r].user,
         sound |-> users[req[r].user].status \notin {"none", "Banned"}]}
  /\ End(r)
  /\ UNCHANGED <<users, tokens, mailed, blacklist, lastUser, lastReset>>

(* EmailConfirmationSubmit: the link's token and the password are right.   *)
(* Nothing asks whether the token has expired.                             *)
ConfirmBegin(r, t) ==
  /\ t \in tokens /\ t.reset = 0 /\ Key(t) \in mailed
  /\ users[t.owner].status # "Banned"
  /\ With(r, "confirm", t.owner, 0)
  /\ UNCHANGED <<users, tokens, mailed, sessions, blacklist, lastUser, lastReset>>

SetStatus(u, status) ==
  users' = IF Exists(u) THEN [users EXCEPT ![u].status = status] ELSE users

ConfirmCommit(r) ==
  /\ req[r].at = "confirm"
  /\ SetStatus(req[r].user, "Confirmed")
  /\ tokens' = {t \in tokens : Key(t) # <<req[r].user, req[r].reset>>}
  /\ Goto(r, "session")
  /\ UNCHANGED <<mailed, sessions, blacklist, lastUser, lastReset>>

(* RequestPasswordResetSubmit: the account, and one of its reset tokens if *)
(* it has any; only one about to expire, or none, leads to a new one.      *)
AskReset(r, u) ==
  LET found == {t \in tokens : t.owner = u /\ t.reset # 0}
  IN /\ users[u].status # "Banned"
     /\ \/ found = {} /\ With(r, "issue", u, 0)
        \/ \E t \in found : t.age # "fresh" /\ With(r, "drop", u, t.reset)
     /\ UNCHANGED <<users, tokens, mailed, sessions, blacklist, lastUser, lastReset>>

DropReset(r) ==
  /\ req[r].at = "drop"
  /\ tokens' = {t \in tokens : Key(t) # <<req[r].user, req[r].reset>>}
  /\ Goto(r, "issue")
  /\ UNCHANGED <<users, mailed, sessions, blacklist, lastUser, lastReset>>

IssueReset(r) ==
  /\ req[r].at = "issue" /\ lastReset < MaxResets
  /\ Exists(req[r].user)
  /\ lastReset' = lastReset + 1
  /\ tokens' = tokens \cup {[owner |-> req[r].user, reset |-> lastReset + 1, age |-> "fresh"]}
  /\ req' = [req EXCEPT ![r].at = "mailReset", ![r].reset = lastReset + 1]
  /\ UNCHANGED <<users, mailed, sessions, blacklist, lastUser>>

MailReset(r) ==
  /\ req[r].at = "mailReset"
  /\ mailed' = mailed \cup {<<req[r].user, req[r].reset>>}
  /\ End(r)
  /\ UNCHANGED <<users, tokens, sessions, blacklist, lastUser, lastReset>>

(* DoPasswordResetSubmit: of several tokens the database picks one.  An    *)
(* account read as inactive is confirmed as well.                          *)
ResetBegin(r, t) ==
  /\ t \in tokens /\ t.reset # 0 /\ Key(t) \in mailed
  /\ With(r, IF users[t.owner].status \in Unusable THEN "resetConfirm" ELSE "reset",
          t.owner, t.reset)
  /\ UNCHANGED <<users, tokens, mailed, sessions, blacklist, lastUser, lastReset>>

ResetCommit(r) ==
  /\ req[r].at \in {"reset", "resetConfirm"} /\ Exists(req[r].user)
  /\ IF req[r].at = "resetConfirm" THEN SetStatus(req[r].user, "Confirmed")
     ELSE UNCHANGED users
  /\ tokens' = {t \in tokens : Key(t) # <<req[r].user, req[r].reset>>}
  /\ Goto(r, "session")
  /\ UNCHANGED <<mailed, sessions, blacklist, lastUser, lastReset>>
-----------------------------------------------------------------------------
(* DiscordOAuthCallback: an account found by the Discord id, the session   *)
(* or the address, or a new one; either is approved.                       *)
DiscordBegin(r) ==
  /\ \/ \E u \in User : With(r, "discord", u, 0)
     \/ /\ req[r].at = "idle"
        /\ \E n \in Name :
             /\ ~NameTaken(n)
             /\ \A u \in User : Exists(u) => Email[users[u].name] # Email[n]
             /\ req' = [req EXCEPT ![r] = NoAccount("discordNew", n)]
  /\ UNCHANGED <<users, tokens, mailed, sessions, blacklist, lastUser, lastReset>>

DiscordCommit(r) ==
  /\ req[r].at = "discord" /\ Exists(req[r].user)
  /\ SetStatus(req[r].user, "Approved")
  /\ Goto(r, "session")
  /\ UNCHANGED <<tokens, mailed, sessions, blacklist, lastUser, lastReset>>

DiscordNew(r) ==
  /\ req[r].at = "discordNew" /\ lastUser < MaxUsers
  /\ ~NameTaken(req[r].name) /\ ~NameLocked(req[r].name)
  /\ lastUser' = lastUser + 1
  /\ users' = [users EXCEPT ![lastUser + 1] = [name |-> req[r].name, status |-> "Approved"]]
  /\ req' = [req EXCEPT ![r].at = "session", ![r].user = lastUser + 1]
  /\ UNCHANGED <<tokens, mailed, sessions, blacklist, lastReset>>

(* Staff ban an account: first its status, then its sessions. *)
BanFirst(r, u) ==
  /\ With(r, "logout", u, 0)
  /\ users' = [users EXCEPT ![u].status = "Banned"]
  /\ UNCHANGED <<tokens, mailed, sessions, blacklist, lastUser, lastReset>>

(* Mutant: the sessions stay. *)
BanStatusOnly(r) ==
  /\ req[r].at = "logout"
  /\ End(r)
  /\ UNCHANGED <<users, tokens, mailed, sessions, blacklist, lastUser, lastReset>>

BanSecond(r) ==
  /\ req[r].at = "logout"
  /\ sessions' = {s \in sessions : s.name # req[r].name}
  /\ End(r)
  /\ UNCHANGED <<users, tokens, mailed, blacklist, lastUser, lastReset>>

(* Staff set any other status.  One they make inactive has no link, and    *)
(* its sessions stay.                                                      *)
StaffSets(u) ==
  /\ Exists(u)
  /\ \/ \E status \in {"Confirmed", "Approved"} : SetStatus(u, status)
     \/ /\ users[u].status \notin Unusable
        /\ \E status \in {"Demoted", "Held"} : SetStatus(u, status)
  /\ UNCHANGED <<tokens, mailed, sessions, blacklist, req, lastUser, lastReset>>

(* Somebody still logged in to such an account buys a ticket, uploads a    *)
(* file or writes an article; or the last one is deleted.                  *)
ContentChanges(u) ==
  /\ \/ /\ users[u].status = "Demoted" /\ \E s \in sessions : s.name = users[u].name
        /\ SetStatus(u, "Held")
     \/ users[u].status = "Held" /\ SetStatus(u, "Demoted")
  /\ UNCHANGED <<tokens, mailed, sessions, blacklist, req, lastUser, lastReset>>

(* A ban that leaves the sessions of an account alone. *)
Unsound(n) == {IF s.name = n THEN [s EXCEPT !.sound = FALSE] ELSE s : s \in sessions}

(* The bounce monitor blacklists an address and bans its accounts, again  *)
(* at every bounce.                                                        *)
Bounce(n) ==
  LET hit == {u \in User : /\ users[u].status \in Unusable \cup {"Confirmed"}
                           /\ Email[users[u].name] = Email[n]}
  IN /\ blacklist' = blacklist \cup {Email[n]}
     /\ users' = [u \in User |-> IF u \in hit THEN [users[u] EXCEPT !.status = "Banned"]
                                 ELSE users[u]]
     /\ sessions' = {IF \E u \in hit : users[u].name = s.name
                     THEN [s EXCEPT !.sound = FALSE] ELSE s : s \in sessions}
     /\ UNCHANGED <<tokens, mailed, req, lastUser, lastReset>>

(* A request fails: a statement, the mail or the commit returns an error,  *)
(* or the goroutine panics; what was committed stays.                      *)
Fail(r) ==
  /\ req[r].at # "idle"
  /\ sessions' = IF req[r].at = "logout" THEN Unsound(req[r].name) ELSE sessions
  /\ End(r)
  /\ UNCHANGED <<users, tokens, mailed, blacklist, lastUser, lastReset>>
-----------------------------------------------------------------------------
(* Mutants: the status is not looked at; the wrong type of token is. *)
ExpiredLink ==
  {u \in User : /\ Exists(u)
                /\ \E t \in tokens : t.owner = u /\ t.reset = 0 /\ t.age = "expired"}

(* The hourly job; its DELETE cascades to the tokens, and fails as a whole *)
(* on one account that the database will not delete.  The sessions stay;   *)
(* those of an account staff had made inactive are no longer sound.        *)
Unconfirmed ==
  {u \in User : /\ users[u].status \in Unusable
                /\ \E t \in tokens : t.owner = u /\ t.reset = 0 /\ t.age = "expired"}

DeleteInactiveUsers ==
  /\ Unconfirmed # {} /\ \A u \in Unconfirmed : users[u].status # "Held"
  /\ users' = [u \in User |-> IF u \in Unconfirmed THEN NoUser ELSE users[u]]
  /\ tokens' = {t \in tokens : t.owner \notin Unconfirmed}
  /\ sessions' = {IF s.owner \in Unconfirmed /\ users[s.owner].status = "Demoted"
                  THEN [s EXCEPT !.sound = FALSE] ELSE s : s \in sessions}
  /\ UNCHANGED <<mailed, blacklist, req, lastUser, lastReset>>

(* Mutant: every expired token goes. *)
DeleteExpired ==
  /\ tokens' = {t \in tokens : t.age # "expired"}
  /\ UNCHANGED <<users, mailed, sessions, blacklist, req, lastUser, lastReset>>

DeleteExpiredPasswordResets ==
  /\ tokens' = {t \in tokens : t.reset = 0 \/ t.age # "expired"}
  /\ UNCHANGED <<users, mailed, sessions, blacklist, req, lastUser, lastReset>>

Older(t) == [t EXCEPT !.age = IF t.age = "fresh" /\ t.reset # 0 THEN "soon" ELSE "expired"]

Time ==
  /\ \E t \in tokens : t.age # "expired" /\ tokens' = Without(t) \cup {Older(t)}
  /\ UNCHANGED <<users, mailed, sessions, blacklist, req, lastUser, lastReset>>

(* logoutUser, or DeleteExpiredSessions two weeks later. *)
SessionEnds ==
  /\ \E s \in sessions : sessions' = sessions \ {s}
  /\ UNCHANGED <<users, tokens, mailed, blacklist, req, lastUser, lastReset>>

Begins(r) ==
  \/ \E n \in Name : RegisterCheck(r, n)
  \/ \E u \in User : Login(r, u) \/ AskReset(r, u) \/ BanFirst(r, u)
  \/ \E t \in tokens : ConfirmBegin(r, t) \/ ResetBegin(r, t)
  \/ DiscordBegin(r)

Continues(r) ==
  \/ RegisterInsert(r) \/ RegisterMail(r) \/ RegisterCommit(r)
  \/ CreateSession(r) \/ ConfirmCommit(r)
  \/ DropReset(r) \/ IssueReset(r) \/ MailReset(r) \/ ResetCommit(r)
  \/ DiscordCommit(r) \/ DiscordNew(r) \/ BanSecond(r)

Jobs == DeleteInactiveUsers \/ DeleteExpiredPasswordResets

Next ==
  \/ \E r \in Request : Begins(r) \/ Continues(r) \/ Fail(r)
  \/ \E u \in User : StaffSets(u) \/ ContentChanges(u)
  \/ \E n \in Name : Bounce(n)
  \/ Jobs \/ Time \/ SessionEnds

Spec == Init /\ [][Next]_vars

(* Time passes and the hourly job runs: its ticker never stops. *)
FairSpec == Spec /\ WF_vars(Time) /\ WF_vars(DeleteInactiveUsers)
-----------------------------------------------------------------------------
(* Every account waiting for its confirmation since it registered has a    *)
(* registration token, and the token was mailed: it can be confirmed, and  *)
(* DeleteInactiveUsers, which looks for the token, can delete it           *)
(* (auth.go:365).                                                          *)
InactiveHasLink ==
  \A u \in User : users[u].status = "Inactive" =>
    \E t \in tokens : t.owner = u /\ t.reset = 0 /\ Key(t) \in mailed

(* Somebody logged in keeps the account the session was made for, unless   *)
(* staff make it inactive: it is never deleted, never unconfirmed, and the *)
(* name never becomes another one's (auth.go:199).                         *)
SessionKeepsAccount ==
  \A s \in sessions : s.sound =>
    /\ users[s.owner].status \notin {"none", "Inactive"}
    /\ \A u \in User : Exists(u) /\ users[u].name = s.name => u = s.owner

(* A ban by staff ends every session that was made before it, and the last *)
(* of its two statements is all it waits for.                              *)
BanEndsSessions ==
  \A s \in sessions : s.sound /\ users[s.owner].status = "Banned" =>
    \E r \in Request : req[r].at = "logout" /\ req[r].name = s.name

=============================================================================
