------------------------------- MODULE Accounts -------------------------------
(***************************************************************************)
(* auth-service: the accounts that are registered with one e-mail address, *)
(* in whatever spelling, their verification links and refresh tokens, and  *)
(* the ban of the address (auth.service.ts, users.service.ts,              *)
(* tokens.service.ts, data-retention.scheduler.ts).  users.email is unique *)
(* as it is spelled, banned_emails holds it in lower case; both token      *)
(* tables have a foreign key to users and nothing cascades.                *)
(***************************************************************************)
EXTENDS Naturals

CONSTANTS Account, Spelling,
          Handler,      \* requests in flight together
          MaxSessions,  \* refresh tokens of one account (a bound)
          MaxDeaths     \* requests that may die half way (a bound)

VARIABLES
  users,    \* the row of each account
  links,    \* the kinds of rows an account has in verification_tokens
  sessions, \* the number of rows it has in refresh_tokens
  banned,   \* the address has a row in banned_emails
  told,     \* messages to the other services, as <<key, account>>
  requests, \* the handler executions in flight
  deaths

accountsVars == <<users, links, sessions, banned, told, requests, deaths>>
tables == <<users, links, sessions, banned>>

None == [spelling |-> "none", verified |-> FALSE, left |-> FALSE]
Exists(a) == users[a].spelling # "none"
Fresh(a) == users[a] = None

\* An execution, and the account or the spelling it is about.
NoRequest == [at |-> "idle", account |-> "none", spelling |-> "none"]
Turn(h, at) == requests' = [requests EXCEPT ![h].at = at]
Finish(h) == requests' = [requests EXCEPT ![h] = NoRequest]
Enter(h, at, a) ==
  /\ requests[h] = NoRequest
  /\ requests' = [requests EXCEPT ![h].at = at, ![h].account = a]
  /\ UNCHANGED <<tables, told, deaths>>
Of(h) == requests[h].account

AccountsInit ==
  /\ users = [a \in Account |-> None]
  /\ links = [a \in Account |-> {}]
  /\ sessions = [a \in Account |-> 0]
  /\ banned = FALSE
  /\ told = {}
  /\ requests = [h \in Handler |-> NoRequest]
  /\ deaths = 0

----------------------------------------------------------------------------
(* Registration.                                                           *)

\* isEmailBanned, in lower case.
Register(h, s) ==
  /\ requests[h] = NoRequest
  /\ ~banned
  /\ requests' = [requests EXCEPT ![h].at = "find", ![h].spelling = s]
  /\ UNCHANGED <<tables, told, deaths>>

Taken(s) == \E a \in Account : Exists(a) /\ users[a].spelling = s

\* create: findOne, and the hash of the password after it.
FindUser(h) ==
  /\ requests[h].at = "find"
  /\ IF Taken(requests[h].spelling) THEN Finish(h) ELSE Turn(h, "insert")
  /\ UNCHANGED <<tables, told, deaths>>

\* The INSERT, which the unique column may refuse.
InsertUser(h, a) ==
  LET s == requests[h].spelling
  IN /\ requests[h].at = "insert"
     /\ Fresh(a)
     /\ IF Taken(s)
        THEN /\ Finish(h)
             /\ UNCHANGED users
        ELSE /\ users' = [users EXCEPT ![a].spelling = s]
             /\ requests' = [requests EXCEPT ![h].at = "welcome", ![h].account = a]
     /\ UNCHANGED <<links, sessions, banned, told, deaths>>

PublishRegistered(h) ==
  /\ requests[h].at = "welcome"
  /\ told' = told \cup {<<"user.registered", Of(h)>>}
  /\ Turn(h, "link")
  /\ UNCHANGED <<tables, deaths>>

\* A row with a foreign key to users: refused once the account has gone.
InsertLink(h) ==
  /\ requests[h].at = "link"
  /\ links' = IF Exists(Of(h)) THEN [links EXCEPT ![Of(h)] = @ \cup {"unused"}] ELSE links
  /\ Finish(h)
  /\ UNCHANGED <<users, sessions, banned, told, deaths>>

ResendVerification(h, a) ==
  /\ Exists(a) /\ ~users[a].verified
  /\ Enter(h, "link", a)

----------------------------------------------------------------------------
(* Sessions.                                                               *)

VerifyEmail(h, a) == "unused" \in links[a] /\ Enter(h, "use", a)

\* The link is used up before the account is verified; another may be left.
UseLink(h) ==
  /\ requests[h].at = "use"
  /\ \E rest \in SUBSET (links[Of(h)] \cap {"unused"}) :
       links' = [links EXCEPT ![Of(h)] = rest \cup {"used"}]
  /\ Turn(h, "verify")
  /\ UNCHANGED <<users, sessions, banned, told, deaths>>

MarkVerified(h) ==
  /\ requests[h].at = "verify"
  /\ users' = IF Exists(Of(h)) THEN [users EXCEPT ![Of(h)].verified = TRUE] ELSE users
  /\ IF Exists(Of(h)) THEN Turn(h, "session") ELSE Finish(h)
  /\ UNCHANGED <<links, sessions, banned, told, deaths>>

\* login does not ask whether the address is banned.
Login(h, a) == Exists(a) /\ users[a].verified /\ Enter(h, "session", a)

\* refresh leaves the token it was given as it is.
Refresh(h, a) == Exists(a) /\ sessions[a] > 0 /\ Enter(h, "session", a)

GenerateRefreshToken(h) ==
  /\ requests[h].at = "session"
  /\ sessions[Of(h)] < MaxSessions
  /\ sessions' = IF Exists(Of(h)) THEN [sessions EXCEPT ![Of(h)] = @ + 1] ELSE sessions
  /\ Finish(h)
  /\ UNCHANGED <<users, links, banned, told, deaths>>

----------------------------------------------------------------------------
(* Deletion and ban.                                                       *)

\* An access token outlives its account: nothing is read first.
DeleteById(h, a) == ~Fresh(a) /\ Enter(h, "goodbye", a)

BanUser(h, a) == Exists(a) /\ Enter(h, "banned?", a)

FindBan(h) ==
  /\ requests[h].at = "banned?"
  /\ Turn(h, IF banned THEN "goodbye" ELSE "ban")
  /\ UNCHANGED <<tables, told, deaths>>

\* The INSERT fails if another ban of the address was faster.
InsertBan(h) ==
  /\ requests[h].at = "ban"
  /\ banned' = TRUE
  /\ IF banned THEN Finish(h) ELSE Turn(h, "goodbye")
  /\ UNCHANGED <<users, links, sessions, told, deaths>>

\* deleteById: the message first, then the rows.
PublishDeleted(h) ==
  /\ requests[h].at = "goodbye"
  /\ told' = told \cup {<<"user.deleted", Of(h)>>}
  /\ Turn(h, "logout")
  /\ UNCHANGED <<tables, deaths>>

DeleteSessions(h) ==
  /\ requests[h].at = "logout"
  /\ sessions' = [sessions EXCEPT ![Of(h)] = 0]
  /\ Turn(h, "delete")
  /\ UNCHANGED <<users, links, banned, told, deaths>>

\* The foreign keys refuse the DELETE while the account has a link left, or a
\* refresh token that was inserted since.
Referenced(a) == links[a] # {} \/ sessions[a] > 0
DeleteUser(h) ==
  /\ requests[h].at = "delete"
  /\ users' = IF Referenced(Of(h)) \/ ~Exists(Of(h)) THEN users
              ELSE [users EXCEPT ![Of(h)] = [None EXCEPT !.left = TRUE]]
  /\ Finish(h)
  /\ UNCHANGED <<links, sessions, banned, told, deaths>>

\* Once a week: tokens that have expired, and links used or long expired.
CleanExpiredTokens(a, expired) ==
  /\ links' = [links EXCEPT ![a] = @ \ expired]
  /\ sessions' = [sessions EXCEPT ![a] = IF @ > 0 /\ "session" \in expired THEN @ - 1 ELSE @]
  /\ <<links', sessions'>> # <<links, sessions>>
  /\ UNCHANGED <<users, banned, told, requests, deaths>>

HandlerDies(h) ==
  /\ requests[h] # NoRequest
  /\ deaths < MaxDeaths
  /\ deaths' = deaths + 1
  /\ Finish(h)
  /\ UNCHANGED <<tables, told>>

AccountsNext ==
  \/ \E h \in Handler :
       \/ \E s \in Spelling : Register(h, s)
       \/ \E a \in Account :
            \/ InsertUser(h, a) \/ ResendVerification(h, a) \/ VerifyEmail(h, a)
            \/ Login(h, a) \/ Refresh(h, a) \/ DeleteById(h, a) \/ BanUser(h, a)
       \/ FindUser(h) \/ PublishRegistered(h) \/ InsertLink(h) \/ UseLink(h)
       \/ MarkVerified(h) \/ GenerateRefreshToken(h) \/ FindBan(h) \/ InsertBan(h)
       \/ PublishDeleted(h) \/ DeleteSessions(h) \/ DeleteUser(h) \/ HandlerDies(h)
  \/ \E a \in Account, expired \in {{"used", "session"}, {"used", "unused", "session"}} :
       CleanExpiredTokens(a, expired)

AccountsSpec == AccountsInit /\ [][AccountsNext]_accountsVars

----------------------------------------------------------------------------
\* An account whose deletion was announced to the other services, by its user
\* or by a ban, is gone once the request has ended: the privacy page promises
\* "Permanently delete your account", banById's comment is "Delete the user".
DeletedIsGone ==
  (\A h \in Handler : requests[h] = NoRequest) =>
    \A a \in Account : <<"user.deleted", a>> \in told => ~Exists(a)
=============================================================================
