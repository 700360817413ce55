------------------------------- MODULE Session -------------------------------
(***************************************************************************)
(* How the web clients stay signed in (lib/api.ts, lib/auth.ts): the tokens*)
(* in the storage of a browser, which its tabs share, and the refresh that *)
(* a refused request starts, one at a time in a tab; with the part of      *)
(* auth-service that answers.  A refresh token is not used up: it is good  *)
(* for seven days and as long as it is among the five newest of the user.  *)
(***************************************************************************)
EXTENDS Naturals

CONSTANTS Browser, Tab,
          BrowserOf,   \* the browser of each tab
          MaxTokens    \* refresh tokens of the user (a bound)

ASSUME TabsHaveBrowsers == BrowserOf \in [Tab -> Browser]

VARIABLES
  issued,     \* the refresh tokens of the user are 1 .. issued, by age
  expired,    \* and 1 .. expired of them older than seven days
  storage,    \* localStorage of each browser: [access, refresh]
  pending,    \* tabs with a request under way that carries an old access token
  refreshing, \* what became of the refresh of each tab
  signed,     \* history: browsers whose user signed in, and not out
  spoiled     \* history: browsers in which the code does not keep up with that

sessionVars == <<issued, expired, storage, pending, refreshing, signed, spoiled>>

Empty == [access |-> "none", refresh |-> 0]
NotRefreshing == [at |-> "none", token |-> 0]

SessionInit ==
  /\ issued = 0 /\ expired = 0
  /\ storage = [b \in Browser |-> Empty]
  /\ pending = {}
  /\ refreshing = [t \in Tab |-> NotRefreshing]
  /\ signed = {} /\ spoiled = {}

\* validateRefreshToken.
Newest == 5
Valid(token, count) == token > expired /\ token + Newest > count

Busy(b) == {t \in Tab : BrowserOf[t] = b /\ refreshing[t] # NotRefreshing}

\* Browsers with a token, in the storage or on its way to the server, that is
\* no longer among the newest once another is issued to browser b, to somebody
\* else than who waits for it: tabs are all the others.
Crowded(b, tabs) ==
  LET Out(token) == token # 0 /\ ~Valid(token, issued + 1)
  IN {c \in Browser : Out(storage[c].refresh) /\ (c # b \/ Busy(b) \cap tabs # {})}
       \cup {BrowserOf[t] : t \in {u \in tabs : refreshing[u].at = "asked"
                                               /\ Out(refreshing[u].token)}}

----------------------------------------------------------------------------
(* Signing in and out.                                                     *)

\* handleSubmit of the page, and login: the storage is cleared and filled.
HandleSubmit(b) ==
  /\ b \notin signed /\ issued < MaxTokens
  /\ issued' = issued + 1
  /\ storage' = [storage EXCEPT ![b] = [access |-> "fresh", refresh |-> issued + 1]]
  /\ signed' = signed \cup {b}
  /\ spoiled' = (IF Busy(b) = {} THEN spoiled \ {b} ELSE spoiled \cup {b}) \cup Crowded(b, Tab)
  /\ UNCHANGED <<expired, pending, refreshing>>

\* handleLogout: clearTokens; the tab that did it leaves the page.
Logout(t) ==
  LET b == BrowserOf[t]
  IN /\ b \in signed
     /\ storage' = [storage EXCEPT ![b] = Empty]
     /\ pending' = pending \ {t}
     /\ refreshing' = [refreshing EXCEPT ![t] = NotRefreshing]
     /\ signed' = signed \ {b}
     /\ spoiled' = IF Busy(b) \subseteq {t} THEN spoiled \ {b} ELSE spoiled \cup {b}
     /\ UNCHANGED <<issued, expired>>

\* 15 minutes, and 7 days.
AccessExpires(b) ==
  /\ storage[b].access = "fresh"
  /\ storage' = [storage EXCEPT ![b].access = "old"]
  /\ UNCHANGED <<issued, expired, pending, refreshing, signed, spoiled>>

RefreshExpires ==
  /\ expired < issued
  /\ expired' = expired + 1
  /\ spoiled' = spoiled \cup {b \in Browser : storage[b].refresh = expired'}
                        \cup {BrowserOf[t] : t \in {u \in Tab : refreshing[u].token = expired'}}
  /\ UNCHANGED <<issued, storage, pending, refreshing, signed>>

----------------------------------------------------------------------------
(* Requests, and the refresh.                                              *)

Send(t) ==
  /\ storage[BrowserOf[t]].access = "old"
  /\ pending' = pending \cup {t}
  /\ UNCHANGED <<issued, expired, storage, refreshing, signed, spoiled>>

\* request: 401. The refresh of this tab is waited for, or started, unless
\* there is no refresh token by now.
Refused(t) ==
  LET here == storage[BrowserOf[t]]
  IN /\ t \in pending
     /\ pending' = pending \ {t}
     /\ refreshing' =
          IF refreshing[t] = NotRefreshing /\ here # Empty
          THEN [refreshing EXCEPT ![t] = [at |-> "asked", token |-> here.refresh]]
          ELSE refreshing
     /\ spoiled' =
          IF Valid(here.refresh, issued) \/ Busy(BrowserOf[t]) = {}
          THEN spoiled ELSE spoiled \cup {BrowserOf[t]}
     /\ UNCHANGED <<issued, expired, storage, signed>>

\* refresh of auth-service: another token, the old one stays.
RefreshTokens(t) ==
  /\ refreshing[t].at = "asked"
  /\ IF Valid(refreshing[t].token, issued)
     THEN /\ issued < MaxTokens
          /\ issued' = issued + 1
          /\ refreshing' = [refreshing EXCEPT ![t] = [at |-> "granted", token |-> issued + 1]]
          /\ spoiled' = spoiled \cup Crowded(BrowserOf[t], Tab \ {t})
     ELSE /\ refreshing' = [refreshing EXCEPT ![t].at = "refused"]
          /\ UNCHANGED <<issued, spoiled>>
  /\ UNCHANGED <<expired, storage, pending, signed>>

\* The request or its answer is lost: the client takes it for a refusal.
AnswerLost(t) ==
  /\ refreshing[t].at \in {"asked", "granted"}
  /\ refreshing' = [refreshing EXCEPT ![t].at = "refused"]
  /\ spoiled' = spoiled \cup {BrowserOf[t]}
  /\ UNCHANGED <<issued, expired, storage, pending, signed>>

\* Faulty variant, in no specification: keeps the old refresh token.
StoreAccess(t) ==
  /\ refreshing[t].at = "granted"
  /\ storage' = [storage EXCEPT ![BrowserOf[t]].access = "fresh"]
  /\ refreshing' = [refreshing EXCEPT ![t] = NotRefreshing]
  /\ UNCHANGED <<issued, expired, pending, signed, spoiled>>

\* tryRefreshToken: both tokens are stored, whatever happened meanwhile, ...
StoreTokens(t) ==
  LET b == BrowserOf[t]
      token == refreshing[t].token
  IN /\ refreshing[t].at = "granted"
     /\ storage' = [storage EXCEPT ![b] = [access |-> "fresh", refresh |-> token]]
     /\ refreshing' = [refreshing EXCEPT ![t] = NotRefreshing]
     /\ spoiled' = IF Valid(token, issued) THEN spoiled ELSE spoiled \cup {b}
     /\ UNCHANGED <<issued, expired, pending, signed>>

\* ... or all are removed.
RemoveTokens(t) ==
  /\ refreshing[t].at = "refused"
  /\ storage' = [storage EXCEPT ![BrowserOf[t]] = Empty]
  /\ refreshing' = [refreshing EXCEPT ![t] = NotRefreshing]
  /\ UNCHANGED <<issued, expired, pending, signed, spoiled>>

SessionNext ==
  \/ \E b \in Browser : HandleSubmit(b) \/ AccessExpires(b)
  \/ RefreshExpires
  \/ \E t \in Tab :
       \/ Logout(t) \/ Send(t) \/ Refused(t)
       \/ RefreshTokens(t) \/ AnswerLost(t) \/ StoreTokens(t) \/ RemoveTokens(t)

SessionSpec == SessionInit /\ [][SessionNext]_sessionVars

----------------------------------------------------------------------------
(* Properties.                                                             *)

\* Who signs in stays signed in until he signs out, through any number of
\* refreshes in several tabs, and who signs out stays signed out.  Not so if
\* a refresh was lost on the way (the client forgets the session), if the
\* token is older than a week or five newer ones were issued to others, or if
\* another tab was refreshing while the user signed in or out.
SessionKept ==
  \A b \in Browser \ spoiled :
    IF b \in signed
    THEN storage[b] # Empty /\ (Busy(b) = {} => Valid(storage[b].refresh, issued))
    ELSE storage[b] = Empty

=============================================================================
