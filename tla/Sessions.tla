------------------------------ MODULE Sessions ------------------------------
(***************************************************************************)
(* A user's session: the page's axios client with its refresh queue, the   *)
(* tokens in local storage, the gateway's check of access tokens, and the  *)
(* user service's login, refresh and logout over the Redis blacklist.      *)
(*                                                                         *)
(* JavaScript runs one callback at a time, so the code between two awaits  *)
(* is one step; requests, answers, the passing of time and an              *)
(* administrator's changes of the account interleave.  Token pair n is the *)
(* n-th the user service issues; 0 stands for no token.                    *)
(*                                                                         *)
(* The account is a local one (LDAP differs in how a password is checked). *)
(*                                                                         *)
(* A page makes each of its requests once, in the order of their numbers;  *)
(* they are alike, so any other order is the same up to renaming.  Request *)
(* Me is getCurrentUser, which AuthProvider makes when the page is loaded. *)
(***************************************************************************)
EXTENDS Naturals, Sequences, FiniteSets, SequencesExt

CONSTANTS
  MaxRequests, \* bound: requests of a page beside Me
  Roles,       \* roles an account can have
  FirstRole,   \* the role the account was created with
  MaxPairs,    \* bound: token pairs issued
  MaxEvents    \* bound: changes of the account, failures and returns of Redis

ASSUME SessionAssumption ==
  /\ MaxRequests \in Nat /\ FirstRole \in Roles
  /\ MaxPairs \in Nat \ {0} /\ MaxEvents \in Nat

Me == 0
Requests == Me .. MaxRequests

VARIABLES
  \* the page
  store,       \* local storage: access and refresh token, and whether a user is kept
  shown,       \* AuthProvider has a user: the page's routes are open
  loading,     \* AuthProvider is verifying the stored token
  req,         \* where each request is
  isRefreshing, failedQueue,
  leaving,     \* window.location was set: the page is about to be replaced
  login,       \* the login request under way
  logout,      \* the logout request under way
  \* the servers
  pairs,       \* the pairs issued so far
  revoked,     \* pairs whose access token has a blacklist entry in Redis
  redisUp,
  account,     \* the row of the user
  events,      \* changes of account and redisUp so far
  \* history
  loggedOut,   \* pairs whose logout was confirmed, until their last second
  asked        \* refreshes and logins under way, asked for since the account last changed

page == <<store, shown, loading, req, isRefreshing, failedQueue, leaving, login, logout>>
servers == <<pairs, revoked, redisUp, account, events>>
history == <<loggedOut, asked>>
vars == <<page, servers, history>>

Pairs == 0 .. MaxPairs
Stages == {"idle", "sent", "denied", "queued", "refreshing", "signing", "renewed", "refused",
           "settled"}
\* The calls that may bring tokens: refreshes by a request, and the login.
LoginCall == MaxRequests + 1
Calls == Requests \cup {LoginCall}

TypeOK ==
  /\ store \in [access : Pairs, refresh : Pairs, user : BOOLEAN]
  /\ {shown, loading, isRefreshing, leaving, redisUp} \subseteq BOOLEAN
  /\ req \in [Requests -> [at : Stages, token : Pairs, _retry : BOOLEAN, role : Roles]]
  /\ failedQueue \in Seq(Requests)
  /\ login \in [at : {"none", "sent", "signing", "granted"}, token : Pairs, role : Roles]
  /\ logout \in [at : {"none", "sent", "done", "error"}, token : Pairs]
  /\ pairs \in Seq([age : {"fresh", "ending", "expired"}, role : Roles])
  /\ Len(pairs) <= MaxPairs
  /\ revoked \subseteq Pairs /\ loggedOut \subseteq Pairs
  /\ asked \subseteq Calls
  /\ account \in [role : Roles, is_active : BOOLEAN] /\ events \in 0 .. MaxEvents

\* role: what the user service has read of the account while it signs (FirstRole otherwise).
NewRequest == [at |-> "idle", token |-> 0, _retry |-> FALSE, role |-> FirstRole]
\* A request that was answered or failed; what the page did with it is done in the same step.
Settled == [NewRequest EXCEPT !.at = "settled"]
NoCall == [at |-> "none", token |-> 0]
NoLogin == [at |-> "none", token |-> 0, role |-> FirstRole]
EmptyStore == [access |-> 0, refresh |-> 0, user |-> FALSE]

Init ==
  /\ store = EmptyStore
  /\ shown = FALSE /\ loading = FALSE /\ leaving = FALSE
  /\ req = [r \in Requests |-> NewRequest]
  /\ isRefreshing = FALSE /\ failedQueue = <<>>
  /\ login = NoLogin /\ logout = NoCall
  /\ pairs = <<>> /\ revoked = {} /\ redisUp = TRUE
  /\ account = [role |-> FirstRole, is_active |-> TRUE]
  /\ events = 0 /\ loggedOut = {} /\ asked = {}

-----------------------------------------------------------------------------
(* Requests.  The request interceptor attaches the stored access token. *)

Sent(rec, token) == [rec EXCEPT !.at = "sent", !.token = token]

Send(r) ==
  /\ shown /\ ~loading
  /\ r # Me /\ req[r].at = "idle"
  /\ \A q \in 1 .. r - 1 : req[q].at # "idle"
  /\ req' = [req EXCEPT ![r] = Sent(@, store.access)]
  /\ UNCHANGED <<store, shown, loading, isRefreshing, failedQueue, leaving, login, logout,
                 servers, history>>

\* JWTAuthMiddleware.dispatch.  When Redis does not answer, the blacklist is not consulted.
Accepts(t) ==
  /\ t # 0 /\ pairs[t].age # "expired"
  /\ ~(redisUp /\ t \in revoked)

Authenticate(r) ==
  /\ req[r].at = "sent"
  /\ LET t == req[r].token IN
     IF Accepts(t)
     THEN /\ req' = [req EXCEPT ![r] = Settled]
          /\ IF r = Me
             THEN /\ shown' = TRUE /\ loading' = FALSE
                  /\ store' = [store EXCEPT !.user = TRUE]
             ELSE UNCHANGED <<shown, loading, store>>
     ELSE /\ req' = [req EXCEPT ![r].at = "denied", ![r].token = 0]
          /\ UNCHANGED <<shown, loading, store>>
  /\ UNCHANGED <<isRefreshing, failedQueue, leaving, login, logout, servers, history>>

\* What the callers do with requests that fail: AuthProvider forgets the session.
AfterFailure(failed, kept) ==
  IF Me \in failed
  THEN /\ store' = EmptyStore
       /\ shown' = FALSE /\ loading' = FALSE
  ELSE store' = kept /\ UNCHANGED <<shown, loading>>

\* An error other than 401, from the network or from a service.
RequestFails(r) ==
  /\ req[r].at = "sent"
  /\ req' = [req EXCEPT ![r] = Settled]
  /\ AfterFailure({r}, store)
  /\ UNCHANGED <<isRefreshing, failedQueue, leaving, login, logout, servers, history>>

-----------------------------------------------------------------------------
(* The response interceptor. *)

EnqueueDenied(r) ==
  /\ req[r].at = "denied" /\ ~req[r]._retry /\ isRefreshing
  /\ req' = [req EXCEPT ![r].at = "queued"]
  /\ failedQueue' = Append(failedQueue, r)
  /\ UNCHANGED <<store, shown, loading, isRefreshing, leaving, login, logout, servers, history>>

RejectTwiceDenied(r) ==
  /\ req[r].at = "denied" /\ req[r]._retry
  /\ req' = [req EXCEPT ![r] = Settled]
  /\ AfterFailure({r}, store)
  /\ UNCHANGED <<isRefreshing, failedQueue, leaving, login, logout, servers, history>>

\* Mutated forms, here and below: plausible bugs that the properties catch.
\* No specification uses them.
StartRefreshWithoutFlag(r) ==
  /\ req[r].at = "denied" /\ ~req[r]._retry /\ ~isRefreshing
  /\ store.refresh # 0
  /\ req' = [req EXCEPT ![r].at = "refreshing", ![r].token = store.refresh, ![r]._retry = TRUE]
  /\ asked' = asked \cup {r}
  /\ UNCHANGED <<store, shown, loading, isRefreshing, failedQueue, leaving, login, logout,
                 servers, loggedOut>>

StartRefresh(r) ==
  /\ req[r].at = "denied" /\ ~req[r]._retry /\ ~isRefreshing
  /\ store.refresh # 0
  /\ isRefreshing' = TRUE
  /\ req' = [req EXCEPT ![r].at = "refreshing", ![r].token = store.refresh, ![r]._retry = TRUE]
  /\ asked' = asked \cup {r}
  /\ UNCHANGED <<store, shown, loading, failedQueue, leaving, login, logout, servers,
                 loggedOut>>

Waiting == ToSet(failedQueue)

\* processQueue(error, null) and the rejection of r itself.
RejectAll(r, kept) ==
  /\ req' = [q \in Requests |-> IF q \in Waiting \cup {r} THEN Settled ELSE req[q]]
  /\ failedQueue' = <<>>
  /\ isRefreshing' = FALSE
  /\ leaving' = TRUE
  /\ AfterFailure(Waiting \cup {r}, kept)

NothingToRefreshWith(r) ==
  /\ req[r].at = "denied" /\ ~req[r]._retry /\ ~isRefreshing
  /\ store.refresh = 0
  /\ RejectAll(r, [store EXCEPT !.access = 0])
  /\ UNCHANGED <<login, logout, servers, history>>

FinishRefreshStillFlagged(r) ==
  /\ req[r].at = "renewed"
  /\ LET n == req[r].token IN
     /\ store' = [store EXCEPT !.access = n, !.refresh = n]
     /\ req' = [q \in Requests |-> IF q \in Waiting \cup {r} THEN Sent(req[q], n) ELSE req[q]]
  /\ failedQueue' = <<>>
  /\ UNCHANGED <<shown, loading, isRefreshing, leaving, login, logout, servers, history>>

\* processQueue(null, access_token), then the request itself, all with the new token.
FinishRefresh(r) ==
  /\ req[r].at = "renewed"
  /\ LET n == req[r].token IN
     /\ store' = [store EXCEPT !.access = n, !.refresh = n]
     /\ req' = [q \in Requests |-> IF q \in Waiting \cup {r} THEN Sent(req[q], n) ELSE req[q]]
  /\ failedQueue' = <<>>
  /\ isRefreshing' = FALSE
  /\ UNCHANGED <<shown, loading, leaving, login, logout, servers, history>>

AbandonRefresh(r) ==
  /\ req[r].at = "refused"
  /\ RejectAll(r, [store EXCEPT !.access = 0, !.refresh = 0])
  /\ UNCHANGED <<login, logout, servers, history>>

-----------------------------------------------------------------------------
(* The user service. *)

\* The next pair, signed for a call with the role that it has read.
Issue(call, role) ==
  /\ Len(pairs) < MaxPairs
  /\ pairs' = Append(pairs, [age |-> "fresh", role |-> role])
  /\ asked' = asked \ {call}
  /\ UNCHANGED <<revoked, redisUp, account, events, loggedOut>>

\* refresh reads the account, the refresh token only names it.
ReadForRefresh(r) ==
  /\ req[r].at = "refreshing"
  /\ account.is_active
  /\ req' = [req EXCEPT ![r].at = "signing", ![r].role = account.role]
  /\ UNCHANGED <<store, shown, loading, isRefreshing, failedQueue, leaving, login, logout,
                 servers, history>>

Renewed(r) ==
  req' = [req EXCEPT ![r].at = "renewed", ![r].token = Len(pairs) + 1, ![r].role = FirstRole]

SignRefreshFromToken(r) ==
  /\ req[r].at = "signing"
  /\ Issue(r, pairs[req[r].token].role)
  /\ Renewed(r)
  /\ UNCHANGED <<store, shown, loading, isRefreshing, failedQueue, leaving, login, logout>>

\* The groups are read in between: the account may have changed meanwhile.
SignRefresh(r) ==
  /\ req[r].at = "signing"
  /\ Issue(r, req[r].role)
  /\ Renewed(r)
  /\ UNCHANGED <<store, shown, loading, isRefreshing, failedQueue, leaving, login, logout>>

\* The refresh token is too old (it lives much longer than an access token: its age is
\* left open), the account is closed, or the call or its answer is lost.
RefuseRefresh(r) ==
  /\ req[r].at \in {"refreshing", "signing", "renewed"}
  /\ req' = [req EXCEPT ![r].at = "refused", ![r].token = 0, ![r].role = FirstRole]
  /\ asked' = asked \ {r}
  /\ UNCHANGED <<store, shown, loading, isRefreshing, failedQueue, leaving, login, logout,
                 servers, loggedOut>>

SubmitLogin ==
  /\ ~shown \/ loading
  /\ login.at = "none"
  /\ login' = [NoLogin EXCEPT !.at = "sent"]
  /\ asked' = asked \cup {LoginCall}
  /\ UNCHANGED <<store, shown, loading, req, isRefreshing, failedQueue, leaving, logout,
                 servers, loggedOut>>

\* login with the right password: authenticate_local wants an active account.
ReadForLogin ==
  /\ login.at = "sent"
  /\ account.is_active
  /\ login' = [NoLogin EXCEPT !.at = "signing", !.role = account.role]
  /\ UNCHANGED <<store, shown, loading, req, isRefreshing, failedQueue, leaving, logout,
                 servers, history>>

\* The groups are read in between, as in a refresh.
SignLogin ==
  /\ login.at = "signing"
  /\ Issue(LoginCall, login.role)
  /\ login' = [NoLogin EXCEPT !.at = "granted", !.token = Len(pairs) + 1]
  /\ UNCHANGED <<store, shown, loading, req, isRefreshing, failedQueue, leaving, logout>>

\* Wrong password, closed account, or the call or its answer is lost: an error is shown.
RefuseLogin ==
  /\ login.at \in {"sent", "signing", "granted"}
  /\ login' = NoLogin
  /\ asked' = asked \ {LoginCall}
  /\ UNCHANGED <<store, shown, loading, req, isRefreshing, failedQueue, leaving, logout,
                 servers, loggedOut>>

FinishLogin ==
  /\ login.at = "granted"
  /\ store' = [access |-> login.token, refresh |-> login.token, user |-> TRUE]
  /\ shown' = TRUE
  /\ login' = NoLogin
  /\ UNCHANGED <<loading, req, isRefreshing, failedQueue, leaving, logout, servers, history>>

SubmitLogout ==
  /\ shown /\ ~loading
  /\ logout.at = "none"
  /\ logout' = [at |-> "sent", token |-> store.access]
  /\ UNCHANGED <<store, shown, loading, req, isRefreshing, failedQueue, leaving, login,
                 servers, history>>

LoggedOut == [NoCall EXCEPT !.at = "done"]
LogoutFailed == [NoCall EXCEPT !.at = "error"]

\* logout and blacklist_token: an expired token needs no entry; without Redis the call fails.
ServeLogout ==
  /\ logout.at = "sent"
  /\ LET t == logout.token IN
     IF t = 0 \/ pairs[t].age = "expired"
     THEN /\ logout' = LoggedOut
          /\ UNCHANGED <<revoked, loggedOut>>
     ELSE IF redisUp
     THEN /\ revoked' = revoked \cup {t}
          /\ loggedOut' = IF pairs[t].age = "fresh" THEN loggedOut \cup {t} ELSE loggedOut
          /\ logout' = LoggedOut
     ELSE /\ logout' = LogoutFailed
          /\ UNCHANGED <<revoked, loggedOut>>
  /\ UNCHANGED <<store, shown, loading, req, isRefreshing, failedQueue, leaving, login,
                 pairs, redisUp, account, events, asked>>

LogoutFails ==
  /\ logout.at \in {"sent", "done"}
  /\ logout' = LogoutFailed
  /\ UNCHANGED <<store, shown, loading, req, isRefreshing, failedQueue, leaving, login,
                 servers, history>>

\* The storage is emptied in any case, the page's user only when the call succeeded.
FinishLogout ==
  /\ logout.at \in {"done", "error"}
  /\ store' = EmptyStore
  /\ shown' = (shown /\ logout.at = "error")
  /\ logout' = NoCall
  /\ UNCHANGED <<loading, req, isRefreshing, failedQueue, leaving, login, servers, history>>

-----------------------------------------------------------------------------
(* The page is loaded anew: its requests are lost, local storage stays. *)

LoadPage ==
  /\ leaving' = FALSE /\ isRefreshing' = FALSE /\ failedQueue' = <<>>
  /\ login' = NoLogin /\ logout' = NoCall /\ asked' = {}
  /\ shown' = (store.user /\ store.access # 0)
  /\ loading' = (store.access # 0)
  /\ req' = [r \in Requests |-> IF r = Me /\ store.access # 0 THEN Sent(NewRequest, store.access)
                                ELSE NewRequest]
  /\ UNCHANGED <<store, servers, loggedOut>>

Redirect == leaving /\ LoadPage
Reload == ~leaving /\ LoadPage

-----------------------------------------------------------------------------
(* Time, Redis, and an administrator. *)

Aged(age) == IF age = "fresh" THEN "ending" ELSE "expired"

\* A blacklist entry lives for the remaining whole seconds of its token, at least one.
TokenAges(t) ==
  /\ pairs[t].age # "expired"
  /\ pairs' = [pairs EXCEPT ![t].age = Aged(@)]
  /\ revoked' = IF pairs[t].age = "ending" THEN revoked \ {t} ELSE revoked
  /\ loggedOut' = loggedOut \ {t}
  /\ UNCHANGED <<page, redisUp, account, events, asked>>

EntryExpiresEarly(t) ==
  /\ t \in revoked
  /\ revoked' = revoked \ {t}
  /\ UNCHANGED <<page, pairs, redisUp, account, events, history>>

\* Rounding: the entry can go within the last second.
EntryExpires(t) ==
  /\ t \in revoked /\ pairs[t].age = "ending"
  /\ revoked' = revoked \ {t}
  /\ UNCHANGED <<page, pairs, redisUp, account, events, history>>

Event == events < MaxEvents /\ events' = events + 1

RedisFailsOrReturns ==
  /\ Event
  /\ redisUp' = ~redisUp
  /\ UNCHANGED <<page, pairs, revoked, account, history>>

AccountChanges ==
  /\ Event
  /\ \/ \E role \in Roles \ {account.role} : account' = [account EXCEPT !.role = role]
     \/ account' = [account EXCEPT !.is_active = ~@]
  /\ asked' = {}
  /\ UNCHANGED <<page, pairs, revoked, redisUp, loggedOut>>

-----------------------------------------------------------------------------

Answer(r) ==
  \/ Authenticate(r) \/ RequestFails(r)
  \/ ReadForRefresh(r) \/ SignRefresh(r) \/ RefuseRefresh(r)

Intercept(r) ==
  \/ EnqueueDenied(r) \/ RejectTwiceDenied(r) \/ StartRefresh(r) \/ NothingToRefreshWith(r)
  \/ FinishRefresh(r) \/ AbandonRefresh(r)

LoginAndLogout ==
  \/ SubmitLogin \/ ReadForLogin \/ SignLogin \/ RefuseLogin \/ FinishLogin
  \/ SubmitLogout \/ ServeLogout \/ LogoutFails \/ FinishLogout

Environment ==
  \/ \E t \in DOMAIN pairs : TokenAges(t) \/ EntryExpires(t)
  \/ RedisFailsOrReturns
  \/ AccountChanges

Next ==
  \/ \E r \in Requests : Send(r) \/ Answer(r) \/ Intercept(r)
  \/ LoginAndLogout
  \/ Redirect \/ Reload
  \/ Environment

Spec == Init /\ [][Next]_vars

RefreshGoesOn ==
  \E r \in Requests :
    ReadForRefresh(r) \/ SignRefresh(r) \/ RefuseRefresh(r) \/ FinishRefresh(r) \/ AbandonRefresh(r)

\* The call to refresh is answered or fails, and the page runs its callback.
FairSpec == Spec /\ WF_vars(RefreshGoesOn)

-----------------------------------------------------------------------------
(* Properties. *)

Renewing(r) == req[r].at \in {"refreshing", "signing", "renewed", "refused"}

\* However many requests get 401 at once, one of them refreshes, exactly while
\* isRefreshing says so, and only then do others wait, each in the queue once.
OneRefresh ==
  /\ Cardinality({r \in Requests : Renewing(r)}) = (IF isRefreshing THEN 1 ELSE 0)
  /\ Waiting = {r \in Requests : req[r].at = "queued"}
  /\ Len(failedQueue) = Cardinality(Waiting)
  /\ failedQueue # <<>> => isRefreshing

\* A refresh comes to an end whatever becomes of it.  With OneRefresh: whoever waits
\* in the queue is answered, fails, or is gone with its page.
RefreshEnds == isRefreshing ~> ~isRefreshing

\* With Redis answering, a token whose logout was confirmed is not accepted again,
\* whoever still holds it (but for its last second, see EntryExpires).
LoggedOutIsRefused ==
  [][\A r \in Requests :
       redisUp /\ req[r].token \in loggedOut /\ Authenticate(r) => req'[r].at = "denied"]_vars

Brings(call) == IF call = LoginCall THEN SignLogin ELSE SignRefresh(call)

\* Whoever asks for tokens gets a pair with the role that the account has, and
\* only of an active account, unless it changes before they are signed: a refresh
\* neither keeps an old role nor lowers it (auth.py:280).  (A pair that was asked
\* for before the change may have the old role: the account is read first, then
\* the groups, then the tokens are signed.)
NewTokensMatchAccount ==
  [][\A call \in asked :
       Brings(call) => Last(pairs').role = account.role /\ account.is_active]_vars

=============================================================================
