----------------------------- MODULE WebSession -----------------------------
(***************************************************************************)
(* The session of a staff user: the server's refresh tokens                *)
(* (src/service/auth), and in each browser tab the token store, the        *)
(* interceptors of the API client with their queue of requests that wait   *)
(* for a refresh, sign-in and sign-out (src/web/src/lib/api/client.ts,     *)
(* stores/auth-store.ts, features/auth).  Tabs share the cookie and the    *)
(* local storage, which a tab reads once, when it is loaded.               *)
(* A pair of tokens is one number.  All access tokens live equally long,   *)
(* so the older one expires first.                                         *)
(***************************************************************************)
EXTENDS Naturals, FiniteSets

CONSTANTS
  Tabs,
  NoTab,
  Requests,        \* API requests a behaviour can make
  MaxPairs,        \* bound on the pairs of tokens issued
  MaxResets,       \* bound on the changes of the user that end its sessions
  MaxEndings       \* bound on these changes, the sign-outs and the refresh tokens that lapse

ASSUME SessionAssumption ==
  /\ NoTab \notin Tabs
  /\ MaxPairs \in Nat \ {0}
  /\ {MaxResets, MaxEndings} \subseteq Nat

VARIABLES
  issued,          \* pairs issued so far
  valid,           \* refresh tokens that are not revoked
  parent,          \* the pair a pair was exchanged for; 0 after a sign-in
  born,            \* the resets there were when its user's password was verified
  expired,         \* the newest access token past its time
  lapsed,          \* the newest refresh token past its time
  user,            \* the record of the user
  resets,          \* resets of the user so far
  revoking,        \* resets that are stored and have not revoked the tokens yet
  done,            \* the newest reset whose revocation has run
  ended,           \* refresh tokens a reset has revoked
  raced,           \* pairs issued by a request a revocation overtook
  kept,            \* the pair in the cookie and the local storage
  held,            \* the pair in the memory of each tab
  place,           \* the page of each tab
  refreshing,      \* isRefreshing of each tab
  refresh,         \* the refresh request of each tab
  signOut,         \* the sign-out request of each tab
  login,           \* the sign-in request of each tab
  req              \* the API requests

account == <<user, resets, revoking, done, ended>>
server == <<issued, valid, parent, born, expired, lapsed, raced, account>>
vars == <<issued, valid, parent, born, expired, lapsed, raced, user, resets, revoking, done,
          ended, kept, held, place, refreshing, refresh, signOut, login, req>>

None == 0
Pairs == 1..MaxPairs

(* Refresh: sent, the token and its user found good, the token revoked,      *)
(* answered with a new pair, refused for the token or barred for the user;   *)
(* owner is the request that started it, seen the revocation that had run.   *)
Stage == {"none", "sent", "checked", "revoked", "answered", "refused", "barred"}
Owner == Requests \cup {"nobody"}
NoRefresh == [at |-> "none", old |-> None, new |-> None, owner |-> "nobody", seen |-> 0]
NoLogin == [at |-> "none", resets |-> 0, seen |-> 0, pair |-> None]
NoSignOut == [at |-> "none", pair |-> None]
Unsent == [at |-> "unsent", tab |-> NoTab, pair |-> None, again |-> FALSE]

TypeOK ==
  /\ issued \in Pairs
  /\ valid \subseteq 1..issued
  /\ parent \in [Pairs -> Pairs \cup {None}]
  /\ expired \in 0..issued
  /\ lapsed \in 0..expired
  /\ user \in [active : BOOLEAN, row : {"there", "leaving", "gone"}]
  /\ resets \in 0..MaxResets
  /\ revoking \subseteq 1..resets
  /\ done \in 0..resets
  /\ ended \subseteq 1..issued
  /\ raced \subseteq 1..issued
  /\ born \in [Pairs -> 0..MaxResets]
  /\ kept \in 0..issued
  /\ held \in [Tabs -> 0..issued]
  /\ place \in [Tabs -> {"app", "sign-in"}]
  /\ refreshing \in [Tabs -> BOOLEAN]
  /\ refresh \in [Tabs -> [at : Stage, old : 0..issued, new : 0..issued, owner : Owner,
                           seen : 0..MaxResets]]
  /\ signOut \in [Tabs -> [at : {"none", "sent", "done"}, pair : 0..issued]]
  /\ login \in [Tabs -> [at : {"none", "verified", "issued"}, resets : 0..MaxResets,
                         seen : 0..MaxResets, pair : 0..issued]]
  /\ req \in [Requests -> [at : {"unsent", "sent", "queued", "waiting", "ended"},
                           tab : Tabs \cup {NoTab}, pair : 0..issued, again : BOOLEAN]]

(* The user has signed in and opened the tabs. *)
Init ==
  /\ issued = 1
  /\ valid = {1}
  /\ parent = [p \in Pairs |-> None]
  /\ born = [p \in Pairs |-> 0]
  /\ expired = 0
  /\ lapsed = 0
  /\ user = [active |-> TRUE, row |-> "there"]
  /\ resets = 0
  /\ revoking = {}
  /\ done = 0
  /\ ended = {}
  /\ raced = {}
  /\ kept = 1
  /\ held = [t \in Tabs |-> 1]
  /\ place = [t \in Tabs |-> "app"]
  /\ refreshing = [t \in Tabs |-> FALSE]
  /\ refresh = [t \in Tabs |-> NoRefresh]
  /\ signOut = [t \in Tabs |-> NoSignOut]
  /\ login = [t \in Tabs |-> NoLogin]
  /\ req = [r \in Requests |-> Unsent]

-----------------------------------------------------------------------------
(* A faulty form: the refresh token of the answer is not stored. *)
StoreAccessOnly(t, pair) ==
  /\ held' = [held EXCEPT ![t] = IF pair = None THEN None ELSE @]
  /\ kept' = IF pair = None THEN None ELSE kept

(* The token store: setAccessToken with setRefreshToken, and reset. *)
Store(t, pair) == held' = [held EXCEPT ![t] = pair] /\ kept' = pair
Reset(t) == Store(t, None)

(* The bound on what ends a session. *)
Room == resets + lapsed + Cardinality({u \in Tabs : signOut[u].at # "none"}) < MaxEndings

Queue(t) == {r \in Requests : req[r].tab = t /\ req[r].at = "queued"}

(* The request interceptor takes the token from the store.  A sign-in with a *)
(* wrong password is such a request too, of a tab that holds no token.       *)
Send(r, t) ==
  /\ req[r].at = "unsent"
  /\ place[t] = "app" \/ held[t] = None
  /\ req' = [req EXCEPT ![r] = [at |-> "sent", tab |-> t, pair |-> held[t], again |-> FALSE]]
  /\ UNCHANGED <<server, kept, held, place, refreshing, refresh, signOut, login>>

Accepted(r) == req[r].pair > expired

Ended == [Unsent EXCEPT !.at = "ended"]

(* An answer that is no 401, or none: a time-out of 30 s, no network. *)
Answered(r) ==
  /\ req[r].at = "sent"
  /\ req' = [req EXCEPT ![r] = Ended]
  /\ UNCHANGED <<server, kept, held, place, refreshing, refresh, signOut, login>>

(* The response interceptor at a 401: give up, wait for the refresh that is  *)
(* under way, or start one.                                                  *)
Unauthorized(r) ==
  LET t == req[r].tab
  IN /\ req[r].at = "sent"
     /\ ~Accepted(r)
     /\ CASE req[r].again ->
               /\ req' = [req EXCEPT ![r] = Ended]
               /\ UNCHANGED <<kept, held, refreshing, refresh>>
          [] ~req[r].again /\ refreshing[t] ->
               /\ req' = [req EXCEPT ![r].at = "queued"]
               /\ UNCHANGED <<kept, held, refreshing, refresh>>
          [] ~req[r].again /\ ~refreshing[t] /\ held[t] = None ->
               /\ req' = [req EXCEPT ![r] = Ended]
               /\ Reset(t)
               /\ UNCHANGED <<refreshing, refresh>>
          [] OTHER ->
               /\ req' = [req EXCEPT ![r] = [@ EXCEPT !.at = "waiting", !.again = TRUE]]
               /\ refreshing' = [refreshing EXCEPT ![t] = TRUE]
               /\ refresh' = [refresh EXCEPT ![t] =
                                [NoRefresh EXCEPT !.at = "sent", !.old = held[t], !.owner = r]]
               /\ UNCHANGED <<kept, held>>
     /\ UNCHANGED <<server, place, signOut, login>>

-----------------------------------------------------------------------------
(* The user may sign in and refresh: the record is there and active. *)
Welcome == user.active /\ user.row # "gone"

(* Service.Refresh: read the record and the user, revoke the token, issue    *)
(* the next pair.                                                            *)
RefreshCheck(t) ==
  /\ refresh[t].at = "sent"
  /\ refresh' = [refresh EXCEPT ![t].at =
                   IF refresh[t].old \notin valid \/ refresh[t].old <= lapsed THEN "refused"
                   ELSE IF Welcome THEN "checked" ELSE "barred"]
  /\ UNCHANGED <<server, kept, held, place, refreshing, signOut, login, req>>

(* A faulty form: the old token stays good. *)
RefreshRevokeNothing(t) ==
  /\ refresh[t].at = "checked"
  /\ refresh' = [refresh EXCEPT
                   ![t] = [@ EXCEPT !.at = IF refresh[t].old \in valid THEN "revoked" ELSE "refused",
                                    !.seen = done]]
  /\ UNCHANGED <<server, kept, held, place, refreshing, signOut, login, req>>

(* Revoke changes the record if it is not revoked yet, and fails otherwise.  *)
RefreshRevoke(t) ==
  /\ refresh[t].at = "checked"
  /\ refresh' = [refresh EXCEPT
                   ![t] = [@ EXCEPT !.at = IF refresh[t].old \in valid THEN "revoked" ELSE "refused",
                                    !.seen = done]]
  /\ valid' = valid \ {refresh[t].old}
  /\ UNCHANGED <<issued, parent, born, expired, lapsed, raced, account, kept, held, place,
                 refreshing, signOut, login, req>>

(* issueTokens: the next pair, of a user verified after birth resets, in a   *)
(* request that began when the revocation seen had run.                      *)
Issue(birth, seen, late) ==
  /\ issued < MaxPairs
  /\ issued' = issued + 1
  /\ valid' = valid \cup {issued + 1}
  /\ born' = [born EXCEPT ![issued + 1] = birth]
  /\ raced' = IF seen < done \/ late THEN raced \cup {issued + 1} ELSE raced
  /\ UNCHANGED <<expired, lapsed, account>>

(* A faulty form: the number of the pair is not used up. *)
RefreshIssueSameNumber(t) ==
  /\ refresh[t].at = "revoked"
  /\ issued < MaxPairs
  /\ valid' = valid \cup {issued + 1}
  /\ refresh' = [refresh EXCEPT ![t] = [@ EXCEPT !.at = "answered", !.new = issued + 1]]
  /\ UNCHANGED <<issued, parent, born, raced, expired, lapsed, account, kept, held, place,
                 refreshing, signOut, login, req>>

RefreshIssue(t) ==
  /\ refresh[t].at = "revoked"
  /\ Issue(born[refresh[t].old], refresh[t].seen, refresh[t].old \in raced)
  /\ parent' = [parent EXCEPT ![issued + 1] = refresh[t].old]
  /\ refresh' = [refresh EXCEPT ![t] = [@ EXCEPT !.at = "answered", !.new = issued + 1]]
  /\ UNCHANGED <<kept, held, place, refreshing, signOut, login, req>>

(* A faulty form: isRefreshing is left set. *)
RefreshDoneStillOn(t) ==
  /\ refresh[t].at = "answered"
  /\ Store(t, refresh[t].new)
  /\ req' = [r \in Requests |->
               IF r \in Queue(t) \cup {refresh[t].owner}
                 THEN [req[r] EXCEPT !.at = "sent", !.pair = refresh[t].new]
                 ELSE req[r]]
  /\ refresh' = [refresh EXCEPT ![t] = NoRefresh]
  /\ UNCHANGED <<server, place, refreshing, signOut, login>>

(* The new pair is stored, and the request and the queue are sent again; the *)
(* retry is returned, not awaited, so isRefreshing is cleared at once.       *)
RefreshDone(t) ==
  /\ refresh[t].at = "answered"
  /\ Store(t, refresh[t].new)
  /\ req' = [r \in Requests |->
               IF r \in Queue(t) \cup {refresh[t].owner}
                 THEN [req[r] EXCEPT !.at = "sent", !.pair = refresh[t].new]
                 ELSE req[r]]
  /\ refreshing' = [refreshing EXCEPT ![t] = FALSE]
  /\ refresh' = [refresh EXCEPT ![t] = NoRefresh]
  /\ UNCHANGED <<server, place, signOut, login>>

(* A faulty form: the request that started the refresh is not rejected. *)
RefreshFailedSilently(t) ==
  /\ refresh[t].at # "none"
  /\ Reset(t)
  /\ req' = [r \in Requests |-> IF r \in Queue(t) THEN Ended ELSE req[r]]
  /\ refreshing' = [refreshing EXCEPT ![t] = FALSE]
  /\ refresh' = [refresh EXCEPT ![t] = NoRefresh]
  /\ UNCHANGED <<server, place, signOut, login>>

(* Refused, or no good answer within the time-out, whatever the server did: the *)
(* queue is rejected and the session is reset.                               *)
RefreshFailed(t) ==
  /\ refresh[t].at # "none"
  /\ Reset(t)
  /\ req' = [r \in Requests |->
               IF r \in Queue(t) \cup {refresh[t].owner}
                 THEN Ended ELSE req[r]]
  /\ refreshing' = [refreshing EXCEPT ![t] = FALSE]
  /\ refresh' = [refresh EXCEPT ![t] = NoRefresh]
  /\ UNCHANGED <<server, place, signOut, login>>

-----------------------------------------------------------------------------
(* SignOutDialog: the request goes out and the page is left at once.         *)
SignOut(t) ==
  /\ place[t] = "app"
  /\ held[t] # None
  /\ Room
  /\ signOut[t].at = "none"
  /\ signOut' = [signOut EXCEPT ![t] = [at |-> "sent", pair |-> held[t]]]
  /\ place' = [place EXCEPT ![t] = "sign-in"]
  /\ UNCHANGED <<server, kept, held, refreshing, refresh, login, req>>

(* onSettled: the store is reset, whether the server revoked the token or not. *)
SignOutSettled(t, reached) ==
  /\ signOut[t].at = "sent"
  /\ valid' = IF reached /\ signOut[t].pair > lapsed THEN valid \ {signOut[t].pair} ELSE valid
  /\ Reset(t)
  /\ signOut' = [signOut EXCEPT ![t].at = "done"]
  /\ UNCHANGED <<issued, parent, born, expired, lapsed, raced, account, place, refreshing, refresh,
                 login, req>>

(* Service.Login finds the user active and the password right.  A tab        *)
(* without a token is sent to the form.                                      *)
LoginVerify(t) ==
  /\ place[t] = "sign-in" \/ held[t] = None
  /\ login[t].at = "none"
  /\ Welcome
  /\ issued < MaxPairs
  /\ login' = [login EXCEPT ![t] = [NoLogin EXCEPT !.at = "verified", !.resets = resets,
                                                   !.seen = done]]
  /\ UNCHANGED <<server, kept, held, place, refreshing, refresh, signOut, req>>

LoginIssue(t) ==
  /\ login[t].at = "verified"
  /\ Issue(login[t].resets, login[t].seen, FALSE)
  /\ login' = [login EXCEPT ![t] = [@ EXCEPT !.at = "issued", !.pair = issued + 1]]
  /\ UNCHANGED <<parent, kept, held, place, refreshing, refresh, signOut, req>>

(* hydrateSession, and the form leaves its page. *)
LoginDone(t) ==
  /\ login[t].at = "issued"
  /\ Store(t, login[t].pair)
  /\ place' = [place EXCEPT ![t] = "app"]
  /\ login' = [login EXCEPT ![t] = NoLogin]
  /\ UNCHANGED <<server, refreshing, refresh, signOut, req>>

(* No answer: the form says so and stays. *)
LoginFailed(t) ==
  /\ login[t].at # "none"
  /\ login' = [login EXCEPT ![t] = NoLogin]
  /\ UNCHANGED <<server, kept, held, place, refreshing, refresh, signOut, req>>

(* The page is loaded anew, between requests; the guard looks for a token.   *)
Reload(t) ==
  /\ refresh[t].at = "none"
  /\ signOut[t].at # "sent"
  /\ login[t].at = "none"
  /\ \A r \in Requests : req[r].tab # t
  /\ held' = [held EXCEPT ![t] = kept]
  /\ place' = [place EXCEPT ![t] = IF kept = None THEN "sign-in" ELSE "app"]
  /\ UNCHANGED <<server, kept, refreshing, refresh, signOut, login, req>>

(* Time passes.  A refresh token outlives the access token of its pair. *)
Expire ==
  /\ \/ expired < issued /\ expired' = expired + 1 /\ lapsed' = lapsed
     \/ lapsed < expired /\ Room /\ lapsed' = lapsed + 1 /\ expired' = expired
  /\ UNCHANGED <<issued, valid, parent, born, raced, account, kept, held, place, refreshing,
                 refresh, signOut, login, req>>

-----------------------------------------------------------------------------
(* UpdateUser, the first statement: the record is stored, with another       *)
(* password or role, or inactive.                                            *)
UpdateUser(active) ==
  /\ resets < MaxResets /\ Room
  /\ user.row # "gone"
  /\ resets' = resets + 1
  /\ revoking' = revoking \cup {resets + 1}
  /\ user' = [user EXCEPT !.active = active]
  /\ UNCHANGED <<issued, valid, parent, born, expired, lapsed, raced, done, ended, kept, held,
                 place, refreshing, refresh, signOut, login, req>>

(* A faulty form: the tokens of the user are left alone. *)
RevokeAllNone(k) ==
  /\ k \in revoking
  /\ revoking' = revoking \ {k}
  /\ done' = IF k > done THEN k ELSE done
  /\ UNCHANGED <<issued, valid, parent, born, expired, lapsed, raced, user, resets, ended, kept,
                 held, place, refreshing, refresh, signOut, login, req>>

(* UpdateUser, the second: RevokeAllForUser.  It need not be reached.        *)
RevokeAll(k) ==
  /\ k \in revoking
  /\ revoking' = revoking \ {k}
  /\ done' = IF k > done THEN k ELSE done
  /\ ended' = ended \cup valid
  /\ valid' = {}
  /\ UNCHANGED <<issued, parent, born, expired, lapsed, raced, user, resets, kept, held, place,
                 refreshing, refresh, signOut, login, req>>

(* UpdateUser that only makes the user active again revokes nothing. *)
Activate ==
  /\ ~user.active /\ user.row # "gone"
  /\ user' = [user EXCEPT !.active = TRUE]
  /\ UNCHANGED <<issued, valid, parent, born, expired, lapsed, raced, resets, revoking, done, ended,
                 kept, held, place, refreshing, refresh, signOut, login, req>>

(* DeleteUser revokes first and removes the record then. *)
DeleteRevoke ==
  /\ resets < MaxResets /\ Room
  /\ user.row = "there"
  /\ resets' = resets + 1
  /\ done' = resets + 1
  /\ ended' = ended \cup valid
  /\ valid' = {}
  /\ user' = [user EXCEPT !.row = "leaving"]
  /\ UNCHANGED <<issued, parent, born, expired, lapsed, raced, revoking, kept, held, place,
                 refreshing, refresh, signOut, login, req>>

DeleteRow ==
  /\ user.row = "leaving"
  /\ user' = [user EXCEPT !.row = "gone"]
  /\ UNCHANGED <<issued, valid, parent, born, expired, lapsed, raced, resets, revoking, done, ended,
                 kept, held, place, refreshing, refresh, signOut, login, req>>

Administer ==
  \/ \E active \in BOOLEAN : UpdateUser(active)
  \/ \E k \in revoking : RevokeAll(k)
  \/ Activate \/ DeleteRevoke \/ DeleteRow

Next ==
  \/ \E r \in Requests : Answered(r) \/ Unauthorized(r) \/ \E t \in Tabs : Send(r, t)
  \/ \E t \in Tabs :
       \/ RefreshCheck(t) \/ RefreshRevoke(t) \/ RefreshIssue(t)
       \/ RefreshDone(t) \/ RefreshFailed(t)
       \/ LoginVerify(t) \/ LoginIssue(t) \/ LoginDone(t) \/ LoginFailed(t)
       \/ SignOut(t) \/ Reload(t)
       \/ \E reached \in BOOLEAN : SignOutSettled(t, reached)
  \/ Expire
  \/ Administer

(* A request is answered or times out. *)
Fairness ==
  /\ \A r \in Requests : WF_vars(Answered(r) \/ Unauthorized(r))
  /\ \A t \in Tabs : WF_vars(RefreshDone(t) \/ RefreshFailed(t))

Spec == Init /\ [][Next]_vars /\ Fairness
=============================================================================
