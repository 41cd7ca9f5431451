------------------------ MODULE SessionSafety_proofs ------------------------
(***************************************************************************)
(* The session for any number of tabs, requests, pairs of tokens, resets   *)
(* and sign-outs: it keeps its types, serves its queue, exchanges a        *)
(* refresh token once, ends with a reset, and is not lost without a cause. *)
(***************************************************************************)
EXTENDS SessionSafety, TLAPS

(* isRefreshing is set exactly while a refresh is under way; it was started  *)
(* with a token, by a request of the tab that waits for it; who is in the    *)
(* queue waits for one too.                                                  *)
InFlight ==
  /\ \A t \in Tabs : refreshing[t] = (refresh[t].at # "none")
  /\ \A t \in Tabs : refresh[t].at # "none" =>
       /\ refresh[t].old # None
       /\ refresh[t].owner \in Requests
       /\ req[refresh[t].owner].at = "waiting"
       /\ req[refresh[t].owner].tab = t
  /\ \A r \in Requests : req[r].at \in {"sent", "queued", "waiting"} => req[r].tab \in Tabs
  /\ \A r \in Requests : req[r].at = "queued" => refreshing[req[r].tab]

(* A pair that has been exchanged is not valid, nor is one whose refresh has *)
(* revoked it; no two refreshes have revoked the same one, and it has no     *)
(* successor yet.                                                            *)
Exchanged ==
  /\ \A p \in Pairs : parent[p] \in 0..issued /\ parent[p] \notin valid
  /\ \A p \in Pairs : p > issued => parent[p] = None
  /\ \A t \in Tabs : refresh[t].at = "revoked" =>
       /\ refresh[t].old \notin valid
       /\ \A p \in Pairs : parent[p] # refresh[t].old
       /\ \A u \in Tabs : refresh[u].at = "revoked" /\ refresh[u].old = refresh[t].old => u = t

(* A request that will issue a pair remembers a revocation that had run, and *)
(* its session was verified after the change that led to it.                 *)
BornOf ==
  /\ \A t \in Tabs : refresh[t].at = "revoked" =>
       /\ refresh[t].seen <= done
       /\ born[refresh[t].old] >= refresh[t].seen \/ refresh[t].old \in raced
  /\ \A t \in Tabs : login[t].at = "verified" =>
       /\ login[t].seen <= done
       /\ login[t].resets >= login[t].seen

(* No tab, request or store knows the pair, but the answer that brings it. *)
Nowhere(p) ==
  /\ p # None /\ p # kept
  /\ p \in valid \/ p \in ended
  /\ \A u \in Tabs : held[u] # p /\ refresh[u].old # p /\ signOut[u].pair # p

(* The pair of an answer that has not been read is nowhere else. *)
Undelivered ==
  /\ \A t \in Tabs : refresh[t].at = "answered" =>
       /\ Nowhere(refresh[t].new)
       /\ \A u \in Tabs :
            /\ refresh[u].at = "answered" /\ refresh[u].new = refresh[t].new => u = t
            /\ login[u].at = "issued" => login[u].pair # refresh[t].new
  /\ \A t \in Tabs : login[t].at = "issued" =>
       /\ Nowhere(login[t].pair)
       /\ \A u \in Tabs : login[u].at = "issued" /\ login[u].pair = login[t].pair => u = t

(* A pair on disk that is no longer valid was reset, signed out, or is being *)
(* exchanged; a refused refresh was for a pair that is not valid or too old. *)
Accounted ==
  /\ kept # None /\ kept \notin valid =>
       \/ kept \in ended
       \/ \E u \in Tabs : signOut[u].pair = kept
       \/ \E u \in Tabs : refresh[u].at \in {"revoked", "answered"} /\ refresh[u].old = kept
  /\ \A t \in Tabs : signOut[t].at = "none" => signOut[t].pair = None
  /\ \A t \in Tabs : refresh[t].at = "refused" =>
       refresh[t].old \notin valid \/ refresh[t].old <= lapsed

Safe ==
  /\ TypeOK /\ InFlight /\ Exchanged /\ RotatedOnce /\ BornOf /\ ResetEndsSessions
  /\ Undelivered /\ Accounted

-----------------------------------------------------------------------------
(* The constants, one by one. *)
LEMMA Constants ==
  /\ NoTab \notin Tabs
  /\ MaxPairs \in Nat /\ MaxPairs # 0 /\ MaxResets \in Nat
  BY SessionAssumption

LEMMA SafeInit == Init => Safe
<1> SUFFICES ASSUME Init PROVE Safe
    OBVIOUS
<1> USE Constants
<1>1. TypeOK
  <2>1. 1 \in Pairs /\ 1 \in 1..1
      BY DEF Pairs
  <2>2. NoRefresh \in [at : Stage, old : 0..1, new : 0..1, owner : Owner, seen : 0..MaxResets]
      BY DEF NoRefresh, Stage, Owner, None
  <2>3. NoSignOut \in [at : {"none", "sent", "done"}, pair : 0..1]
      BY DEF NoSignOut, None
  <2>4. Unsent \in [at : {"unsent", "sent", "queued", "waiting", "ended"},
                    tab : Tabs \cup {NoTab}, pair : 0..1, again : BOOLEAN]
      BY DEF Unsent, None
  <2>5. NoLogin \in [at : {"none", "verified", "issued"}, resets : 0..MaxResets,
                     seen : 0..MaxResets, pair : 0..1]
      BY DEF NoLogin, None
  <2> QED BY <2>1, <2>2, <2>3, <2>4, <2>5 DEF Init, TypeOK, None
<1>2. InFlight
    BY DEF Init, InFlight, NoRefresh, Unsent
<1>3. Exchanged
    BY DEF Init, Exchanged, NoRefresh, Pairs, None
<1>4. RotatedOnce /\ BornOf /\ ResetEndsSessions
    BY DEF Init, RotatedOnce, BornOf, ResetEndsSessions, NoRefresh, NoLogin, Pairs, None
<1>5. Undelivered /\ Accounted
    BY DEF Init, Undelivered, Nowhere, Accounted, NoRefresh, NoSignOut, NoLogin, None
<1> QED BY <1>1, <1>2, <1>3, <1>4, <1>5 DEF Safe

(* The records of TypeOK, by the number of pairs issued. *)
RequestUpTo(n) == [at : {"unsent", "sent", "queued", "waiting", "ended"},
                   tab : Tabs \cup {NoTab}, pair : 0..n, again : BOOLEAN]
RefreshUpTo(n) == [at : Stage, old : 0..n, new : 0..n, owner : Owner, seen : 0..MaxResets]
SignOutUpTo(n) == [at : {"none", "sent", "done"}, pair : 0..n]
LoginUpTo(n) == [at : {"none", "verified", "issued"}, resets : 0..MaxResets, seen : 0..MaxResets,
                 pair : 0..n]

(* What was issued stays issued. *)
LEMMA RecordsGrow ==
  ASSUME NEW m \in Nat, NEW n \in Nat, m <= n
  PROVE  /\ 0..m \subseteq 0..n /\ 1..m \subseteq 1..n
         /\ RequestUpTo(m) \subseteq RequestUpTo(n)
         /\ RefreshUpTo(m) \subseteq RefreshUpTo(n)
         /\ SignOutUpTo(m) \subseteq SignOutUpTo(n)
         /\ LoginUpTo(m) \subseteq LoginUpTo(n)
<1>1. 0..m \subseteq 0..n /\ 1..m \subseteq 1..n
    OBVIOUS
<1>2. RequestUpTo(m) \subseteq RequestUpTo(n)
    BY <1>1 DEF RequestUpTo
<1>3. RefreshUpTo(m) \subseteq RefreshUpTo(n)
    BY <1>1 DEF RefreshUpTo
<1>4. SignOutUpTo(m) \subseteq SignOutUpTo(n)
    BY <1>1 DEF SignOutUpTo
<1>5. LoginUpTo(m) \subseteq LoginUpTo(n)
    BY <1>1 DEF LoginUpTo
<1> QED BY <1>1, <1>2, <1>3, <1>4, <1>5

(* TypeOK, in these records. *)
LEMMA Typed ==
  ASSUME TypeOK
  PROVE  /\ issued \in Nat /\ issued >= 1 /\ issued <= MaxPairs /\ issued \in Pairs
         /\ resets \in Nat /\ resets <= MaxResets
         /\ done \in Nat /\ done <= resets /\ done \in 0..MaxResets
         /\ lapsed \in Nat
         /\ valid \subseteq 1..issued /\ raced \subseteq 1..issued /\ ended \subseteq 1..issued
         /\ kept \in 0..issued /\ held \in [Tabs -> 0..issued]
         /\ refreshing \in [Tabs -> BOOLEAN]
         /\ req \in [Requests -> RequestUpTo(issued)]
         /\ refresh \in [Tabs -> RefreshUpTo(issued)]
         /\ signOut \in [Tabs -> SignOutUpTo(issued)]
         /\ login \in [Tabs -> LoginUpTo(issued)]
  BY Constants DEF TypeOK, RequestUpTo, RefreshUpTo, SignOutUpTo, LoginUpTo, Pairs

LEMMA EndedRecord ==
  ASSUME NEW n \in Nat
  PROVE  Ended \in RequestUpTo(n) /\ Ended.at = "ended" /\ Ended.tab = NoTab
<1>1. Unsent \in RequestUpTo(n) /\ Unsent.tab = NoTab
    BY DEF Unsent, RequestUpTo, None
<1> QED BY <1>1 DEF Ended, RequestUpTo

LEMMA NoRefreshRecord ==
  ASSUME NEW n \in Nat
  PROVE  /\ NoRefresh \in RefreshUpTo(n)
         /\ NoRefresh.at = "none" /\ NoRefresh.old = 0 /\ NoRefresh.new = 0
  BY Constants DEF NoRefresh, RefreshUpTo, Stage, Owner, None

LEMMA NoLoginRecord ==
  ASSUME NEW n \in Nat
  PROVE  NoLogin \in LoginUpTo(n) /\ NoLogin.at = "none"
  BY Constants DEF NoLogin, LoginUpTo, None

-----------------------------------------------------------------------------
(* A request is sent, or ends. *)
LEMMA SendKeepsSafe ==
  ASSUME Safe, NEW r \in Requests,
         Answered(r) \/ \E t \in Tabs : Send(r, t)
  PROVE  Safe'
<1> USE DEF Safe
<1>0. UNCHANGED <<server, kept, held, place, refreshing, refresh, signOut, login>>
    BY DEF Answered, Send
<1>1. /\ req' \in [Requests -> RequestUpTo(issued)]
      /\ req[r].at \in {"unsent", "sent"}
      /\ req'[r].at \in {"sent", "ended"}
      /\ req'[r].at = "sent" => req'[r].tab \in Tabs
      /\ \A x \in Requests \ {r} : req'[x] = req[x]
  <2>1. CASE Answered(r)
      BY <2>1, Typed, EndedRecord DEF Answered
  <2>2. CASE \E t \in Tabs : Send(r, t)
    <3>1. PICK t \in Tabs : Send(r, t)
        BY <2>2
    <3>2. held[t] \in 0..issued
        BY Typed
    <3> QED BY <3>1, <3>2, Typed DEF Send, RequestUpTo
  <2> QED BY <2>1, <2>2
<1>2. TypeOK'
    BY <1>0, <1>1 DEF TypeOK, server, account, RequestUpTo
<1>3. InFlight'
    BY <1>0, <1>1 DEF InFlight
<1>4. Exchanged' /\ RotatedOnce' /\ BornOf' /\ ResetEndsSessions' /\ Undelivered' /\ Accounted'
    BY <1>0 DEF Exchanged, RotatedOnce, BornOf, ResetEndsSessions, Undelivered, Nowhere, Accounted,
                server, account
<1> QED BY <1>2, <1>3, <1>4

(* A 401: in each of the four cases the request goes on, or ends. *)
LEMMA UnauthorizedKeepsSafe ==
  ASSUME Safe, NEW r \in Requests, Unauthorized(r)
  PROVE  Safe'
<1> USE DEF Safe
<1> DEFINE t == req[r].tab
<1>0. /\ UNCHANGED <<server, place, signOut, login>> /\ t \in Tabs /\ req[r].at = "sent"
      /\ issued \in Nat /\ issued >= 1
    BY Typed DEF Unauthorized, InFlight
<1>1. \/ /\ req' = [req EXCEPT ![r] = Ended]
         /\ UNCHANGED <<kept, held, refreshing, refresh>>
      \/ /\ refreshing[t]
         /\ req' = [req EXCEPT ![r].at = "queued"]
         /\ UNCHANGED <<kept, held, refreshing, refresh>>
      \/ /\ req' = [req EXCEPT ![r] = Ended]
         /\ Reset(t)
         /\ UNCHANGED <<refreshing, refresh>>
      \/ /\ ~refreshing[t] /\ held[t] # None
         /\ req' = [req EXCEPT ![r] = [@ EXCEPT !.at = "waiting", !.again = TRUE]]
         /\ refreshing' = [refreshing EXCEPT ![t] = TRUE]
         /\ refresh' = [refresh EXCEPT ![t] =
                          [NoRefresh EXCEPT !.at = "sent", !.old = held[t], !.owner = r]]
         /\ UNCHANGED <<kept, held>>
    BY Zenon DEF Unauthorized
<1> HIDE DEF t
<1>2. CASE /\ req' = [req EXCEPT ![r] = Ended]
           /\ kept' \in {kept, None}
           /\ held' \in {held, [held EXCEPT ![t] = None]}
           /\ UNCHANGED <<refreshing, refresh>>
  <2>1. /\ req' \in [Requests -> RequestUpTo(issued)] /\ req'[r].at = "ended"
        /\ \A x \in Requests \ {r} : req'[x] = req[x]
      BY <1>0, <1>2, Typed, EndedRecord
  <2>2. /\ kept' \in 0..issued /\ held' \in [Tabs -> 0..issued]
        /\ \A u \in Tabs : held'[u] \in {held[u], None}
      BY <1>0, <1>2, Typed DEF None
  <2>3. TypeOK'
      BY <1>0, <1>2, <2>1, <2>2 DEF TypeOK, server, account, RequestUpTo
  <2>4. InFlight'
      BY <1>0, <1>2, <2>1 DEF InFlight
  <2>5. Exchanged' /\ RotatedOnce' /\ BornOf' /\ ResetEndsSessions'
      BY <1>0, <1>2 DEF Exchanged, RotatedOnce, BornOf, ResetEndsSessions, server, account
  <2>6. Undelivered' /\ Accounted'
      BY <1>0, <1>2, <2>2 DEF Undelivered, Nowhere, Accounted, server, account
  <2> QED BY <2>3, <2>4, <2>5, <2>6
<1>3. CASE /\ refreshing[t]
           /\ req' = [req EXCEPT ![r].at = "queued"]
           /\ UNCHANGED <<kept, held, refreshing, refresh>>
  <2>1. /\ req' \in [Requests -> RequestUpTo(issued)]
        /\ req'[r].at = "queued" /\ req'[r].tab = t
        /\ \A x \in Requests \ {r} : req'[x] = req[x]
      BY <1>0, <1>3, Typed DEF RequestUpTo, t
  <2>3. TypeOK'
      BY <1>0, <1>3, <2>1 DEF TypeOK, server, account, RequestUpTo
  <2>4. InFlight'
      BY <1>0, <1>3, <2>1 DEF InFlight
  <2>5. Exchanged' /\ RotatedOnce' /\ BornOf' /\ ResetEndsSessions' /\ Undelivered' /\ Accounted'
      BY <1>0, <1>3 DEF Exchanged, RotatedOnce, BornOf, ResetEndsSessions, Undelivered, Nowhere, Accounted,
                        server, account
  <2> QED BY <2>3, <2>4, <2>5
<1>4. CASE /\ ~refreshing[t] /\ held[t] # None
           /\ req' = [req EXCEPT ![r] = [@ EXCEPT !.at = "waiting", !.again = TRUE]]
           /\ refreshing' = [refreshing EXCEPT ![t] = TRUE]
           /\ refresh' = [refresh EXCEPT ![t] =
                            [NoRefresh EXCEPT !.at = "sent", !.old = held[t], !.owner = r]]
           /\ UNCHANGED <<kept, held>>
  <2>1. /\ req' \in [Requests -> RequestUpTo(issued)]
        /\ req'[r].at = "waiting" /\ req'[r].tab = t
        /\ \A x \in Requests \ {r} : req'[x] = req[x]
      BY <1>0, <1>4, Typed DEF RequestUpTo, t
  <2>2. /\ refreshing' \in [Tabs -> BOOLEAN] /\ refreshing'[t] = TRUE
        /\ \A u \in Tabs \ {t} : refreshing'[u] = refreshing[u]
      BY <1>0, <1>4, Typed
  <2>3. /\ refresh' \in [Tabs -> RefreshUpTo(issued)]
        /\ refresh'[t].at = "sent" /\ refresh'[t].old = held[t] /\ refresh'[t].owner = r
        /\ \A u \in Tabs \ {t} : refresh'[u] = refresh[u]
    <3> DEFINE new == [NoRefresh EXCEPT !.at = "sent", !.old = held[t], !.owner = r]
    <3>1. held[t] \in 0..issued /\ NoRefresh \in RefreshUpTo(issued)
        BY <1>0, Typed, NoRefreshRecord
    <3>2. /\ new \in RefreshUpTo(issued)
          /\ new.at = "sent" /\ new.old = held[t] /\ new.owner = r
        BY <1>0, <3>1 DEF RefreshUpTo, Stage, Owner
    <3> HIDE DEF new
    <3>3. refresh' = [refresh EXCEPT ![t] = new]
        BY <1>4 DEF new
    <3> QED BY <1>0, <3>2, <3>3, Typed
  <2>4. TypeOK'
      BY <1>0, <1>4, <2>1, <2>2, <2>3 DEF TypeOK, server, account, RequestUpTo, RefreshUpTo
  <2>5. InFlight'
    <3>1. \A u \in Tabs : refreshing'[u] = (refresh'[u].at # "none")
        BY <2>2, <2>3 DEF InFlight
    <3>2. \A u \in Tabs : refresh'[u].at # "none" =>
            /\ refresh'[u].old # None
            /\ refresh'[u].owner \in Requests
            /\ req'[refresh'[u].owner].at = "waiting"
            /\ req'[refresh'[u].owner].tab = u
        BY <1>0, <1>4, <2>1, <2>3 DEF InFlight
    <3>3. \A x \in Requests : req'[x].at \in {"sent", "queued", "waiting"} => req'[x].tab \in Tabs
        BY <1>0, <2>1 DEF InFlight
    <3>4. \A x \in Requests : req'[x].at = "queued" => refreshing'[req'[x].tab]
        BY <1>0, <2>1, <2>2 DEF InFlight
    <3> QED BY <3>1, <3>2, <3>3, <3>4 DEF InFlight
  <2>6. Exchanged' /\ RotatedOnce' /\ BornOf' /\ ResetEndsSessions'
      BY <1>0, <1>4, <2>3 DEF Exchanged, RotatedOnce, BornOf, ResetEndsSessions, server, account
  <2>7. refresh[t].at = "none"
      BY <1>0, <1>4 DEF InFlight
  <2>8. Undelivered' /\ Accounted'
      BY <1>0, <1>4, <2>3, <2>7 DEF Undelivered, Nowhere, Accounted, server, account
  <2> QED BY <2>4, <2>5, <2>6, <2>8
<1> QED BY <1>1, <1>2, <1>3, <1>4 DEF Reset, Store

-----------------------------------------------------------------------------
(* The server, account reads the refresh token and finds it good or not. *)
LEMMA CheckKeepsSafe ==
  ASSUME Safe, NEW t \in Tabs, RefreshCheck(t)
  PROVE  Safe'
<1> USE DEF Safe
<1>0. /\ UNCHANGED <<server, kept, held, place, refreshing, signOut, login, req>>
      /\ refresh[t].at = "sent"
    BY DEF RefreshCheck
<1>1. /\ refresh' \in [Tabs -> RefreshUpTo(issued)]
      /\ \/ refresh'[t].at \in {"checked", "barred"}
         \/ /\ refresh'[t].at = "refused"
            /\ refresh[t].old \notin valid \/ refresh[t].old <= lapsed
      /\ refresh'[t].old = refresh[t].old /\ refresh'[t].owner = refresh[t].owner
      /\ \A u \in Tabs \ {t} : refresh'[u] = refresh[u]
  <2> DEFINE spent == refresh[t].old \notin valid \/ refresh[t].old <= lapsed
             at == IF spent THEN "refused" ELSE IF Welcome THEN "checked" ELSE "barred"
  <2>1. at \in Stage /\ (at \in {"checked", "barred"} \/ (at = "refused" /\ spent))
      BY DEF Stage
  <2>2. refresh' = [refresh EXCEPT ![t].at = at]
      BY Zenon DEF RefreshCheck
  <2> HIDE DEF at
  <2> QED BY <2>1, <2>2, Typed DEF RefreshUpTo
<1>2. TypeOK'
    BY <1>0, <1>1 DEF TypeOK, server, account, RefreshUpTo
<1>3. InFlight'
    BY <1>0, <1>1 DEF InFlight
<1>4. Exchanged' /\ RotatedOnce' /\ BornOf' /\ ResetEndsSessions'
    BY <1>0, <1>1 DEF Exchanged, RotatedOnce, BornOf, ResetEndsSessions, server, account
<1>5. Undelivered' /\ Accounted'
    BY <1>0, <1>1 DEF Undelivered, Nowhere, Accounted, server, account
<1> QED BY <1>2, <1>3, <1>4, <1>5

(* It revokes the token, if nobody has done so in the meantime. *)
LEMMA RevokeKeepsSafe ==
  ASSUME Safe, NEW t \in Tabs, RefreshRevoke(t)
  PROVE  Safe'
<1> USE DEF Safe
<1> DEFINE old == refresh[t].old
<1>0. /\ UNCHANGED <<issued, parent, born, expired, lapsed, raced, user, resets, revoking, done,
                     ended, kept, held, place, refreshing, signOut, login, req>>
      /\ refresh[t].at = "checked" /\ valid' = valid \ {old}
    BY DEF RefreshRevoke, account
<1>1. /\ refresh' \in [Tabs -> RefreshUpTo(issued)]
      /\ \/ refresh'[t].at = "revoked" /\ old \in valid
         \/ refresh'[t].at = "refused" /\ old \notin valid
      /\ refresh'[t].old = old /\ refresh'[t].owner = refresh[t].owner
      /\ refresh'[t].seen = done
      /\ \A u \in Tabs \ {t} : refresh'[u] = refresh[u]
  <2> DEFINE at == IF refresh[t].old \in valid THEN "revoked" ELSE "refused"
  <2>1. at \in Stage /\ (IF old \in valid THEN at = "revoked" ELSE at = "refused")
      BY DEF Stage
  <2>2. refresh' = [refresh EXCEPT ![t] = [@ EXCEPT !.at = at, !.seen = done]]
      BY Zenon DEF RefreshRevoke
  <2> HIDE DEF at
  <2>3. done \in 0..MaxResets
      BY Typed
  <2> QED BY <2>1, <2>2, <2>3, Typed DEF RefreshUpTo
<1> HIDE DEF old
<1>2. TypeOK'
    BY <1>0, <1>1 DEF TypeOK, RefreshUpTo
<1>3. InFlight'
    BY <1>0, <1>1 DEF InFlight, old
<1>4. old \in 0..issued
    BY Typed DEF RefreshUpTo, old
<1>5. Exchanged' /\ RotatedOnce'
    BY <1>0, <1>1, <1>4 DEF Exchanged, RotatedOnce
<1>6. BornOf' /\ ResetEndsSessions'
    BY <1>0, <1>1, Typed DEF BornOf, ResetEndsSessions
<1>7. Undelivered'
    BY <1>0, <1>1 DEF Undelivered, Nowhere, old
<1>8. Accounted'
    BY <1>0, <1>1 DEF Accounted, old
<1> QED BY <1>2, <1>3, <1>5, <1>6, <1>7, <1>8

(* The answer is read: the new pair is stored and the waiting are sent again; *)
(* or it is not, and the waiting end and the session is reset.                *)
LEMMA RefreshEndKeepsSafe ==
  ASSUME Safe, NEW t \in Tabs, RefreshDone(t) \/ RefreshFailed(t)
  PROVE  Safe'
<1> USE DEF Safe
<1> DEFINE new == kept'
           waiting == Queue(t) \cup {refresh[t].owner}
<1>0. /\ UNCHANGED <<server, place, signOut, login>> /\ refresh[t].at # "none"
      /\ refreshing' = [refreshing EXCEPT ![t] = FALSE]
      /\ refresh' = [refresh EXCEPT ![t] = NoRefresh]
    BY DEF RefreshDone, RefreshFailed
<1>1. /\ held' = [held EXCEPT ![t] = new] /\ kept' = new
      /\ \/ new = None
         \/ new = refresh[t].new /\ refresh[t].at = "answered"
    BY DEF RefreshDone, RefreshFailed, Reset, Store
<1>2. /\ req' \in [Requests -> RequestUpTo(issued)]
      /\ \A r \in Requests : r \in waiting =>
           /\ req'[r].at \in {"sent", "ended"}
           /\ req'[r].at = "sent" => req'[r].tab = req[r].tab
      /\ \A r \in Requests : r \notin waiting => req'[r] = req[r]
  <2> USE Typed
  <2>1. CASE RefreshDone(t)
    <3>1. req' = [r \in Requests |->
                    IF r \in waiting
                      THEN [req[r] EXCEPT !.at = "sent", !.pair = refresh[t].new] ELSE req[r]]
        BY <2>1 DEF RefreshDone
    <3>2. refresh[t].new \in 0..issued
        BY DEF RefreshUpTo
    <3> HIDE DEF waiting
    <3>3. \A k \in RequestUpTo(issued) :
            LET k2 == [k EXCEPT !.at = "sent", !.pair = refresh[t].new]
            IN k2 \in RequestUpTo(issued) /\ k2.at = "sent" /\ k2.tab = k.tab
        BY <3>2 DEF RequestUpTo
    <3>4. \A r \in Requests : req[r] \in RequestUpTo(issued)
        OBVIOUS
    <3> QED BY <3>1, <3>3, <3>4
  <2>2. CASE RefreshFailed(t)
    <3>1. req' = [r \in Requests |-> IF r \in waiting THEN Ended ELSE req[r]]
        BY <2>2 DEF RefreshFailed
    <3> HIDE DEF waiting
    <3> QED BY <3>1, EndedRecord
  <2> QED BY <2>1, <2>2
<1>3. /\ refreshing' \in [Tabs -> BOOLEAN] /\ refreshing'[t] = FALSE
      /\ \A u \in Tabs \ {t} : refreshing'[u] = refreshing[u]
      /\ refresh' \in [Tabs -> RefreshUpTo(issued)] /\ refresh'[t] = NoRefresh
      /\ \A u \in Tabs \ {t} : refresh'[u] = refresh[u]
    BY <1>0, Typed, NoRefreshRecord
<1>4. /\ new \in 0..issued /\ held' \in [Tabs -> 0..issued] /\ held'[t] = new
      /\ \A u \in Tabs \ {t} : held'[u] = held[u]
    BY <1>1, Typed DEF RefreshUpTo, None
<1> HIDE DEF new
<1>5. TypeOK'
    BY <1>0, <1>1, <1>2, <1>3, <1>4 DEF TypeOK, server, account, RefreshUpTo, RequestUpTo
<1>6. InFlight'
  <2>1. \A u \in Tabs \ {t} : refresh[u].at # "none" => refresh[u].owner \notin waiting
      BY <1>0 DEF InFlight, Queue
  <2>2. \A r \in Requests : req[r].at = "queued" /\ r \notin waiting => req[r].tab # t
      BY DEF Queue
  <2>3. \A r \in Requests : r \in waiting => req[r].tab \in Tabs
      BY <1>0 DEF InFlight, Queue
  <2> HIDE DEF waiting
  <2>4. \A u \in Tabs : refreshing'[u] = (refresh'[u].at # "none")
      BY <1>3, NoRefreshRecord, Typed DEF InFlight
  <2>5. \A u \in Tabs : refresh'[u].at # "none" =>
          /\ refresh'[u].old # None
          /\ refresh'[u].owner \in Requests
          /\ req'[refresh'[u].owner].at = "waiting"
          /\ req'[refresh'[u].owner].tab = u
      BY <1>2, <1>3, <2>1, NoRefreshRecord, Typed DEF InFlight
  <2>6. \A r \in Requests : req'[r].at \in {"sent", "queued", "waiting"} => req'[r].tab \in Tabs
      BY <1>2, <2>3 DEF InFlight
  <2>7. \A r \in Requests : req'[r].at = "queued" => refreshing'[req'[r].tab]
      BY <1>2, <1>3, <2>2 DEF InFlight
  <2> QED BY <2>4, <2>5, <2>6, <2>7 DEF InFlight
<1>7. refresh'[t].at = "none" /\ refresh'[t].old = 0 /\ refresh'[t].new = 0
    BY <1>3, NoRefreshRecord, Typed
<1>8. Exchanged' /\ RotatedOnce' /\ BornOf' /\ ResetEndsSessions'
    BY <1>0, <1>3, <1>7 DEF Exchanged, RotatedOnce, BornOf, ResetEndsSessions, server, account
<1>9. Undelivered' /\ Accounted'
    BY <1>0, <1>1, <1>3, <1>4, <1>7 DEF Undelivered, Nowhere, Accounted, server, account, None
<1> QED BY <1>5, <1>6, <1>8, <1>9

-----------------------------------------------------------------------------
(* A new pair: everything that names a pair names an older one. *)
LEMMA NextPair ==
  ASSUME Safe, issued < MaxPairs, issued' = issued + 1
  PROVE  /\ issued' \in Pairs /\ issued' \in Nat /\ issued <= issued'
         /\ issued' \notin valid /\ issued' # kept /\ kept \in 0..issued'
         /\ held \in [Tabs -> 0..issued'] /\ \A u \in Tabs : held[u] # issued'
         /\ req \in [Requests -> RequestUpTo(issued')]
         /\ refresh \in [Tabs -> RefreshUpTo(issued')]
         /\ signOut \in [Tabs -> SignOutUpTo(issued')]
         /\ login \in [Tabs -> LoginUpTo(issued')]
         /\ \A u \in Tabs : /\ refresh[u].old # issued' /\ refresh[u].new # issued'
                            /\ signOut[u].pair # issued' /\ login[u].pair # issued'
         /\ valid \cup {issued'} \subseteq 1..issued' /\ raced \cup {issued'} \subseteq 1..issued'
         /\ expired \in 0..issued' /\ ended \subseteq 1..issued'
<1> USE DEF Safe
<1>1. /\ issued \in Nat /\ issued >= 1 /\ issued' \in Nat /\ issued <= issued' /\ issued' \in Pairs
      /\ \A x \in 0..issued : x # issued' /\ x \in 0..issued'
      /\ \A x \in 1..issued : x # issued' /\ x \in 1..issued'
      /\ issued' \in 1..issued'
    BY Typed, Constants DEF Pairs
<1>2. /\ kept \in 0..issued /\ valid \subseteq 1..issued /\ raced \subseteq 1..issued
      /\ held \in [Tabs -> 0..issued] /\ expired \in 0..issued /\ ended \subseteq 1..issued
      /\ \A u \in Tabs : /\ refresh[u].old \in 0..issued /\ refresh[u].new \in 0..issued
                         /\ signOut[u].pair \in 0..issued /\ login[u].pair \in 0..issued
    BY Typed DEF RefreshUpTo, SignOutUpTo, LoginUpTo, TypeOK
<1>3. held \in [Tabs -> 0..issued'] /\ \A u \in Tabs : held[u] # issued'
    BY <1>1, <1>2
<1>4. /\ req \in [Requests -> RequestUpTo(issued')]
      /\ refresh \in [Tabs -> RefreshUpTo(issued')]
      /\ signOut \in [Tabs -> SignOutUpTo(issued')]
      /\ login \in [Tabs -> LoginUpTo(issued')]
  <2>1. /\ RequestUpTo(issued) \subseteq RequestUpTo(issued')
        /\ RefreshUpTo(issued) \subseteq RefreshUpTo(issued')
        /\ SignOutUpTo(issued) \subseteq SignOutUpTo(issued')
        /\ LoginUpTo(issued) \subseteq LoginUpTo(issued')
      BY <1>1, RecordsGrow
  <2> QED BY <2>1, Typed
<1>5. /\ valid \cup {issued'} \subseteq 1..issued' /\ raced \cup {issued'} \subseteq 1..issued'
      /\ issued' \notin valid /\ issued' # kept /\ kept \in 0..issued' /\ expired \in 0..issued'
      /\ ended \subseteq 1..issued'
    BY <1>1, <1>2
<1>6. \A u \in Tabs : /\ refresh[u].old # issued' /\ refresh[u].new # issued'
                      /\ signOut[u].pair # issued' /\ login[u].pair # issued'
    BY <1>1, <1>2
<1> QED BY <1>1, <1>3, <1>4, <1>5, <1>6

(* The server issues the pair that follows the one it revoked. *)
LEMMA IssueKeepsSafe ==
  ASSUME Safe, NEW t \in Tabs, RefreshIssue(t)
  PROVE  Safe'
<1> USE DEF Safe
<1> DEFINE old == refresh[t].old
           new == issued'
<1>0. /\ UNCHANGED <<expired, lapsed, user, resets, revoking, done, ended, kept, held, place,
                     refreshing, signOut, login, req>>
      /\ refresh[t].at = "revoked" /\ issued < MaxPairs /\ issued' = issued + 1
      /\ valid' = valid \cup {new}
      /\ parent' = [parent EXCEPT ![new] = old]
      /\ born' = [born EXCEPT ![new] = born[old]]
      /\ raced' = IF refresh[t].seen < done \/ old \in raced THEN raced \cup {new} ELSE raced
      /\ refresh' = [refresh EXCEPT ![t] = [@ EXCEPT !.at = "answered", !.new = new]]
    BY DEF RefreshIssue, Issue, account
<1>1. /\ new \in Pairs /\ new \in Nat /\ new \in 0..new /\ new # None
      /\ refresh \in [Tabs -> RefreshUpTo(new)]
    BY <1>0, NextPair DEF None, Pairs
<1>2. old \in Pairs /\ old \in 0..issued /\ old # new /\ old \in 0..new
  <2>1. old \in 0..issued /\ old # 0
      BY <1>0, Typed DEF RefreshUpTo, InFlight, None
  <2> QED BY <1>0, <2>1, Typed, Constants DEF Pairs
<1>3. /\ refresh' \in [Tabs -> RefreshUpTo(new)]
      /\ refresh'[t].at = "answered" /\ refresh'[t].new = new /\ refresh'[t].old = old
      /\ refresh'[t].owner = refresh[t].owner
      /\ \A u \in Tabs \ {t} : refresh'[u] = refresh[u]
  <2> DEFINE k == [refresh[t] EXCEPT !.at = "answered", !.new = new]
  <2>1. /\ k \in RefreshUpTo(new)
        /\ k.at = "answered" /\ k.new = new /\ k.old = old /\ k.owner = refresh[t].owner
      BY <1>1 DEF RefreshUpTo, Stage
  <2>2. refresh' = [refresh EXCEPT ![t] = k]
      BY <1>0
  <2> HIDE DEF k
  <2> QED BY <1>1, <2>1, <2>2
<1> HIDE DEF old
<1>4. /\ parent' \in [Pairs -> Pairs \cup {None}] /\ parent'[new] = old
      /\ \A p \in Pairs \ {new} : parent'[p] = parent[p]
    BY <1>0, <1>1, <1>2 DEF TypeOK
<1>5. /\ born' \in [Pairs -> 0..MaxResets] /\ born'[new] = born[old]
      /\ \A p \in Pairs \ {new} : born'[p] = born[p]
    BY <1>0, <1>1, <1>2 DEF TypeOK
<1>6. raced \subseteq raced' /\ raced' \subseteq raced \cup {new}
    BY <1>0
<1>7. TypeOK'
    BY <1>0, <1>1, <1>3, <1>4, <1>5, <1>6, NextPair
       DEF TypeOK, RefreshUpTo, RequestUpTo, SignOutUpTo, LoginUpTo
<1>8. InFlight'
    BY <1>0, <1>3 DEF InFlight, old
<1>9. Exchanged'
  <2>1. \A p \in Pairs : parent'[p] \in 0..new /\ parent'[p] \notin valid'
    <3>1. \A p \in Pairs : parent[p] \in 0..issued /\ parent[p] \notin valid /\ old \notin valid
        BY <1>0 DEF Exchanged, old
    <3>2. \A x \in 0..issued : x \in 0..new /\ x # new
        BY <1>0, Typed
    <3> QED BY <1>0, <1>2, <1>4, <3>1, <3>2
  <2>2. \A p \in Pairs : p > new => parent'[p] = None
      BY <1>0, <1>4, Typed DEF Exchanged, Pairs
  <2>3. ASSUME NEW u \in Tabs, refresh'[u].at = "revoked"
        PROVE  /\ refresh'[u].old \notin valid'
               /\ \A p \in Pairs : parent'[p] # refresh'[u].old
               /\ \A v \in Tabs : refresh'[v].at = "revoked" /\ refresh'[v].old = refresh'[u].old
                                  => v = u
    <3>1. u # t /\ refresh'[u] = refresh[u]
        BY <1>3, <2>3
    <3>2. refresh[u].old # old
        BY <1>0, <2>3, <3>1 DEF Exchanged, old
    <3>3. refresh[u].old # new
        BY <1>0, NextPair
    <3> QED BY <1>0, <1>3, <1>4, <2>3, <3>1, <3>2, <3>3 DEF Exchanged
  <2> QED BY <2>1, <2>2, <2>3 DEF Exchanged
<1>10. RotatedOnce'
  <2>1. \A p \in 1..issued' : p \in Pairs /\ (p \in 1..issued \/ p = new)
      BY <1>0, Typed, Constants DEF Pairs
  <2>2. \A p \in Pairs : parent[p] # old
      BY <1>0 DEF Exchanged, old
  <2> QED BY <1>4, <2>1, <2>2 DEF RotatedOnce
<1>11. BornOf'
  <2>1. \A u \in Tabs : refresh[u].at = "revoked" => refresh[u].old \in Pairs \ {new}
      BY <1>0, Typed, Constants, NextPair DEF RefreshUpTo, InFlight, Pairs, None
  <2> QED BY <1>0, <1>3, <1>5, <1>6, <2>1 DEF BornOf
<1>12. ResetEndsSessions'
  <2>1. \A p \in valid : p \in Pairs /\ p # new
      BY <1>0, NextPair, Typed, Constants DEF Pairs
  <2>2. born[old] >= done \/ new \in raced'
    <3>1. /\ refresh[t].seen \in Nat /\ done \in Nat /\ refresh[t].seen <= done
          /\ born[old] >= refresh[t].seen \/ old \in raced
        BY <1>0, Typed, Constants DEF BornOf, RefreshUpTo, old
    <3> QED BY <1>0, <3>1
  <2> QED BY <1>0, <1>5, <1>6, <2>1, <2>2 DEF ResetEndsSessions
<1>13. Undelivered'
  <2>1. \A u \in Tabs : refresh'[u].old = refresh[u].old
      BY <1>3 DEF old
  <2> QED BY <1>0, <1>1, <1>3, <2>1, NextPair DEF Undelivered, Nowhere
<1>14. Accounted'
    BY <1>0, <1>3, NextPair DEF Accounted, old
<1> QED BY <1>7, <1>8, <1>9, <1>10, <1>11, <1>12, <1>13, <1>14

(* A sign-in: the password is found right, and the answer is lost. *)
LEMMA LoginKeepsSafe ==
  ASSUME Safe, NEW t \in Tabs, LoginVerify(t) \/ LoginFailed(t)
  PROVE  Safe'
<1> USE DEF Safe
<1>0. UNCHANGED <<server, kept, held, place, refreshing, refresh, signOut, req>>
    BY DEF LoginVerify, LoginFailed
<1>1. /\ login' \in [Tabs -> LoginUpTo(issued)]
      /\ login'[t].at \in {"none", "verified"}
      /\ login'[t].at = "verified" => login'[t].seen = done /\ login'[t].resets = resets
      /\ \A u \in Tabs \ {t} : login'[u] = login[u]
  <2>1. CASE LoginFailed(t)
      BY <2>1, Typed, NoLoginRecord DEF LoginFailed
  <2>2. CASE LoginVerify(t)
    <3> DEFINE k == [NoLogin EXCEPT !.at = "verified", !.resets = resets, !.seen = done]
    <3>0. resets \in 0..MaxResets /\ done \in 0..MaxResets /\ 0 \in 0..issued
        BY Typed DEF TypeOK
    <3>1. k \in LoginUpTo(issued) /\ k.at = "verified" /\ k.resets = resets /\ k.seen = done
        BY <3>0 DEF NoLogin, LoginUpTo, None
    <3>2. login' = [login EXCEPT ![t] = k]
        BY <2>2 DEF LoginVerify
    <3> HIDE DEF k
    <3> QED BY <3>1, <3>2, Typed
  <2> QED BY <2>1, <2>2
<1>2. TypeOK'
    BY <1>0, <1>1 DEF TypeOK, server, account, LoginUpTo
<1>3. InFlight' /\ Exchanged' /\ RotatedOnce' /\ ResetEndsSessions' /\ Accounted'
    BY <1>0 DEF InFlight, Exchanged, RotatedOnce, ResetEndsSessions, Accounted, server, account
<1>4. BornOf'
    BY <1>0, <1>1, Typed DEF BornOf, server, account
<1>5. Undelivered'
    BY <1>0, <1>1 DEF Undelivered, Nowhere, server, account
<1> QED BY <1>2, <1>3, <1>4, <1>5

(* It issues a pair that follows none. *)
LEMMA LoginIssueKeepsSafe ==
  ASSUME Safe, NEW t \in Tabs, LoginIssue(t)
  PROVE  Safe'
<1> USE DEF Safe
<1> DEFINE new == issued'
<1>0. /\ UNCHANGED <<parent, expired, lapsed, user, resets, revoking, done, ended, kept, held, place,
                     refreshing, refresh, signOut, req>>
      /\ login[t].at = "verified" /\ issued < MaxPairs /\ issued' = issued + 1
      /\ valid' = valid \cup {new}
      /\ born' = [born EXCEPT ![new] = login[t].resets]
      /\ raced' = IF login[t].seen < done THEN raced \cup {new} ELSE raced
      /\ login' = [login EXCEPT ![t] = [@ EXCEPT !.at = "issued", !.pair = new]]
    BY DEF LoginIssue, Issue, account
<1>1. /\ new \in Pairs /\ new \in Nat /\ new \in 0..new /\ new # None
      /\ login \in [Tabs -> LoginUpTo(new)]
    BY <1>0, NextPair DEF None, Pairs
<1>2. /\ born' \in [Pairs -> 0..MaxResets] /\ born'[new] = login[t].resets
      /\ \A p \in Pairs \ {new} : born'[p] = born[p]
    BY <1>0, <1>1, Typed DEF TypeOK, LoginUpTo
<1>3. /\ login' \in [Tabs -> LoginUpTo(new)]
      /\ login'[t].at = "issued" /\ login'[t].pair = new
      /\ \A u \in Tabs \ {t} : login'[u] = login[u]
  <2> DEFINE k == [login[t] EXCEPT !.at = "issued", !.pair = new]
  <2>1. k \in LoginUpTo(new) /\ k.at = "issued" /\ k.pair = new
      BY <1>1 DEF LoginUpTo
  <2>2. login' = [login EXCEPT ![t] = k]
      BY <1>0
  <2> HIDE DEF k
  <2> QED BY <1>1, <2>1, <2>2
<1>4. raced \subseteq raced' /\ raced' \subseteq raced \cup {new}
    BY <1>0
<1>5. TypeOK'
    BY <1>0, <1>1, <1>2, <1>3, <1>4, NextPair
       DEF TypeOK, RefreshUpTo, RequestUpTo, SignOutUpTo, LoginUpTo
<1>6. InFlight'
    BY <1>0 DEF InFlight
<1>7. Exchanged'
  <2>1. \A x \in 0..issued : x \in 0..new /\ x # new
      BY <1>0, Typed
  <2>2. \A p \in Pairs : parent'[p] \in 0..new /\ parent'[p] \notin valid'
      BY <1>0, <2>1 DEF Exchanged
  <2>3. \A p \in Pairs : p > new => parent'[p] = None
      BY <1>0, Typed DEF Exchanged, Pairs
  <2> QED BY <1>0, <2>2, <2>3, NextPair DEF Exchanged
<1>8. RotatedOnce'
  <2>1. \A p \in 1..issued' : p \in 1..issued \/ p = new
      BY <1>0, Typed
  <2>2. parent[new] = None
      BY <1>0, <1>1, Typed DEF Exchanged
  <2> QED BY <1>0, <2>1, <2>2 DEF RotatedOnce
<1>9. ResetEndsSessions'
  <2>1. \A p \in valid : p \in Pairs /\ p # new
      BY <1>0, NextPair, Typed, Constants DEF Pairs
  <2>2. login[t].resets >= done \/ new \in raced'
    <3>1. /\ login[t].seen \in Nat /\ done \in Nat /\ login[t].resets \in Nat
          /\ login[t].resets >= login[t].seen
        BY <1>0, Typed, Constants DEF BornOf, LoginUpTo
    <3> QED BY <1>0, <3>1
  <2> QED BY <1>0, <1>2, <1>4, <2>1, <2>2 DEF ResetEndsSessions
<1>10. BornOf'
  <2>1. \A u \in Tabs : refresh[u].at = "revoked" => refresh[u].old \in Pairs \ {new}
      BY <1>0, Typed, Constants, NextPair DEF RefreshUpTo, InFlight, Pairs, None
  <2> QED BY <1>0, <1>2, <1>3, <1>4, <2>1 DEF BornOf
<1>11. Undelivered' /\ Accounted'
    BY <1>0, <1>1, <1>3, NextPair DEF Undelivered, Nowhere, Accounted
<1> QED BY <1>5, <1>6, <1>7, <1>8, <1>9, <1>10, <1>11

(* The answer is read, and its pair is stored. *)
LEMMA LoginDoneKeepsSafe ==
  ASSUME Safe, NEW t \in Tabs, LoginDone(t)
  PROVE  Safe'
<1> USE DEF Safe
<1> DEFINE new == login[t].pair
<1>0. /\ UNCHANGED <<server, refreshing, refresh, signOut, req>>
      /\ login[t].at = "issued"
      /\ held' = [held EXCEPT ![t] = new] /\ kept' = new
      /\ place' = [place EXCEPT ![t] = "app"]
      /\ login' = [login EXCEPT ![t] = NoLogin]
    BY DEF LoginDone, Store
<1>1. /\ login' \in [Tabs -> LoginUpTo(issued)] /\ login'[t].at = "none"
      /\ \A u \in Tabs \ {t} : login'[u] = login[u]
    BY <1>0, Typed, NoLoginRecord
<1>2. /\ new \in 0..issued /\ held' \in [Tabs -> 0..issued] /\ held'[t] = new
      /\ \A u \in Tabs \ {t} : held'[u] = held[u]
    BY <1>0, Typed DEF LoginUpTo
<1>3. Nowhere(new)
    BY <1>0 DEF Undelivered
<1>4. /\ \A u \in Tabs : refresh[u].at = "answered" => refresh[u].new # new
      /\ \A u \in Tabs \ {t} : login[u].at = "issued" => login[u].pair # new
    BY <1>0 DEF Undelivered
<1> HIDE DEF new
<1>5. TypeOK'
    BY <1>0, <1>1, <1>2 DEF TypeOK, server, account, LoginUpTo
<1>6. InFlight' /\ Exchanged' /\ RotatedOnce' /\ ResetEndsSessions'
    BY <1>0 DEF InFlight, Exchanged, RotatedOnce, ResetEndsSessions, server, account
<1>7. BornOf'
    BY <1>0, <1>1 DEF BornOf, server, account
<1>8. Undelivered'
    BY <1>0, <1>1, <1>2, <1>4 DEF Undelivered, Nowhere, server, account
<1>9. Accounted'
    BY <1>0, <1>3 DEF Accounted, Nowhere, server, account
<1> QED BY <1>5, <1>6, <1>7, <1>8, <1>9

-----------------------------------------------------------------------------
(* Sign-out: the request goes out with the pair of the tab, and its end      *)
(* resets the store.                                                         *)
LEMMA SignOutKeepsSafe ==
  ASSUME Safe, NEW t \in Tabs, SignOut(t)
  PROVE  Safe'
<1> USE DEF Safe
<1>0. /\ UNCHANGED <<server, kept, held, refreshing, refresh, login, req>>
      /\ held[t] # None /\ signOut[t].at = "none"
      /\ signOut' = [signOut EXCEPT ![t] = [at |-> "sent", pair |-> held[t]]]
      /\ place' = [place EXCEPT ![t] = "sign-in"]
    BY DEF SignOut
<1>1. /\ signOut' \in [Tabs -> SignOutUpTo(issued)]
      /\ signOut'[t].at = "sent" /\ signOut'[t].pair = held[t]
      /\ \A u \in Tabs \ {t} : signOut'[u] = signOut[u]
  <2>1. held[t] \in 0..issued
      BY Typed
  <2> QED BY <1>0, <2>1, Typed DEF SignOutUpTo
<1>2. TypeOK'
    BY <1>0, <1>1 DEF TypeOK, server, account, SignOutUpTo
<1>3. InFlight' /\ Exchanged' /\ RotatedOnce' /\ BornOf' /\ ResetEndsSessions'
    BY <1>0 DEF InFlight, Exchanged, RotatedOnce, BornOf, ResetEndsSessions, server, account
<1>4. Undelivered' /\ Accounted'
    BY <1>0, <1>1 DEF Undelivered, Nowhere, Accounted, server, account
<1> QED BY <1>2, <1>3, <1>4

LEMMA SignOutSettledKeepsSafe ==
  ASSUME Safe, NEW t \in Tabs, NEW reached \in BOOLEAN, SignOutSettled(t, reached)
  PROVE  Safe'
<1> USE DEF Safe
<1>0. /\ UNCHANGED <<issued, parent, born, expired, lapsed, raced, user, resets, revoking, done,
                     ended, place, refreshing, refresh, login, req>>
      /\ valid' \subseteq valid /\ \A p \in valid \ valid' : p = signOut[t].pair
      /\ held' = [held EXCEPT ![t] = None] /\ kept' = None
      /\ signOut' = [signOut EXCEPT ![t].at = "done"]
    BY DEF SignOutSettled, Reset, Store, account
<1>1. /\ signOut' \in [Tabs -> SignOutUpTo(issued)]
      /\ signOut'[t].at = "done"
      /\ \A u \in Tabs : signOut'[u].pair = signOut[u].pair
      /\ \A u \in Tabs \ {t} : signOut'[u] = signOut[u]
    BY <1>0, Typed DEF SignOutUpTo
<1>2. /\ held' \in [Tabs -> 0..issued] /\ kept' \in 0..issued
      /\ \A u \in Tabs : held'[u] \in {held[u], None}
    BY <1>0, Typed DEF None
<1>3. TypeOK'
    BY <1>0, <1>1, <1>2 DEF TypeOK, SignOutUpTo
<1>4. InFlight' /\ Exchanged' /\ RotatedOnce' /\ BornOf' /\ ResetEndsSessions'
    BY <1>0 DEF InFlight, Exchanged, RotatedOnce, BornOf, ResetEndsSessions
<1>5. Undelivered'
    BY <1>0, <1>1, <1>2 DEF Undelivered, Nowhere
<1>6. Accounted'
    BY <1>0, <1>1 DEF Accounted
<1> QED BY <1>3, <1>4, <1>5, <1>6

(* A page is loaded anew, a token expires. *)
LEMMA OtherKeepsSafe ==
  ASSUME Safe, Expire \/ \E t \in Tabs : Reload(t)
  PROVE  Safe'
<1> USE DEF Safe
<1>1. ASSUME NEW t \in Tabs, Reload(t) PROVE Safe'
  <2>0. /\ UNCHANGED <<server, kept, refreshing, refresh, signOut, login, req>>
        /\ held' = [held EXCEPT ![t] = kept]
        /\ place' = [place EXCEPT ![t] = IF kept = None THEN "sign-in" ELSE "app"]
      BY <1>1 DEF Reload
  <2>1. held' \in [Tabs -> 0..issued] /\ \A u \in Tabs : held'[u] \in {held[u], kept}
      BY <2>0, Typed
  <2>2. TypeOK'
      BY <2>0, <2>1 DEF TypeOK, server, account
  <2>3. InFlight' /\ Exchanged' /\ RotatedOnce' /\ BornOf' /\ ResetEndsSessions'
      BY <2>0 DEF InFlight, Exchanged, RotatedOnce, BornOf, ResetEndsSessions, server, account
  <2>4. Undelivered' /\ Accounted'
      BY <2>0, <2>1 DEF Undelivered, Nowhere, Accounted, server, account
  <2> QED BY <2>2, <2>3, <2>4
<1>2. CASE Expire
  <2>0. /\ UNCHANGED <<issued, valid, parent, born, raced, user, resets, revoking, done, ended, kept,
                       held, place, refreshing, refresh, signOut, login, req>>
        /\ expired' \in 0..issued /\ lapsed' \in 0..expired' /\ lapsed' >= lapsed
        /\ lapsed \in Nat /\ lapsed' \in Nat
      BY <1>2, Typed DEF Expire, TypeOK, account
  <2>1. TypeOK'
      BY <2>0 DEF TypeOK
  <2>2. InFlight' /\ Exchanged' /\ RotatedOnce' /\ BornOf' /\ ResetEndsSessions' /\ Undelivered'
      BY <2>0 DEF InFlight, Exchanged, RotatedOnce, BornOf, ResetEndsSessions, Undelivered, Nowhere
  <2>3. Accounted'
    <3>1. \A u \in Tabs : refresh[u].old \in Nat
        BY Typed DEF RefreshUpTo
    <3> QED BY <2>0, <3>1 DEF Accounted
  <2> QED BY <2>1, <2>2, <2>3
<1> QED BY <1>1, <1>2

(* An administrator changes the user: the record, or the tokens. *)
LEMMA AdministerKeepsSafe ==
  ASSUME Safe, Administer
  PROVE  Safe'
<1> USE DEF Safe
<1>0. UNCHANGED <<issued, parent, born, expired, lapsed, raced, kept, held, place, refreshing,
                  refresh, signOut, login, req>>
    BY DEF Administer, UpdateUser, RevokeAll, Activate, DeleteRevoke, DeleteRow
<1>1. \/ valid' = valid /\ ended' = ended /\ done' = done
      \/ valid' = {} /\ ended' = ended \cup valid /\ done' \in Nat /\ done' >= done
    BY Typed DEF Administer, UpdateUser, RevokeAll, Activate, DeleteRevoke, DeleteRow, TypeOK
<1>2. TypeOK'
  <2> DEFINE Account ==
        /\ user' \in [active : BOOLEAN, row : {"there", "leaving", "gone"}]
        /\ resets' \in 0..MaxResets
        /\ revoking' \subseteq 1..resets'
        /\ done' \in 0..resets'
  <2>1. Account
    <3> USE Typed, Constants DEF TypeOK
    <3>1. ASSUME NEW active \in BOOLEAN, UpdateUser(active) PROVE Account
        BY <3>1 DEF UpdateUser
    <3>2. ASSUME NEW k \in revoking, RevokeAll(k) PROVE Account
        BY <3>2 DEF RevokeAll
    <3>3. CASE Activate
        BY <3>3 DEF Activate
    <3>4. CASE DeleteRevoke
        BY <3>4 DEF DeleteRevoke
    <3>5. CASE DeleteRow
        BY <3>5 DEF DeleteRow
    <3> QED BY <3>1, <3>2, <3>3, <3>4, <3>5 DEF Administer
  <2>2. valid' \subseteq 1..issued /\ ended' \subseteq 1..issued
      BY <1>1, Typed
  <2> QED BY <1>0, <2>1, <2>2 DEF TypeOK
<1>3. InFlight' /\ Exchanged' /\ RotatedOnce' /\ ResetEndsSessions'
    BY <1>0, <1>1 DEF InFlight, Exchanged, RotatedOnce, ResetEndsSessions
<1>4. BornOf'
  <2>1. \A t \in Tabs : refresh[t].seen \in Nat /\ login[t].seen \in Nat
      BY Typed, Constants DEF RefreshUpTo, LoginUpTo
  <2> QED BY <1>0, <1>1, <2>1, Typed DEF BornOf
<1>5. Undelivered'
    BY <1>0, <1>1 DEF Undelivered, Nowhere
<1>6. Accounted'
    BY <1>0, <1>1 DEF Accounted
<1> QED BY <1>2, <1>3, <1>4, <1>5, <1>6

LEMMA SafeStep == Safe /\ [Next]_vars => Safe'
<1> SUFFICES ASSUME Safe, [Next]_vars PROVE Safe'
    OBVIOUS
<1>1. ASSUME NEW r \in Requests,
             Answered(r) \/ Unauthorized(r) \/ \E t \in Tabs : Send(r, t)
      PROVE  Safe'
    BY <1>1, SendKeepsSafe, UnauthorizedKeepsSafe
<1>2. ASSUME NEW t \in Tabs,
             \/ RefreshCheck(t) \/ RefreshRevoke(t) \/ RefreshIssue(t)
             \/ RefreshDone(t) \/ RefreshFailed(t)
      PROVE  Safe'
    BY <1>2, CheckKeepsSafe, RevokeKeepsSafe, IssueKeepsSafe, RefreshEndKeepsSafe
<1>3. ASSUME NEW t \in Tabs,
             \/ LoginVerify(t) \/ LoginIssue(t) \/ LoginDone(t) \/ LoginFailed(t)
             \/ SignOut(t) \/ \E reached \in BOOLEAN : SignOutSettled(t, reached)
      PROVE  Safe'
    BY <1>3, SignOutKeepsSafe, SignOutSettledKeepsSafe, LoginKeepsSafe, LoginIssueKeepsSafe,
       LoginDoneKeepsSafe
<1>4. CASE Expire \/ Administer \/ \E t \in Tabs : Reload(t)
    BY <1>4, OtherKeepsSafe, AdministerKeepsSafe
<1>5. CASE UNCHANGED vars
    BY <1>5 DEF vars, Safe, TypeOK, InFlight, Exchanged, RotatedOnce, BornOf, ResetEndsSessions,
                Undelivered, Nowhere, Accounted
<1> QED BY <1>1, <1>2, <1>3, <1>4, <1>5 DEF Next

(* In every reachable state the session is typed and its parts agree. *)
LEMMA SessionSafe == Spec => []Safe
  BY SafeInit, SafeStep, PTL DEF Spec

(* The token store, the interceptors and the server, account's tokens keep their      *)
(* types, for every number of tabs and requests.                             *)
THEOREM SessionTypeOK == Spec => []TypeOK
<1>1. Safe => TypeOK
    BY DEF Safe
<1> QED BY <1>1, SessionSafe, PTL

(* No request is left in the queue of a tab that is not refreshing           *)
(* (processQueue, in the response interceptor).                              *)
THEOREM QueueServed == Spec => []QueueIsServed
<1>1. ASSUME Safe, NEW t \in Tabs, Queue(t) # {}
      PROVE  refreshing[t] /\ refresh[t].at # "none"
  <2>1. PICK r \in Requests : req[r].tab = t /\ req[r].at = "queued"
      BY <1>1 DEF Queue
  <2>2. refreshing[t]
      BY <1>1, <2>1 DEF Safe, InFlight
  <2> QED BY <1>1, <2>2 DEF Safe, InFlight
<1>2. Safe => QueueIsServed
    BY <1>1 DEF QueueIsServed
<1> QED BY <1>2, SessionSafe, PTL

(* A refresh token is exchanged for one pair at most, however many tabs hold *)
(* it and however their requests interleave (Service.Refresh).               *)
THEOREM TokenRotatedOnce == Spec => []RotatedOnce
<1>1. Safe => RotatedOnce
    BY DEF Safe
<1> QED BY <1>1, SessionSafe, PTL

(* However the statements of UpdateUser, DeleteUser, Refresh and Login       *)
(* interleave, a revocation that has run leaves no session from before its   *)
(* change, except one a request had checked and was still issuing.           *)
THEOREM ResetEnds == Spec => []ResetEndsSessions
<1>1. Safe => ResetEndsSessions
    BY DEF Safe
<1> QED BY <1>1, SessionSafe, PTL

-----------------------------------------------------------------------------
(* The step that clears the cookie, and why it may. *)
Explained ==
  kept # None /\ kept' = None =>
    \E t \in Tabs :
      /\ held'[t] = None
      /\ \/ SignedOut(t) \/ LateSignOut(t) \/ Tokenless(t)
         \/ Unanswered(t) \/ Behind(t) \/ Barred(t)
         \/ Refused(t) /\ (kept <= lapsed \/ Revoked \/ Twin(t))

(* A refused refresh of the pair on disk came too late, or was overtaken by  *)
(* a reset, a sign-out or the refresh of another tab.                        *)
LEMMA RefusedIsExplained ==
  ASSUME Safe, NEW t \in Tabs, refresh[t].at = "refused", refresh[t].old = kept, kept # None
  PROVE  kept <= lapsed \/ Revoked \/ Twin(t)
<1>1. CASE kept \notin valid
  <2>1. CASE kept \in ended \/ \E u \in Tabs : signOut[u].pair = kept
      BY <1>1, <2>1 DEF Revoked
  <2>2. CASE \E u \in Tabs : refresh[u].at \in {"revoked", "answered"} /\ refresh[u].old = kept
      BY <2>2 DEF Twin
  <2> QED BY <1>1, <2>1, <2>2 DEF Safe, Accounted
<1> QED BY <1>1 DEF Safe, Accounted

LEMMA LossStep == Safe /\ [Next]_vars => Explained
<1> SUFFICES ASSUME Safe, [Next]_vars, kept # None, kept' = None
             PROVE  \E t \in Tabs :
                      /\ held'[t] = None
                      /\ \/ SignedOut(t) \/ LateSignOut(t) \/ Tokenless(t)
                         \/ Unanswered(t) \/ Behind(t) \/ Barred(t)
                         \/ Refused(t) /\ (kept <= lapsed \/ Revoked \/ Twin(t))
    BY DEF Explained
<1>0. held \in [Tabs -> 0..issued] /\ issued \in Nat /\ refresh \in [Tabs -> RefreshUpTo(issued)]
      /\ signOut \in [Tabs -> SignOutUpTo(issued)]
    BY Typed DEF Safe
<1>1. ASSUME NEW r \in Requests, Unauthorized(r)
      PROVE  \E t \in Tabs : held'[t] = None /\ Tokenless(t)
  <2>1. req[r].tab \in Tabs /\ held[req[r].tab] = None /\ Reset(req[r].tab)
      BY <1>1 DEF Unauthorized, Safe, InFlight
  <2> QED BY <1>0, <2>1 DEF Tokenless, Reset, Store
<1>2. ASSUME NEW t \in Tabs, RefreshFailed(t)
      PROVE  /\ held'[t] = None
             /\ \/ Unanswered(t) \/ Behind(t) \/ Barred(t)
                \/ Refused(t) /\ (kept <= lapsed \/ Revoked \/ Twin(t))
  <2>1. /\ held' = [held EXCEPT ![t] = None] /\ refresh[t].at # "none"
        /\ refresh' = [refresh EXCEPT ![t] = NoRefresh]
      BY <1>2 DEF RefreshFailed, Reset, Store
  <2>2. held'[t] = None /\ GivesUp(t)
      BY <1>0, <2>1, NoRefreshRecord DEF GivesUp
  <2>3. CASE refresh[t].at = "refused" /\ refresh[t].old = kept
      BY <2>2, <2>3, RefusedIsExplained DEF Refused
  <2> QED BY <2>2, <2>3 DEF Unanswered, Behind, Barred
<1>3. ASSUME NEW t \in Tabs, RefreshDone(t) \/ LoginDone(t) PROVE FALSE
    BY <1>3 DEF RefreshDone, LoginDone, Store, Safe, Undelivered, Nowhere
<1>4. ASSUME NEW t \in Tabs, NEW reached \in BOOLEAN, SignOutSettled(t, reached)
      PROVE  held'[t] = None /\ (SignedOut(t) \/ LateSignOut(t))
  <2>1. signOut[t].at = "sent" /\ signOut' = [signOut EXCEPT ![t].at = "done"]
        /\ held' = [held EXCEPT ![t] = None]
      BY <1>4 DEF SignOutSettled, Reset, Store
  <2>2. signOut'[t].at = "done"
      BY <1>0, <2>1 DEF SignOutUpTo
  <2> QED BY <1>0, <2>1, <2>2 DEF SignedOut, LateSignOut, Settles
<1>5. ASSUME NEW t \in Tabs,
             \/ RefreshCheck(t) \/ RefreshRevoke(t) \/ RefreshIssue(t)
             \/ LoginVerify(t) \/ LoginIssue(t) \/ LoginFailed(t) \/ SignOut(t) \/ Reload(t)
      PROVE  FALSE
    BY <1>5 DEF RefreshCheck, RefreshRevoke, RefreshIssue, LoginVerify, LoginIssue, LoginFailed,
                SignOut, Reload
<1>6. ASSUME NEW r \in Requests, Answered(r) \/ \E t \in Tabs : Send(r, t) PROVE FALSE
    BY <1>6 DEF Answered, Send
<1>7. CASE Expire \/ Administer \/ UNCHANGED vars
    BY <1>7 DEF Expire, Administer, UpdateUser, RevokeAll, Activate, DeleteRevoke, DeleteRow, vars
<1> QED BY <1>1, <1>2, <1>3, <1>4, <1>5, <1>6, <1>7 DEF Next

(* Whatever the tabs, the server and the network do, the pair on disk is     *)
(* taken away only for one of the causes the property names: the interceptor *)
(* and the sign-out dialog reset the store for no other reason.              *)
THEOREM LossExplained == Spec => LossIsExplained
<1>1. Safe /\ [Next]_vars => [Explained]_vars
    BY LossStep
<1>2. Spec => [][Explained]_vars
    BY <1>1, SessionSafe, PTL DEF Spec
<1> QED BY <1>2, PTL DEF LossIsExplained, Explained
=============================================================================
