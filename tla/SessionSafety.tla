--------------------------- MODULE SessionSafety ----------------------------
(* What the session promises its user and its administrator. *)
EXTENDS WebSession

(* Requests wait only for a refresh that is under way: processQueue empties  *)
(* the queue before isRefreshing is cleared, on success and on failure.      *)
QueueIsServed ==
  \A t \in Tabs : Queue(t) # {} => refreshing[t] /\ refresh[t].at # "none"

(* A refresh token is exchanged once, though two tabs hold it and Refresh    *)
(* reads before it revokes: Revoke is conditional on revoked_at.             *)
RotatedOnce ==
  \A p, q \in 1..issued : parent[p] = parent[q] /\ parent[p] # None => p = q

(* Once a change of the user has revoked its tokens, no session verified     *)
(* before that change is valid, except one a refresh or a sign-in was        *)
(* issuing meanwhile: both store their token a statement after their check.  *)
ResetEndsSessions ==
  \A p \in valid : born[p] >= done \/ p \in raced

-----------------------------------------------------------------------------
(* Why tab t may clear the cookie and the local storage of all tabs. *)
Settles(t) == signOut[t].at = "sent" /\ signOut'[t].at = "done"
SignedOut(t) == Settles(t) /\ signOut[t].pair = kept
LateSignOut(t) == Settles(t) /\ signOut[t].pair # kept   \* answered after the next sign-in
Tokenless(t) == held[t] = None                           \* kept is another tab's
GivesUp(t) == refresh[t].at # "none" /\ refresh'[t].at = "none"
Unanswered(t) == GivesUp(t) /\ refresh[t].at \notin {"refused", "barred"}
Behind(t) == GivesUp(t) /\ refresh[t].old # kept         \* a newer pair has been stored
Barred(t) == GivesUp(t) /\ refresh[t].at = "barred"      \* the user is inactive or deleted
Refused(t) == GivesUp(t) /\ refresh[t].at = "refused"
Revoked == kept \in ended \/ (kept \notin valid /\ \E u \in Tabs : signOut[u].pair = kept)
Twin(t) == \E u \in Tabs \ {t} :                         \* another tab is exchanging it
  refresh[u].at \in {"revoked", "answered"} /\ refresh[u].old = kept

(* The session on disk goes when its user signs out, and when it is refreshed *)
(* after its week, after a reset or a sign-out in another tab revoked it, or  *)
(* while the user is barred.  A refresh without an answer, a tab, a refresh   *)
(* or a sign-out that is behind, and the refresh of another tab take it away  *)
(* as well; nothing else makes the interceptor reset it.                      *)
LossIsExplained ==
  [][kept # None /\ kept' = None =>
       \E t \in Tabs :
         /\ held'[t] = None
         /\ \/ SignedOut(t) \/ LateSignOut(t) \/ Tokenless(t)
            \/ Unanswered(t) \/ Behind(t) \/ Barred(t)
            \/ Refused(t) /\ (kept <= lapsed \/ Revoked \/ Twin(t))]_vars

(* Every request of a page comes to an end, also when its token has expired  *)
(* and the refresh fails, is refused or is never answered.                   *)
EveryRequestEnds ==
  \A r \in Requests : req[r].at # "unsent" ~> req[r].at = "ended"
=============================================================================
