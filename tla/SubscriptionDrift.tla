------------------------- MODULE SubscriptionDrift -------------------------
(***************************************************************************)
(* What the outbox promises about the router, and when it cannot keep it.  *)
(*                                                                         *)
(* A row whose flag says "synced" should be what the router has.  The      *)
(* design keeps one intent per row and no version, so this cannot hold     *)
(* always.  The history variable excused records, for every subscription,  *)
(* that since the router last matched it one of the named causes of drift  *)
(* has happened; the property is that there is no other cause.             *)
(***************************************************************************)
EXTENDS SubscriptionSync

VARIABLE excused

driftVars == <<row, secret, link, outbox, work, started, excused>>

-----------------------------------------------------------------------------
\* The secret gives the customer the service that the status of the row says.
Agrees(r, sec) ==
  /\ r.status = "active" => sec.present /\ sec.profile = r.plan /\ ~sec.disabled
  /\ r.status = "isolir" => sec.present /\ sec.profile = "isolir" /\ ~sec.disabled
  /\ r.status \in {"suspended", "terminated"} => ~sec.present \/ sec.disabled

WorksOn(w, s) == work[w].pc # "idle" /\ work[w].sub = s

OutboxOn(s) == outbox[s].phase # "none"

Quiet(s) == ~OutboxOn(s) /\ \A w \in Workers : ~WorksOn(w, s)

-----------------------------------------------------------------------------
(* The causes of drift. *)

\* Two of the outbox run, the handlers and the jobs work on the same row.
Overlap(s) ==
  \/ OutboxOn(s) /\ \E w \in Workers : WorksOn(w, s)
  \/ \E v, w \in Workers : v # w /\ WorksOn(v, s) /\ WorksOn(w, s)

\* A row somebody works on is deleted or created anew.
Replaced(s) == ~Quiet(s) /\ row'[s].live # row[s].live

\* The outbox takes a device that is not connected for a success.
Skipped(s) ==
  outbox[s].phase = "queued" /\ outbox'[s].phase = "applied" /\ link = "gone"

\* The outbox sets attributes of a secret that is not there.
NotFound(s) ==
  /\ outbox[s].phase = "queued" /\ outbox'[s].phase = "applied"
  /\ outbox[s].snap.sync \in {"pending_profile_change", "pending_enable"} /\ ~secret[s].present

\* A new status or plan did not reach the router with the handler's own push: the
\* warning in the response is all that is left of it.
NotPushed(s) ==
  \E w \in Workers :
    /\ WorksOn(w, s) /\ work[w].pc = "push" /\ work'[w].pc = "idle"
    /\ \/ link # "up" /\ (work[w].op = "PatchStatus" \/ work[w].profile # "")
       \/ work[w].op = "PatchStatus" /\ work[w].copy.status = "isolir" /\ ~secret[s].present

\* A plan change is pushed to the router of a customer who is isolated.
Replanned(s) ==
  \E w \in Workers :
    /\ WorksOn(w, s) /\ work[w].pc = "push" /\ work'[w].pc = "idle"
    /\ work[w].profile # "" /\ work[w].copy.status = "isolir"

\* Status or flag of a row are written while an earlier intent is still unfinished.
Superseded(s) ==
  \E w \in Workers :
    /\ WorksOn(w, s) /\ work[w].op # "Create" /\ row[s].sync # "synced"
    /\ work[w].pc \in {"status", "sync"} /\ work'[w].pc # work[w].pc

\* The server stopped in the middle of a handler or job on the row.  An interrupted
\* outbox run is no cause: the row is still pending and is listed again.
Interrupted(s) == Restart /\ \E w \in Workers : WorksOn(w, s)

\* The router was changed by hand.
Tampered(s) == Tamper(s)

Cause(s) ==
  \/ Overlap(s)' \/ Replaced(s) \/ Skipped(s) \/ NotFound(s) \/ NotPushed(s) \/ Replanned(s)
  \/ Superseded(s) \/ Interrupted(s) \/ Tampered(s)

\* An excuse lasts until the row is gone or is seen to be in agreement.
Settled(s) == Quiet(s) /\ (row[s].live => row[s].sync = "synced" /\ Agrees(row[s], secret[s]))

DriftInit == Init /\ excused = [s \in Subs |-> FALSE]

DriftNext ==
  /\ Next
  /\ excused' = [s \in Subs |-> ~Settled(s)' /\ (excused[s] \/ Cause(s))]

DriftSpec == DriftInit /\ [][DriftNext]_driftVars

-----------------------------------------------------------------------------
\* A row that is marked synced and that nobody is working on is what the router
\* has, unless one of the causes above has intervened: retries, failed and half
\* carried out calls, escalations and restarts of the outbox never leave a synced
\* row that the router contradicts (OutboxJob.Run, applySync).
DriftExplained ==
  \A s \in Subs :
    row[s].live /\ row[s].sync = "synced" /\ Quiet(s) /\ ~excused[s] => Agrees(row[s], secret[s])

-----------------------------------------------------------------------------
(***************************************************************************)
(* The inductive invariant behind DriftExplained: without an excuse one    *)
(* actor at most works on a subscription, what it holds is the row, and    *)
(* the intent of the row is enough to bring the router in agreement.       *)
(***************************************************************************)

\* Carrying out r.sync on a router whose secret is sec gives what r.status says.
Coherent(r, sec) ==
  /\ r.sync = "synced" => Agrees(r, sec)
  /\ r.sync = "pending_create" => r.status \in {"pending_install", "active"}
  /\ r.sync = "pending_profile_change" =>
       r.status \in {"active", "isolir"} /\ (sec.present => ~sec.disabled)
  /\ r.sync = "pending_disable" => r.status = "suspended"
  /\ r.sync = "pending_enable" => r.status = "active"

OutboxHolds(o, r, sec) ==
  /\ r.live /\ r.sync \in Pending
  /\ o.phase \in {"queued", "applied", "failed"} => o.snap = r
  /\ o.phase = "applied" => Agrees(r, sec)
  /\ Coherent(r, sec)

WorkerHolds(k, r, sec) ==
  /\ k.pc = "provision" =>
       /\ k.op = "Create" /\ r.live /\ r.status = "pending_install" /\ r.sync = "pending_create"
       /\ k.copy.plan = r.plan /\ k.copy.status = "active" /\ k.copy.sync = "synced"
  /\ k.pc = "status" =>
       /\ r.live
       /\ k.op \in {"Create", "PatchStatus", "isolir", "suspend", "settle"}
       /\ k.op = "PatchStatus" => Coherent(r, sec) /\ k.copy = [r EXCEPT !.status = k.copy.status]
       /\ k.op \notin {"Create", "PatchStatus"} => Coherent(r, sec)
       /\ k.op = "Create" \/ (k.op # "PatchStatus" /\ r.sync = "synced") =>
            Coherent([r EXCEPT !.status = k.copy.status, !.sync = k.copy.sync], sec)
  /\ k.pc = "sync" => r.live /\ Coherent([r EXCEPT !.sync = k.copy.sync], sec)
  /\ k.pc = "save" =>
       /\ r.live /\ Coherent(r, sec)
       /\ k.copy = [r EXCEPT !.plan = k.copy.plan]
       /\ k.profile = "" => k.copy = r
       /\ k.profile # "" => k.profile = k.copy.plan
       /\ k.op # "Update" => k.copy = r
       /\ k.op \in {"Update", "CompleteInstall"}
  /\ k.pc = "push" =>
       /\ r.live /\ k.copy = r
       /\ k.op \in {"PatchStatus", "Reconcile", "Update"}
       /\ k.op = "PatchStatus" => r.sync = "synced"
       /\ k.op = "Reconcile" => Coherent(r, sec)
       /\ k.op = "Update" /\ k.profile = "" => Coherent(r, sec)
       /\ k.op = "Update" /\ k.profile # "" =>
            k.profile = r.plan /\ \E q \in Plans : Coherent([r EXCEPT !.plan = q], sec)
  /\ k.pc = "remove" => ~r.live
  /\ k.pc = "check" =>
       /\ k.op = "checkDrift" /\ r.live /\ r.sync = "synced" /\ Agrees(r, sec)
       /\ k.copy.status = r.status /\ r.status \in {"active", "isolir", "suspended"}

Good(s) ==
  /\ ~Overlap(s)
  /\ row[s].live /\ (\A w \in Workers : ~WorksOn(w, s)) => Coherent(row[s], secret[s])
  /\ OutboxOn(s) => OutboxHolds(outbox[s], row[s], secret[s])
  /\ \A w \in Workers : WorksOn(w, s) => WorkerHolds(work[w], row[s], secret[s])

DriftInv == \A s \in Subs : ~excused[s] => Good(s)
=============================================================================
