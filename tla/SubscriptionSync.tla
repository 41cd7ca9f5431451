-------------------------- MODULE SubscriptionSync --------------------------
(***************************************************************************)
(* The subscriptions table and the MikroTik router it is mirrored to.      *)
(*                                                                         *)
(* A subscription row carries the status the operator and the billing jobs *)
(* want and a one-slot outbox flag, sync_status.  The outbox job reads the *)
(* rows that are pending, pushes each one to the router from the snapshot  *)
(* it read and then writes the flag back.  Around it run HTTP handlers     *)
(* that write rows and push to the router themselves, the suspension check *)
(* and the payment settlement, that write status and flag, and the hourly  *)
(* reconciler.  Every read of the row, write of the row and router         *)
(* operation is a step of its own, so that they interleave as they do in   *)
(* the server.                                                             *)
(*                                                                         *)
(* A subscription stands for its row and for the secret of its username    *)
(* (/ppp/secret or /ip/hotspot/user: both branches of the code are alike). *)
(* All subscriptions are on one device.                                    *)
(***************************************************************************)
EXTENDS Naturals, FiniteSets

CONSTANTS
  Subs,       \* subscription ids, one per (device, service, username)
  Plans,      \* names of the bandwidth profiles a subscription can have
  Workers,    \* requests and jobs that may be under way at the same time
  Ops,        \* operations that can be called, a subset of OpNames
  Links,      \* states the connection to the device can be in
  BatchSize,  \* outboxBatchSize
  Threshold,  \* outboxEscalationThreshold
  MaxOps      \* bound on the operations of one behaviour, for TLC

VARIABLES
  row,      \* the subscriptions table
  secret,   \* the secrets on the router
  link,     \* "up"; "down": in devmgr's map, calls fail; "gone": not in the map
  outbox,   \* the batch of the running OutboxJob.Run and how far it is
  work,     \* requests under way, with the copy of the row each one holds
  started   \* operations started so far

vars == <<row, secret, link, outbox, work, started>>

-----------------------------------------------------------------------------
Status == {"pending_install", "active", "isolir", "suspended", "terminated"}

Pending == {"pending_create", "pending_profile_change", "pending_disable", "pending_enable"}

SyncStatus == Pending \cup {"synced", "error"}

OpNames == {"Create", "CompleteInstall", "Update", "PatchStatus", "Delete", "BatchDelete",
            "Reconcile", "isolir", "suspend", "settle", "checkDrift", "tamper", "restart"}

ASSUME SyncAssumption ==
  /\ Subs # {}
  /\ Plans # {}
  /\ Plans \cap {"isolir", "default", ""} = {}
  /\ Ops \subseteq OpNames
  /\ Links \subseteq {"up", "down", "gone"} /\ Links # {}
  /\ BatchSize \in Nat \ {0}
  /\ Threshold \in Nat \ {0}
  /\ MaxOps \in Nat

Row == [live : BOOLEAN, status : Status, sync : SyncStatus, retry : Nat, plan : Plans]

NoRow == [live |-> FALSE, status |-> "terminated", sync |-> "synced", retry |-> 0,
          plan |-> CHOOSE p \in Plans : TRUE]

NewRow(st, p) == [live |-> TRUE, status |-> st, sync |-> "pending_create", retry |-> 0, plan |-> p]

\* "isolir" is the isolir profile of the settings, "default" the profile RouterOS
\* gives a secret that is added without one.
Profiles == Plans \cup {"isolir", "default"}

Secret == [present : BOOLEAN, profile : Profiles, disabled : BOOLEAN]

Absent == [present |-> FALSE, profile |-> "default", disabled |-> FALSE]

Phases == {"none", "queued", "applied", "failed", "escalate"}

PCs == {"idle", "provision", "save", "push", "status", "sync", "remove", "check"}

Work == [op : OpNames, sub : Subs, pc : PCs, copy : Row, profile : Plans \cup {""}]

Idle == [op |-> "Reconcile", sub |-> CHOOSE s \in Subs : TRUE, pc |-> "idle", copy |-> NoRow,
         profile |-> ""]

NotListed == [phase |-> "none", snap |-> NoRow]

-----------------------------------------------------------------------------
(* What the store's statements do to a row.  Every one of them is limited to *)
(* rows that are not soft-deleted; on a deleted row they change nothing.     *)

UpdateStatus(r, st) == IF r.live THEN [r EXCEPT !.status = st] ELSE r

UpdateSyncStatus(r, st) ==
  IF r.live THEN [r EXCEPT !.sync = st, !.retry = IF st = "synced" THEN 0 ELSE @] ELSE r

\* A faulty form, to test the properties with: the count is lost.
IncrSyncRetryLost(r) == r

IncrSyncRetry(r) == IF r.live THEN [r EXCEPT !.retry = @ + 1] ELSE r

\* gorm's Save writes every column; when the UPDATE matches no live row it falls
\* back to an upsert, which clears deleted_at with the rest.
Save(copy) == copy

-----------------------------------------------------------------------------
(* What the router operations make of a secret. *)

AddSecret(p, dis) == [present |-> TRUE, profile |-> p, disabled |-> dis]

SetProfile(sec, p) == IF sec.present THEN [sec EXCEPT !.profile = p] ELSE sec

SetDisabled(sec, dis) == IF sec.present THEN [sec EXCEPT !.disabled = dis] ELSE sec

\* Values the secret can have after calls that lead from before over mid to after.
\* On a "down" link every call returns an error and may or may not have been carried out.
Reach(before, mid, after) ==
  IF link = "up" THEN {after} ELSE IF link = "down" THEN {before, mid, after} ELSE {before}

profileForStatus(r) == IF r.status = "isolir" THEN "isolir" ELSE r.plan

disabledForStatus(r) == r.status \notin {"active", "isolir"}

\* Find the secret by name; add it when there is none, otherwise set everything.
ensureRouterState(r) == AddSecret(profileForStatus(r), disabledForStatus(r))

\* The profile of OutboxJob.doProfileChange.
targetProfile(r) == IF r.status = "isolir" THEN "isolir" ELSE r.plan

doCreate(r, sec) == IF sec.present THEN sec ELSE AddSecret(r.plan, FALSE)

doProfileChange(r, sec) == SetProfile(sec, targetProfile(r))

\* A faulty form, to test the properties with: the profile stays.
doEnableUnprofiled(r, sec) == SetDisabled(sec, FALSE)

doEnable(r, sec) == SetDisabled(doProfileChange(r, sec), FALSE)

\* OutboxJob.applySync on a snapshot r, once devmgr has returned a client.
\* "pending_delete" has a branch in the code, but no statement ever writes it.
applySync(r, sec) ==
  CASE r.sync = "pending_create" -> doCreate(r, sec)
    [] r.sync = "pending_profile_change" -> doProfileChange(r, sec)
    [] r.sync = "pending_disable" -> SetDisabled(sec, TRUE)
    [] r.sync = "pending_enable" -> doEnable(r, sec)
    [] OTHER -> sec

\* What a failed applySync may leave behind short of the whole effect.
applySyncPart(r, sec) == IF r.sync = "pending_enable" THEN doProfileChange(r, sec) ELSE sec

\* A second add of the same name is refused; setting an absent secret is not an error.
\* "device offline - will retry next tick" returns nil as well.
applySyncOK(r, sec) ==
  \/ link = "gone"
  \/ link = "up" /\ ~(r.sync = "pending_create" /\ sec.present)

trySetOnRouter(r, p, sec) ==
  IF sec.present
    THEN IF p = "" THEN sec ELSE SetProfile(sec, p)
    ELSE AddSecret(IF p = "" THEN "default" ELSE p, disabledForStatus(r))

trySyncStatus(r, sec) ==
  IF r.status = "terminated" THEN Absent
  ELSE IF r.status = "active" THEN ensureRouterState(r)
  ELSE SetDisabled(SetProfile(sec, profileForStatus(r)), disabledForStatus(r))

trySyncStatusPart(r, sec) ==
  IF r.status \in {"terminated", "active"} THEN sec ELSE SetProfile(sec, profileForStatus(r))

-----------------------------------------------------------------------------
Init ==
  /\ row = [s \in Subs |-> NoRow]
  /\ secret = [s \in Subs |-> Absent]
  /\ link \in Links
  /\ outbox = [s \in Subs |-> NotListed]
  /\ work = [w \in Workers |-> Idle]
  /\ started = 0

(* The outbox job. *)

\* Rows that are neither synced nor in error, at most BatchSize of them, in no
\* particular order.  FOR UPDATE SKIP LOCKED locks for the one statement only.
ListPendingSync == {s \in Subs : row[s].live /\ row[s].sync \notin {"synced", "error"}}

OutboxRun ==
  /\ \A s \in Subs : outbox[s].phase = "none"
  /\ ListPendingSync # {}
  /\ \E batch \in SUBSET ListPendingSync :
       /\ Cardinality(batch) <= BatchSize
       /\ batch # ListPendingSync => Cardinality(batch) = BatchSize
       /\ outbox' = [s \in Subs |-> IF s \in batch THEN [phase |-> "queued", snap |-> row[s]]
                                                   ELSE NotListed]
  /\ UNCHANGED <<row, secret, link, work, started>>

OutboxApply(s) ==
  /\ outbox[s].phase = "queued"
  /\ \A t \in Subs : outbox[t].phase \in {"none", "queued"}
  /\ \E sec \in Reach(secret[s], applySyncPart(outbox[s].snap, secret[s]),
                      applySync(outbox[s].snap, secret[s])) :
       secret' = [secret EXCEPT ![s] = sec]
  /\ outbox' = [outbox EXCEPT ![s].phase =
                  IF applySyncOK(outbox[s].snap, secret[s]) THEN "applied" ELSE "failed"]
  /\ UNCHANGED <<row, link, work, started>>

OutboxMarkSynced(s) ==
  /\ outbox[s].phase = "applied"
  /\ row' = [row EXCEPT ![s] = UpdateSyncStatus(@, "synced")]
  /\ outbox' = [outbox EXCEPT ![s] = NotListed]
  /\ UNCHANGED <<secret, link, work, started>>

\* The new count is read back; a row deleted meanwhile counts as 0.
OutboxIncrRetry(s) ==
  /\ outbox[s].phase = "failed"
  /\ row' = [row EXCEPT ![s] = IncrSyncRetry(@)]
  /\ outbox' = [outbox EXCEPT ![s] =
                  IF row[s].live /\ row[s].retry + 1 >= Threshold
                    THEN [@ EXCEPT !.phase = "escalate"] ELSE NotListed]
  /\ UNCHANGED <<secret, link, work, started>>

OutboxEscalate(s) ==
  /\ outbox[s].phase = "escalate"
  /\ row' = [row EXCEPT ![s] = UpdateSyncStatus(@, "error")]
  /\ outbox' = [outbox EXCEPT ![s] = NotListed]
  /\ UNCHANGED <<secret, link, work, started>>

OutboxStep ==
  \/ OutboxRun
  \/ \E s \in Subs : \/ OutboxApply(s) \/ OutboxMarkSynced(s)
                     \/ OutboxIncrRetry(s) \/ OutboxEscalate(s)

-----------------------------------------------------------------------------
(* Requests and jobs: each starts on an idle worker, that then holds a copy. *)

Call(op) == op \in Ops /\ started < MaxOps /\ started' = started + 1

Start(w, op, s, pc, copy, p) ==
  /\ work[w].pc = "idle"
  /\ work' = [work EXCEPT ![w] = [op |-> op, sub |-> s, pc |-> pc, copy |-> copy, profile |-> p]]

\* Store.Create refuses a username with a live row; a soft-deleted row is reused.
\* The copy already holds what a successful provisioning will write.
Create(w, s, p) ==
  /\ Call("Create")
  /\ ~row[s].live
  /\ row' = [row EXCEPT ![s] = NewRow("pending_install", p)]
  /\ Start(w, "Create", s, "provision",
           [NewRow("active", p) EXCEPT !.sync = "synced"], p)
  /\ UNCHANGED <<secret, link, outbox>>

\* Subs.Create; when the first invoice was generated, the record is saved again.
CompleteInstall(w, s, p) ==
  /\ Call("CompleteInstall")
  /\ ~row[s].live
  /\ row' = [row EXCEPT ![s] = NewRow("active", p)]
  /\ \/ Start(w, "CompleteInstall", s, "save", NewRow("active", p), "")
     \/ work[w].pc = "idle" /\ work' = work
  /\ UNCHANGED <<secret, link, outbox>>

\* profile is newProfileName: "" unless the request moves to another plan.
Update(w, s, p) ==
  /\ Call("Update")
  /\ row[s].live
  /\ Start(w, "Update", s, "save", [row[s] EXCEPT !.plan = p], IF p = row[s].plan THEN "" ELSE p)
  /\ UNCHANGED <<row, secret, link, outbox>>

PatchStatus(w, s, st) ==
  /\ Call("PatchStatus")
  /\ row[s].live
  /\ Start(w, "PatchStatus", s, "status", [row[s] EXCEPT !.status = st], "")
  /\ UNCHANGED <<row, secret, link, outbox>>

Delete(w, s) ==
  /\ Call("Delete")
  /\ row[s].live
  /\ row' = [row EXCEPT ![s].live = FALSE]
  /\ Start(w, "Delete", s, "remove", row[s], "")
  /\ UNCHANGED <<secret, link, outbox>>

BatchDelete(ids) ==
  /\ Call("BatchDelete")
  /\ row' = [s \in Subs |-> IF s \in ids THEN [row[s] EXCEPT !.live = FALSE] ELSE row[s]]
  /\ UNCHANGED <<secret, link, outbox, work>>

\* 503 when the device is not in devmgr's map.
Reconcile(w, s) ==
  /\ Call("Reconcile")
  /\ row[s].live
  /\ link # "gone"
  /\ Start(w, "Reconcile", s, "push", row[s], "")
  /\ UNCHANGED <<row, secret, link, outbox>>

\* Steps 2 and 3 of the suspension check, and the restore of applySettlement: a
\* status that was read decides the status and the flag that are written after it.
Transition(w, s, op, from, to, sync) ==
  /\ Call(op)
  /\ row[s].live
  /\ row[s].status \in from
  /\ Start(w, op, s, "status", [row[s] EXCEPT !.status = to, !.sync = sync], "")
  /\ UNCHANGED <<row, secret, link, outbox>>

SuspensionIsolir(w, s) ==
  Transition(w, s, "isolir", {"active"}, "isolir", "pending_profile_change")

\* A faulty form, to test the properties with: the status for the flag.
SuspensionSuspendStray(w, s) ==
  Transition(w, s, "suspend", {"active", "isolir"}, "suspended", "suspended")

SuspensionSuspend(w, s) ==
  Transition(w, s, "suspend", {"active", "isolir"}, "suspended", "pending_disable")

ApplySettlement(w, s) ==
  \/ Transition(w, s, "settle", {"isolir"}, "active", "pending_profile_change")
  \/ Transition(w, s, "settle", {"suspended"}, "active", "pending_enable")

\* The reconciler lists the rows once and checks them one after the other.  It is
\* periodic, so it does not count against MaxOps.
ReconcilerRun(w, s) ==
  /\ "checkDrift" \in Ops
  /\ row[s].live
  /\ row[s].sync = "synced"
  /\ row[s].status \in {"active", "isolir", "suspended"}
  /\ Start(w, "checkDrift", s, "check", [row[s] EXCEPT !.sync = "pending_profile_change"], "")
  /\ UNCHANGED <<row, secret, link, outbox, started>>

-----------------------------------------------------------------------------
(* The later steps of the requests and jobs. *)

Goto(w, pc) == work' = [work EXCEPT ![w] = IF pc = "idle" THEN Idle ELSE [@ EXCEPT !.pc = pc]]

\* tryProvisionOnRouter: only a success goes on to raise the status.
TryProvision(w) ==
  LET s == work[w].sub
      new == doCreate(work[w].copy, secret[s])
  IN /\ work[w].pc = "provision"
     /\ \E sec \in Reach(secret[s], secret[s], new) : secret' = [secret EXCEPT ![s] = sec]
     /\ Goto(w, IF link = "up" /\ ~secret[s].present THEN "status" ELSE "idle")
     /\ UNCHANGED <<row, link, outbox, started>>

\* Create and the settlement ignore that the row is gone, the others stop.
WriteStatus(w) ==
  LET s == work[w].sub
  IN /\ work[w].pc = "status"
     /\ row' = [row EXCEPT ![s] = UpdateStatus(@, work[w].copy.status)]
     /\ Goto(w, IF ~row[s].live /\ work[w].op \notin {"Create", "settle"} THEN "idle"
                ELSE IF work[w].op = "PatchStatus" THEN "push" ELSE "sync")
     /\ UNCHANGED <<secret, link, outbox, started>>

WriteSyncStatus(w) ==
  LET s == work[w].sub
  IN /\ work[w].pc = "sync"
     /\ row' = [row EXCEPT ![s] = UpdateSyncStatus(@, work[w].copy.sync)]
     /\ Goto(w, "idle")
     /\ UNCHANGED <<secret, link, outbox, started>>

SaveRow(w) ==
  /\ work[w].pc = "save"
  /\ row' = [row EXCEPT ![work[w].sub] = Save(work[w].copy)]
  /\ Goto(w, IF work[w].op = "Update" THEN "push" ELSE "idle")
  /\ UNCHANGED <<secret, link, outbox, started>>

\* What the push of a handler makes of the secret, and what it may stop at.
pushed(w, sec) ==
  LET r == work[w].copy
  IN IF work[w].op = "Update" THEN trySetOnRouter(r, work[w].profile, sec)
     ELSE IF work[w].op = "PatchStatus" THEN trySyncStatus(r, sec)
     ELSE ensureRouterState(r)

pushedPart(w, sec) ==
  IF work[w].op = "PatchStatus" THEN trySyncStatusPart(work[w].copy, sec) ELSE sec

\* A failure is only reported as a warning; the row is not written again.
PushToRouter(w) ==
  LET s == work[w].sub
  IN /\ work[w].pc = "push"
     /\ \E sec \in Reach(secret[s], pushedPart(w, secret[s]), pushed(w, secret[s])) :
          secret' = [secret EXCEPT ![s] = sec]
     /\ Goto(w, "idle")
     /\ UNCHANGED <<row, link, outbox, started>>

TryRemove(w) ==
  LET s == work[w].sub
  IN /\ work[w].pc = "remove"
     /\ \E sec \in Reach(secret[s], secret[s], Absent) : secret' = [secret EXCEPT ![s] = sec]
     /\ Goto(w, "idle")
     /\ UNCHANGED <<row, link, outbox, started>>

\* Drift: no secret for a customer who should have one, or the wrong disabled flag.
drift(r, sec) ==
  IF sec.present THEN sec.disabled # (r.status = "suspended") ELSE r.status \in {"active", "isolir"}

CheckDrift(w) ==
  LET s == work[w].sub
  IN /\ work[w].pc = "check"
     /\ Goto(w, IF link = "up" /\ drift(work[w].copy, secret[s]) THEN "sync" ELSE "idle")
     /\ UNCHANGED <<row, secret, link, outbox, started>>

WorkStep(w) ==
  \/ TryProvision(w) \/ WriteStatus(w) \/ WriteSyncStatus(w) \/ SaveRow(w)
  \/ PushToRouter(w) \/ TryRemove(w) \/ CheckDrift(w)

-----------------------------------------------------------------------------
(* The environment. *)

\* The connection is lost or comes back; the device is removed from or added to devmgr.
LinkChange ==
  /\ link' \in Links \ {link}
  /\ UNCHANGED <<row, secret, outbox, work, started>>

\* Someone edits the router by hand.
Tamper(s) ==
  /\ Call("tamper")
  /\ secret[s].present
  /\ \E sec \in {Absent, [secret[s] EXCEPT !.disabled = ~@]} : secret' = [secret EXCEPT ![s] = sec]
  /\ UNCHANGED <<row, link, outbox, work>>

\* The server stops and starts again: what was under way is gone.
Restart ==
  /\ Call("restart")
  /\ outbox' = [s \in Subs |-> NotListed]
  /\ work' = [w \in Workers |-> Idle]
  /\ link' \in Links
  /\ UNCHANGED <<row, secret>>

Begin(w, s) ==
  \/ \E p \in Plans : Create(w, s, p) \/ CompleteInstall(w, s, p) \/ Update(w, s, p)
  \/ \E st \in Status : PatchStatus(w, s, st)
  \/ Delete(w, s) \/ Reconcile(w, s)
  \/ SuspensionIsolir(w, s) \/ SuspensionSuspend(w, s) \/ ApplySettlement(w, s)
  \/ ReconcilerRun(w, s)

Next ==
  \/ OutboxStep
  \/ \E w \in Workers : WorkStep(w) \/ \E s \in Subs : Begin(w, s)
  \/ \E ids \in SUBSET Subs \ {{}} : BatchDelete(ids)
  \/ LinkChange
  \/ \E s \in Subs : Tamper(s)
  \/ Restart

Spec == Init /\ [][Next]_vars

TypeOK ==
  /\ row \in [Subs -> Row]
  /\ secret \in [Subs -> Secret]
  /\ link \in Links
  /\ outbox \in [Subs -> [phase : Phases, snap : Row]]
  /\ work \in [Workers -> Work]
  /\ started \in 0..MaxOps
=============================================================================
