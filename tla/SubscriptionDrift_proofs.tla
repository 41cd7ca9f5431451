---------------------- MODULE SubscriptionDrift_proofs ----------------------
(***************************************************************************)
(* The subscription synchronisation for any number of subscriptions,       *)
(* requests, plans and operations: it keeps its types, and DriftExplained  *)
(* holds.                                                                  *)
(*                                                                         *)
(* Good(s) is what an unexcused subscription satisfies.  Whoever works on  *)
(* it is alone (two would be an Overlap, an excuse), so every step either  *)
(* does not touch s (Frame) or is a step of that one actor; LoneIdle and   *)
(* LoneHolds reduce such a step to a statement about one row, one secret   *)
(* and one copy.                                                           *)
(***************************************************************************)
EXTENDS SubscriptionDrift, TLAPS

\* The constants of the model are of their types: the absent row,
LEMMA NoRowType == NoRow \in Row
  BY SyncAssumption DEF NoRow, Row, Status, SyncStatus, Pending

\* a new row,
LEMMA NewRowType ==
  ASSUME NEW st \in Status, NEW p \in Plans
  PROVE  NewRow(st, p) \in Row
  BY DEF NewRow, Row, Status, SyncStatus, Pending

\* the absent secret,
LEMMA AbsentType == Absent \in Secret
  BY DEF Absent, Secret, Profiles

\* the idle worker,
LEMMA IdleType == Idle \in Work
  BY NoRowType, SyncAssumption DEF Idle, Work, OpNames, PCs

\* the entry that is not in the batch.
LEMMA NotListedType == NotListed \in [phase : Phases, snap : Row]
  BY NoRowType DEF NotListed, Phases

(* The store's statements map rows to rows. *)

\* A statement of the store maps a row to a row.
LEMMA StoreTypes ==
  ASSUME NEW r \in Row, NEW st \in Status, NEW sy \in SyncStatus
  PROVE  /\ UpdateStatus(r, st) \in Row
         /\ UpdateSyncStatus(r, sy) \in Row
         /\ IncrSyncRetry(r) \in Row
<1>1. UpdateStatus(r, st) \in Row
  BY DEF UpdateStatus, Row
<1>2. UpdateSyncStatus(r, sy) \in Row
  <2>1. (IF sy = "synced" THEN 0 ELSE r.retry) \in Nat
    BY DEF Row
  <2> QED
    BY <2>1 DEF UpdateSyncStatus, Row
<1>3. IncrSyncRetry(r) \in Row
  BY DEF IncrSyncRetry, Row
<1> QED
  BY <1>1, <1>2, <1>3

(* The router operations map secrets to secrets. *)

\* A router operation maps a secret to a secret.
LEMMA RouterTypes ==
  ASSUME NEW sec \in Secret, NEW p \in Profiles, NEW dis \in BOOLEAN
  PROVE  /\ AddSecret(p, dis) \in Secret
         /\ SetProfile(sec, p) \in Secret
         /\ SetDisabled(sec, dis) \in Secret
  BY DEF AddSecret, SetProfile, SetDisabled, Secret

\* The profiles that are pushed are profiles.
LEMMA PlanIsProfile ==
  ASSUME NEW r \in Row
  PROVE  r.plan \in Profiles /\ profileForStatus(r) \in Profiles /\ targetProfile(r) \in Profiles
         /\ disabledForStatus(r) \in BOOLEAN
  BY DEF Row, Profiles, profileForStatus, targetProfile, disabledForStatus

\* The calls of the outbox make secrets.
LEMMA OutboxCallTypes ==
  ASSUME NEW r \in Row, NEW sec \in Secret
  PROVE  /\ doCreate(r, sec) \in Secret
         /\ applySync(r, sec) \in Secret
         /\ applySyncPart(r, sec) \in Secret
<1>1. /\ r.plan \in Profiles
      /\ targetProfile(r) \in Profiles
  BY PlanIsProfile
<1>2. AddSecret(r.plan, FALSE) \in Secret
  BY <1>1, RouterTypes
<1>3. doProfileChange(r, sec) \in Secret
  BY <1>1, RouterTypes DEF doProfileChange
<1>4. doEnable(r, sec) \in Secret
  BY <1>3, <1>1, RouterTypes DEF doEnable
<1>5. SetDisabled(sec, TRUE) \in Secret
  BY <1>1, RouterTypes
<1> QED
  BY <1>2, <1>3, <1>4, <1>5 DEF doCreate, applySync, applySyncPart

\* The pushes of the handlers make secrets.
LEMMA HandlerCallTypes ==
  ASSUME NEW r \in Row, NEW sec \in Secret, NEW p \in Plans \cup {""}
  PROVE  /\ ensureRouterState(r) \in Secret
         /\ trySetOnRouter(r, p, sec) \in Secret
         /\ trySyncStatus(r, sec) \in Secret
         /\ trySyncStatusPart(r, sec) \in Secret
<1>1. /\ profileForStatus(r) \in Profiles
      /\ disabledForStatus(r) \in BOOLEAN
  BY PlanIsProfile
<1>2. ensureRouterState(r) \in Secret
  BY <1>1, RouterTypes DEF ensureRouterState
<1>3. SetProfile(sec, profileForStatus(r)) \in Secret
  BY <1>1, RouterTypes
<1>4. SetDisabled(SetProfile(sec, profileForStatus(r)), disabledForStatus(r)) \in Secret
  BY <1>1, <1>3, RouterTypes
<1>5. trySetOnRouter(r, p, sec) \in Secret
  <2>1. (IF p = "" THEN "default" ELSE p) \in Profiles
    BY DEF Profiles
  <2>2. AddSecret(IF p = "" THEN "default" ELSE p, disabledForStatus(r)) \in Secret
    BY <2>1, <1>1, RouterTypes
  <2>3. CASE p = ""
    BY <2>2, <2>3 DEF trySetOnRouter
  <2>4. CASE p # ""
    <3>1. p \in Profiles
      BY <2>4 DEF Profiles
    <3>2. SetProfile(sec, p) \in Secret
      BY <3>1, RouterTypes
    <3> QED
      BY <2>2, <2>4, <3>2 DEF trySetOnRouter
  <2> QED
    BY <2>3, <2>4
<1> QED
  BY <1>2, <1>3, <1>4, <1>5, AbsentType DEF trySyncStatus, trySyncStatusPart

\* So do calls that fail half way.
LEMMA ReachType ==
  ASSUME NEW a \in Secret, NEW b \in Secret, NEW c \in Secret, NEW sec \in Reach(a, b, c)
  PROVE  sec \in Secret
  BY DEF Reach

-----------------------------------------------------------------------------
\* The initial states are of the types.
LEMMA InitType == Init => TypeOK
<1>0. MaxOps \in Nat
  BY SyncAssumption
<1>1. 0 \in 0..MaxOps
  BY <1>0
<1> QED
  BY <1>1, NoRowType, AbsentType, IdleType, NotListedType DEF Init, TypeOK

\* Listing a batch keeps the types.
LEMMA OutboxRunType == TypeOK /\ OutboxRun => TypeOK'
<1> SUFFICES ASSUME TypeOK, OutboxRun PROVE TypeOK'
  OBVIOUS
<1>1. PICK batch \in SUBSET ListPendingSync :
        outbox' = [s \in Subs |-> IF s \in batch THEN [phase |-> "queued", snap |-> row[s]]
                                                 ELSE NotListed]
  BY DEF OutboxRun
<1>2. outbox' \in [Subs -> [phase : Phases, snap : Row]]
  BY <1>1, NotListedType DEF TypeOK, Phases
<1> QED
  BY <1>2 DEF TypeOK, OutboxRun

\* Applying a row keeps the types.
LEMMA OutboxApplyType == ASSUME NEW s \in Subs PROVE TypeOK /\ OutboxApply(s) => TypeOK'
<1> SUFFICES ASSUME TypeOK, OutboxApply(s) PROVE TypeOK'
  OBVIOUS
<1> DEFINE r == outbox[s].snap
<1>1. r \in Row /\ secret[s] \in Secret
  BY DEF TypeOK
<1>2. PICK sec \in Reach(secret[s], applySyncPart(r, secret[s]), applySync(r, secret[s])) :
        secret' = [secret EXCEPT ![s] = sec]
  BY DEF OutboxApply
<1>3. sec \in Secret
  <2>1. applySyncPart(r, secret[s]) \in Secret /\ applySync(r, secret[s]) \in Secret
    BY <1>1, OutboxCallTypes
  <2> QED
    BY <1>1, <2>1, ReachType
<1>4. secret' \in [Subs -> Secret]
  BY <1>2, <1>3 DEF TypeOK
<1>5. outbox' \in [Subs -> [phase : Phases, snap : Row]]
  BY DEF TypeOK, OutboxApply, Phases
<1> QED
  BY <1>4, <1>5 DEF TypeOK, OutboxApply

\* The writes of the outbox keep the types.
LEMMA OutboxWriteType ==
  ASSUME NEW s \in Subs
  PROVE  TypeOK /\ (OutboxMarkSynced(s) \/ OutboxIncrRetry(s) \/ OutboxEscalate(s)) => TypeOK'
<1> SUFFICES ASSUME TypeOK, OutboxMarkSynced(s) \/ OutboxIncrRetry(s) \/ OutboxEscalate(s)
             PROVE  TypeOK'
  OBVIOUS
<1>1. row[s] \in Row
  BY DEF TypeOK
<1>2. /\ UpdateSyncStatus(row[s], "synced") \in Row
      /\ UpdateSyncStatus(row[s], "error") \in Row
      /\ IncrSyncRetry(row[s]) \in Row
  <2>1. "active" \in Status /\ "synced" \in SyncStatus /\ "error" \in SyncStatus
    BY DEF Status, SyncStatus
  <2> QED
    BY <1>1, <2>1, StoreTypes
<1>3. row' \in [Subs -> Row]
  BY <1>2 DEF TypeOK, OutboxMarkSynced, OutboxIncrRetry, OutboxEscalate
<1>4. outbox' \in [Subs -> [phase : Phases, snap : Row]]
  BY NotListedType DEF TypeOK, OutboxMarkSynced, OutboxIncrRetry, OutboxEscalate, Phases
<1> QED
  BY <1>3, <1>4 DEF TypeOK, OutboxMarkSynced, OutboxIncrRetry, OutboxEscalate

-----------------------------------------------------------------------------
(* Starting an operation stores a well-typed record in the worker. *)
LEMMA StartType ==
  ASSUME NEW w \in Workers, NEW op \in OpNames, NEW s \in Subs, NEW pc \in PCs,
         NEW copy \in Row, NEW p \in Plans \cup {""},
         TypeOK, Start(w, op, s, pc, copy, p)
  PROVE  work' \in [Workers -> Work]
<1>1. [op |-> op, sub |-> s, pc |-> pc, copy |-> copy, profile |-> p] \in Work
  BY DEF Work
<1> QED
  BY <1>1 DEF TypeOK, Start

\* The count of operations stays in its bound.
LEMMA CallType ==
  ASSUME NEW op, TypeOK, Call(op)
  PROVE  started' \in 0..MaxOps
<1>1. MaxOps \in Nat
  BY SyncAssumption
<1> QED
  BY <1>1 DEF TypeOK, Call

\* Moving a worker on keeps its type.
LEMMA GotoType ==
  ASSUME NEW w \in Workers, NEW pc \in PCs, TypeOK, Goto(w, pc)
  PROVE  work' \in [Workers -> Work]
  BY IdleType DEF TypeOK, Goto, Work

\* Isolation, suspension and settlement start with well typed copies.
LEMMA TransitionType ==
  ASSUME NEW w \in Workers, NEW s \in Subs, NEW op \in OpNames, NEW from, NEW to \in Status,
         NEW sy \in SyncStatus, TypeOK, Transition(w, s, op, from, to, sy)
  PROVE  TypeOK'
<1>1. [row[s] EXCEPT !.status = to, !.sync = sy] \in Row
  BY DEF TypeOK, Row
<1>2. started' \in 0..MaxOps
  BY CallType DEF Transition
<1>3. work' \in [Workers -> Work]
  BY <1>1, StartType DEF Transition, PCs
<1> QED
  BY <1>2, <1>3 DEF Transition, TypeOK

\* Every request and job starts with a well typed copy.
LEMMA BeginType ==
  ASSUME NEW w \in Workers, NEW s \in Subs, TypeOK, Begin(w, s)
  PROVE  TypeOK'
<1> USE DEF OpNames, PCs
<1>0. row[s] \in Row
  BY DEF TypeOK
<1>1. ASSUME NEW p \in Plans, Create(w, s, p) PROVE TypeOK'
  <2>1. NewRow("pending_install", p) \in Row /\ NewRow("active", p) \in Row
    BY NewRowType DEF Status
  <2>2. [NewRow("active", p) EXCEPT !.sync = "synced"] \in Row
    BY <2>1 DEF Row, SyncStatus
  <2>3. work' \in [Workers -> Work]
    BY <1>1, <2>2, StartType DEF Create
  <2>4. started' \in 0..MaxOps
    BY <1>1, CallType DEF Create
  <2> QED
    BY <1>1, <2>1, <2>3, <2>4 DEF Create, TypeOK
<1>2. ASSUME NEW p \in Plans, CompleteInstall(w, s, p) PROVE TypeOK'
  <2>1. NewRow("active", p) \in Row
    BY NewRowType DEF Status
  <2>2. work' \in [Workers -> Work]
    <3>1. CASE Start(w, "CompleteInstall", s, "save", NewRow("active", p), "")
      BY <3>1, <2>1, StartType
    <3>2. CASE work' = work
      BY <3>2 DEF TypeOK
    <3> QED
      BY <1>2, <3>1, <3>2 DEF CompleteInstall
  <2>3. started' \in 0..MaxOps
    BY <1>2, CallType DEF CompleteInstall
  <2> QED
    BY <1>2, <2>1, <2>2, <2>3 DEF CompleteInstall, TypeOK
<1>3. ASSUME NEW p \in Plans, Update(w, s, p) PROVE TypeOK'
  <2>1. [row[s] EXCEPT !.plan = p] \in Row
    BY <1>0 DEF Row
  <2>2. (IF p = row[s].plan THEN "" ELSE p) \in Plans \cup {""}
    OBVIOUS
  <2>3. work' \in [Workers -> Work]
    BY <1>3, <2>1, <2>2, StartType DEF Update
  <2>4. started' \in 0..MaxOps
    BY <1>3, CallType DEF Update
  <2> QED
    BY <1>3, <2>3, <2>4 DEF Update, TypeOK
<1>4. ASSUME NEW st \in Status, PatchStatus(w, s, st) PROVE TypeOK'
  <2>1. [row[s] EXCEPT !.status = st] \in Row
    BY <1>0 DEF Row
  <2>2. work' \in [Workers -> Work]
    BY <1>4, <2>1, StartType DEF PatchStatus
  <2>3. started' \in 0..MaxOps
    BY <1>4, CallType DEF PatchStatus
  <2> QED
    BY <1>4, <2>2, <2>3 DEF PatchStatus, TypeOK
<1>5. CASE Delete(w, s)
  <2>1. work' \in [Workers -> Work]
    BY <1>5, <1>0, StartType DEF Delete
  <2>2. started' \in 0..MaxOps
    BY <1>5, CallType DEF Delete
  <2>3. row' \in [Subs -> Row]
    BY <1>5 DEF Delete, TypeOK, Row
  <2> QED
    BY <1>5, <2>1, <2>2, <2>3 DEF Delete, TypeOK
<1>6. CASE Reconcile(w, s)
  <2>1. work' \in [Workers -> Work]
    BY <1>6, <1>0, StartType DEF Reconcile
  <2>2. started' \in 0..MaxOps
    BY <1>6, CallType DEF Reconcile
  <2> QED
    BY <1>6, <2>1, <2>2 DEF Reconcile, TypeOK
<1>7. CASE SuspensionIsolir(w, s)
  BY <1>7, TransitionType DEF SuspensionIsolir, Status, SyncStatus, Pending
<1>8. CASE SuspensionSuspend(w, s)
  BY <1>8, TransitionType DEF SuspensionSuspend, Status, SyncStatus, Pending
<1>9. CASE ApplySettlement(w, s)
  BY <1>9, TransitionType DEF ApplySettlement, Status, SyncStatus, Pending
<1>10. CASE ReconcilerRun(w, s)
  <2>1. [row[s] EXCEPT !.sync = "pending_profile_change"] \in Row
    BY <1>0 DEF Row, SyncStatus, Pending
  <2>2. work' \in [Workers -> Work]
    BY <1>10, <2>1, StartType DEF ReconcilerRun
  <2> QED
    BY <1>10, <2>2 DEF ReconcilerRun, TypeOK
<1> QED
  BY <1>1, <1>2, <1>3, <1>4, <1>5, <1>6, <1>7, <1>8, <1>9, <1>10 DEF Begin

\* Every later step of a worker keeps the types.
LEMMA WorkStepType ==
  ASSUME NEW w \in Workers, TypeOK, WorkStep(w)
  PROVE  TypeOK'
<1> USE DEF PCs
<1> DEFINE s == work[w].sub
<1>0. /\ s \in Subs /\ row[s] \in Row /\ secret[s] \in Secret
      /\ work[w].copy \in Row /\ work[w].profile \in Plans \cup {""}
      /\ work[w].copy.status \in Status /\ work[w].copy.sync \in SyncStatus
  BY DEF TypeOK, Work, Row
<1>1. CASE TryProvision(w)
  <2>1. doCreate(work[w].copy, secret[s]) \in Secret
    BY <1>0, OutboxCallTypes
  <2>2. PICK sec \in Reach(secret[s], secret[s], doCreate(work[w].copy, secret[s])) :
          secret' = [secret EXCEPT ![s] = sec]
    BY <1>1 DEF TryProvision
  <2>3. secret' \in [Subs -> Secret]
    BY <1>0, <2>1, <2>2, ReachType DEF TypeOK
  <2>4. work' \in [Workers -> Work]
    <3>1. (IF link = "up" /\ ~secret[s].present THEN "status" ELSE "idle") \in PCs
      OBVIOUS
    <3> QED
      BY <1>1, <3>1, GotoType DEF TryProvision
  <2> QED
    BY <1>1, <2>3, <2>4 DEF TryProvision, TypeOK
<1>2. CASE WriteStatus(w)
  <2>1. UpdateStatus(row[s], work[w].copy.status) \in Row
    BY <1>0, StoreTypes
  <2>2. row' \in [Subs -> Row]
    BY <1>2, <1>0, <2>1 DEF WriteStatus, TypeOK
  <2>3. work' \in [Workers -> Work]
    <3>1. (IF ~row[s].live THEN "idle"
           ELSE IF work[w].op = "PatchStatus" THEN "push" ELSE "sync") \in PCs
      OBVIOUS
    <3> QED
      BY <1>2, <3>1, GotoType DEF WriteStatus
  <2> QED
    BY <1>2, <2>2, <2>3 DEF WriteStatus, TypeOK
<1>3. CASE WriteSyncStatus(w)
  <2>1. UpdateSyncStatus(row[s], work[w].copy.sync) \in Row
    BY <1>0, StoreTypes
  <2>2. row' \in [Subs -> Row]
    BY <1>3, <1>0, <2>1 DEF WriteSyncStatus, TypeOK
  <2>3. work' \in [Workers -> Work]
    BY <1>3, GotoType DEF WriteSyncStatus
  <2> QED
    BY <1>3, <2>2, <2>3 DEF WriteSyncStatus, TypeOK
<1>4. CASE SaveRow(w)
  <2>1. row' \in [Subs -> Row]
    BY <1>4, <1>0 DEF SaveRow, Save, TypeOK
  <2>2. work' \in [Workers -> Work]
    <3>1. (IF work[w].op = "Update" THEN "push" ELSE "idle") \in PCs
      OBVIOUS
    <3> QED
      BY <1>4, <3>1, GotoType DEF SaveRow
  <2> QED
    BY <1>4, <2>1, <2>2 DEF SaveRow, TypeOK
<1>5. CASE PushToRouter(w)
  <2>1. pushed(w, secret[s]) \in Secret /\ pushedPart(w, secret[s]) \in Secret
    BY <1>0, HandlerCallTypes DEF pushed, pushedPart
  <2>2. PICK sec \in Reach(secret[s], pushedPart(w, secret[s]), pushed(w, secret[s])) :
          secret' = [secret EXCEPT ![s] = sec]
    BY <1>5 DEF PushToRouter
  <2>3. secret' \in [Subs -> Secret]
    BY <1>0, <2>1, <2>2, ReachType DEF TypeOK
  <2>4. work' \in [Workers -> Work]
    BY <1>5, GotoType DEF PushToRouter
  <2> QED
    BY <1>5, <2>3, <2>4 DEF PushToRouter, TypeOK
<1>6. CASE TryRemove(w)
  <2>1. PICK sec \in Reach(secret[s], secret[s], Absent) : secret' = [secret EXCEPT ![s] = sec]
    BY <1>6 DEF TryRemove
  <2>2. secret' \in [Subs -> Secret]
    BY <1>0, <2>1, AbsentType, ReachType DEF TypeOK
  <2>3. work' \in [Workers -> Work]
    BY <1>6, GotoType DEF TryRemove
  <2> QED
    BY <1>6, <2>2, <2>3 DEF TryRemove, TypeOK
<1>7. CASE CheckDrift(w)
  <2>1. work' \in [Workers -> Work]
    <3>1. (IF link = "up" /\ drift(work[w].copy, secret[s]) THEN "sync" ELSE "idle") \in PCs
      OBVIOUS
    <3> QED
      BY <1>7, <3>1, GotoType DEF CheckDrift
  <2> QED
    BY <1>7, <2>1 DEF CheckDrift, TypeOK
<1> QED
  BY <1>1, <1>2, <1>3, <1>4, <1>5, <1>6, <1>7 DEF WorkStep

\* Bulk deletion, the link, edits by hand and restarts keep the types.
LEMMA EnvironmentType ==
  ASSUME TypeOK,
         \/ \E ids \in SUBSET Subs \ {{}} : BatchDelete(ids)
         \/ LinkChange
         \/ \E s \in Subs : Tamper(s)
         \/ Restart
  PROVE  TypeOK'
<1>1. ASSUME NEW ids \in SUBSET Subs, BatchDelete(ids) PROVE TypeOK'
  <2>1. \A s \in Subs : [row[s] EXCEPT !.live = FALSE] \in Row
    BY DEF TypeOK, Row
  <2>2. row' \in [Subs -> Row]
    BY <1>1, <2>1 DEF BatchDelete, TypeOK
  <2>3. started' \in 0..MaxOps
    BY <1>1, CallType DEF BatchDelete
  <2> QED
    BY <1>1, <2>2, <2>3 DEF BatchDelete, TypeOK
<1>2. CASE LinkChange
  BY <1>2 DEF LinkChange, TypeOK
<1>3. ASSUME NEW s \in Subs, Tamper(s) PROVE TypeOK'
  <2>1. PICK sec \in {Absent, [secret[s] EXCEPT !.disabled = ~@]} :
          secret' = [secret EXCEPT ![s] = sec]
    BY <1>3 DEF Tamper
  <2>2. sec \in Secret
    BY <2>1, AbsentType DEF TypeOK, Secret
  <2>3. started' \in 0..MaxOps
    BY <1>3, CallType DEF Tamper
  <2> QED
    BY <1>3, <2>1, <2>2, <2>3 DEF Tamper, TypeOK
<1>4. CASE Restart
  <2>1. started' \in 0..MaxOps
    BY <1>4, CallType DEF Restart
  <2> QED
    BY <1>4, <2>1, NotListedType, IdleType DEF Restart, TypeOK
<1> QED
  BY <1>1, <1>2, <1>3, <1>4

\* Every step keeps the types.
LEMMA NextType == TypeOK /\ [Next]_vars => TypeOK'
<1> SUFFICES ASSUME TypeOK, [Next]_vars PROVE TypeOK'
  OBVIOUS
<1>1. CASE OutboxStep
  BY <1>1, OutboxRunType, OutboxApplyType, OutboxWriteType DEF OutboxStep
<1>2. CASE \E w \in Workers : WorkStep(w) \/ \E s \in Subs : Begin(w, s)
  BY <1>2, WorkStepType, BeginType
<1>3. CASE \/ \E ids \in SUBSET Subs \ {{}} : BatchDelete(ids)
           \/ LinkChange
           \/ \E s \in Subs : Tamper(s)
           \/ Restart
  BY <1>3, EnvironmentType
<1>4. CASE UNCHANGED vars
  BY <1>4 DEF vars, TypeOK
<1> QED
  BY <1>1, <1>2, <1>3, <1>4 DEF Next

(***************************************************************************)
(* Every row, secret, outbox snapshot and copy held by a request keeps its *)
(* type: in particular no statement ever writes a sync_status that         *)
(* OutboxJob.applySync has no branch for, which would be taken for done.   *)
(***************************************************************************)
THEOREM TypeCorrect == Spec => []TypeOK
  BY InitType, NextType, PTL DEF Spec

-----------------------------------------------------------------------------
\* A subscription in agreement that nobody works on is in order.
LEMMA SettledIsGood ==
  ASSUME NEW s \in Subs, Settled(s)
  PROVE  Good(s)
  BY DEF Settled, Good, Quiet, Overlap, Coherent

(* A step that changes nothing of s. *)
LEMMA Frame ==
  ASSUME NEW s \in Subs, Good(s), ~Overlap(s)',
         row'[s] = row[s], secret'[s] = secret[s], outbox'[s] = outbox[s],
         \A w \in Workers : (work'[w].pc # "idle" /\ work'[w].sub = s) <=> WorksOn(w, s),
         \A w \in Workers : WorksOn(w, s) => work'[w] = work[w]
  PROVE  Good(s)'
<1>1. \A w \in Workers : WorksOn(w, s)' <=> WorksOn(w, s)
  BY DEF WorksOn
<1>2. OutboxOn(s)' <=> OutboxOn(s)
  BY DEF OutboxOn
<1> QED
  BY <1>1, <1>2 DEF Good

(* Who works on an unexcused subscription is alone. *)
LEMMA Sole ==
  ASSUME NEW s \in Subs, Good(s), NEW w \in Workers, WorksOn(w, s)
  PROVE  /\ ~OutboxOn(s)
         /\ \A v \in Workers : v # w => ~WorksOn(v, s)
         /\ WorkerHolds(work[w], row[s], secret[s])
  BY DEF Good, Overlap

(* The lone worker ends its operation. *)
LEMMA LoneIdle ==
  ASSUME NEW s \in Subs, NEW w \in Workers, TypeOK, ~Overlap(s)', ~OutboxOn(s),
         \A v \in Workers : v # w => ~WorksOn(v, s),
         work' = [work EXCEPT ![w] = Idle], outbox' = outbox,
         row'[s].live => Coherent(row'[s], secret'[s])
  PROVE  Good(s)'
<1>1. \A v \in Workers : ~WorksOn(v, s)'
  BY DEF WorksOn, Idle, TypeOK
<1>2. ~OutboxOn(s)'
  BY DEF OutboxOn
<1> QED
  BY <1>1, <1>2 DEF Good

(* The lone worker goes on to hold k. *)
LEMMA LoneHolds ==
  ASSUME NEW s \in Subs, NEW w \in Workers, NEW k, TypeOK, ~Overlap(s)', ~OutboxOn(s),
         \A v \in Workers : v # w => ~WorksOn(v, s),
         work' = [work EXCEPT ![w] = k], k.pc # "idle", k.sub = s, outbox' = outbox,
         WorkerHolds(k, row'[s], secret'[s])
  PROVE  Good(s)'
<1>1. \A v \in Workers : v # w => ~WorksOn(v, s)'
  BY DEF WorksOn, TypeOK
<1>2. ~OutboxOn(s)'
  BY DEF OutboxOn
<1>3. work'[w] = k /\ WorksOn(w, s)'
  BY DEF WorksOn, TypeOK
<1> QED
  BY <1>1, <1>2, <1>3 DEF Good

-----------------------------------------------------------------------------
(* The outbox. *)

\* Listing a batch takes snapshots that equal the rows.
LEMMA OutboxRunGood ==
  ASSUME NEW s \in Subs, TypeOK, Good(s), ~Overlap(s)', OutboxRun
  PROVE  Good(s)'
<1>1. PICK batch \in SUBSET ListPendingSync :
        outbox' = [t \in Subs |-> IF t \in batch THEN [phase |-> "queued", snap |-> row[t]]
                                                 ELSE NotListed]
  BY DEF OutboxRun
<1>2. \A w \in Workers : WorksOn(w, s)' <=> WorksOn(w, s)
  BY DEF OutboxRun, WorksOn
<1>3. CASE s \in batch
  <2>1. outbox'[s] = [phase |-> "queued", snap |-> row[s]] /\ OutboxOn(s)'
    BY <1>1, <1>3 DEF OutboxOn
  <2>2. \A w \in Workers : ~WorksOn(w, s)
    BY <1>2, <2>1 DEF Overlap
  <2>3. row[s].live /\ row[s].sync \in Pending
    BY <1>3 DEF ListPendingSync, TypeOK, Row, SyncStatus
  <2>4. Coherent(row[s], secret[s])
    BY <2>2, <2>3 DEF Good
  <2>5. OutboxHolds(outbox'[s], row[s], secret[s])
    BY <2>1, <2>3, <2>4 DEF OutboxHolds
  <2> QED
    BY <1>2, <2>2, <2>4, <2>5 DEF Good, OutboxRun
<1>4. CASE s \notin batch
  <2>1. ~OutboxOn(s)'
    BY <1>1, <1>4 DEF OutboxOn, NotListed
  <2> QED
    BY <1>2, <2>1 DEF Good, OutboxRun
<1> QED
  BY <1>3, <1>4

(* The effect of applySync on a coherent row: a success that is no excuse   *)
(* agrees, and whatever a failure leaves behind is still coherent.          *)
LEMMA ApplyEffect ==
  ASSUME NEW r \in Row, NEW c \in Secret, Coherent(r, c), r.sync \in Pending,
         NEW d \in Reach(c, applySyncPart(r, c), applySync(r, c))
  PROVE  /\ Coherent(r, d)
         /\ applySyncOK(r, c) /\ link # "gone" /\ (r.sync \in {"pending_profile_change", "pending_enable"} => c.present)
              => Agrees(r, d)
<1> USE DEF Reach, Coherent, Agrees, applySyncOK, Row, Secret
<1>1. CASE r.sync = "pending_create"
  BY <1>1 DEF applySync, applySyncPart, doCreate, AddSecret
<1>2. CASE r.sync = "pending_profile_change"
  BY <1>2 DEF applySync, applySyncPart, doProfileChange, SetProfile, targetProfile
<1>3. CASE r.sync = "pending_disable"
  BY <1>3 DEF applySync, applySyncPart, SetDisabled
<1>4. CASE r.sync = "pending_enable"
  BY <1>4 DEF applySync, applySyncPart, doEnable, doProfileChange, SetProfile, SetDisabled, targetProfile
<1> QED
  BY <1>1, <1>2, <1>3, <1>4 DEF Pending

(* A step on another subscription is a frame step. *)
LEMMA OutboxElsewhere ==
  ASSUME NEW s \in Subs, NEW t \in Subs, t # s, TypeOK, Good(s), ~Overlap(s)',
         OutboxApply(t) \/ OutboxMarkSynced(t) \/ OutboxIncrRetry(t) \/ OutboxEscalate(t)
  PROVE  Good(s)'
<1>1. row'[s] = row[s] /\ outbox'[s] = outbox[s] /\ work' = work
  BY DEF OutboxApply, OutboxMarkSynced, OutboxIncrRetry, OutboxEscalate, TypeOK
<1>2. secret'[s] = secret[s]
  BY DEF OutboxApply, OutboxMarkSynced, OutboxIncrRetry, OutboxEscalate, TypeOK
<1> QED
  BY <1>1, <1>2, Frame DEF WorksOn

\* The outbox working on s keeps it in order, unless a cause of drift occurs.
LEMMA OutboxStepGood ==
  ASSUME NEW s \in Subs, TypeOK, Good(s), ~Cause(s),
         OutboxApply(s) \/ OutboxMarkSynced(s) \/ OutboxIncrRetry(s) \/ OutboxEscalate(s)
  PROVE  Good(s)'
<1> DEFINE r == row[s]
           c == secret[s]
<1>1. OutboxOn(s)
  BY DEF OutboxApply, OutboxMarkSynced, OutboxIncrRetry, OutboxEscalate, OutboxOn
<1>2. r \in Row /\ c \in Secret /\ outbox[s].snap \in Row
  BY DEF TypeOK
<1>3. OutboxHolds(outbox[s], r, c) /\ ~Overlap(s)'
  BY <1>1 DEF Good, Cause
<1>4. \A w \in Workers : ~WorksOn(w, s) /\ ~WorksOn(w, s)'
  BY <1>1 DEF Good, Overlap, WorksOn, OutboxApply, OutboxMarkSynced, OutboxIncrRetry, OutboxEscalate
<1>5. CASE OutboxApply(s)
  <2>1. outbox[s].snap = r /\ Coherent(r, c) /\ r.sync \in Pending /\ r.live
    BY <1>3, <1>5 DEF OutboxApply, OutboxHolds
  <2>2. PICK d \in Reach(c, applySyncPart(r, c), applySync(r, c)) : secret' = [secret EXCEPT ![s] = d]
    BY <1>5, <2>1 DEF OutboxApply
  <2>3. secret'[s] = d /\ row'[s] = r
    BY <1>5, <2>2 DEF OutboxApply, TypeOK
  <2>4. outbox'[s] = [phase |-> IF applySyncOK(r, c) THEN "applied" ELSE "failed", snap |-> r]
    BY <1>5, <2>1 DEF OutboxApply, TypeOK
  <2>5. Coherent(r, d)
    BY <1>2, <2>1, ApplyEffect
  <2>6. applySyncOK(r, c) => Agrees(r, d)
    <3>1. SUFFICES ASSUME applySyncOK(r, c) PROVE Agrees(r, d)
      OBVIOUS
    <3>2. outbox[s].phase = "queued" /\ outbox'[s].phase = "applied"
      BY <3>1, <1>5, <2>4 DEF OutboxApply
    <3>3. link # "gone"
      BY <3>2 DEF Cause, Skipped
    <3>4. r.sync \in {"pending_profile_change", "pending_enable"} => c.present
      BY <3>2, <2>1 DEF Cause, NotFound
    <3> QED
      BY <1>2, <2>1, <3>1, <3>3, <3>4, ApplyEffect
  <2>7. OutboxHolds(outbox'[s], r, d)
    BY <2>1, <2>4, <2>5, <2>6 DEF OutboxHolds
  <2> QED
    BY <1>3, <1>4, <2>3, <2>5, <2>7 DEF Good
<1>6. CASE OutboxMarkSynced(s)
  <2>1. r.live /\ Agrees(r, c)
    BY <1>3, <1>6 DEF OutboxMarkSynced, OutboxHolds
  <2>2. row'[s] = [r EXCEPT !.sync = "synced", !.retry = 0]
    BY <1>6, <1>2, <2>1 DEF OutboxMarkSynced, UpdateSyncStatus, TypeOK, Row
  <2>3. Coherent(row'[s], c)
    BY <1>2, <2>1, <2>2 DEF Coherent, Agrees, Row
  <2>4. ~OutboxOn(s)' /\ secret' = secret
    BY <1>6 DEF OutboxMarkSynced, OutboxOn, NotListed, TypeOK
  <2> QED
    BY <1>3, <1>4, <2>3, <2>4 DEF Good
<1>7. CASE OutboxIncrRetry(s)
  <2>1. r.live /\ Coherent(r, c) /\ r.sync \in Pending
    BY <1>3, <1>7 DEF OutboxIncrRetry, OutboxHolds
  <2>2. row'[s] = [r EXCEPT !.retry = r.retry + 1] /\ secret' = secret
    BY <1>7, <1>2, <2>1 DEF OutboxIncrRetry, IncrSyncRetry, TypeOK, Row
  <2>3. Coherent(row'[s], c) /\ row'[s].live /\ row'[s].sync \in Pending
    BY <1>2, <2>1, <2>2 DEF Coherent, Agrees, Row
  <2>4. outbox'[s].phase \in {"none", "escalate"}
    BY <1>7 DEF OutboxIncrRetry, NotListed, TypeOK
  <2>5. OutboxHolds(outbox'[s], row'[s], c)
    BY <2>3, <2>4 DEF OutboxHolds
  <2> QED
    BY <1>3, <1>4, <2>2, <2>3, <2>5 DEF Good
<1>8. CASE OutboxEscalate(s)
  <2>1. r.live
    BY <1>3, <1>8 DEF OutboxEscalate, OutboxHolds
  <2>2. row'[s].sync = "error"
    BY <1>8, <1>2, <2>1 DEF OutboxEscalate, UpdateSyncStatus, TypeOK, Row
  <2>3. Coherent(row'[s], c)
    BY <2>2 DEF Coherent
  <2>4. ~OutboxOn(s)' /\ secret' = secret
    BY <1>8 DEF OutboxEscalate, OutboxOn, NotListed, TypeOK
  <2> QED
    BY <1>3, <1>4, <2>3, <2>4 DEF Good
<1> QED
  BY <1>5, <1>6, <1>7, <1>8

-----------------------------------------------------------------------------
(* Steps of requests and jobs under way. *)

\* A worker on another subscription does not disturb s.
LEMMA WorkElsewhere ==
  ASSUME NEW s \in Subs, NEW w \in Workers, work[w].sub # s, TypeOK, Good(s), ~Overlap(s)', WorkStep(w)
  PROVE  Good(s)'
<1> USE DEF WorkStep, TryProvision, WriteStatus, WriteSyncStatus, SaveRow, PushToRouter, TryRemove, CheckDrift
<1>1. row'[s] = row[s]
  BY DEF TypeOK
<1>2. secret'[s] = secret[s]
  BY DEF TypeOK
<1>3. outbox' = outbox
  OBVIOUS
<1>4. PICK pc \in PCs : Goto(w, pc)
  BY DEF PCs
<1>5. work' = [work EXCEPT ![w] = IF pc = "idle" THEN Idle ELSE [work[w] EXCEPT !.pc = pc]]
  BY <1>4 DEF Goto
<1>6. \A v \in Workers : v # w => work'[v] = work[v]
  BY <1>5 DEF TypeOK
<1>7. ~(work'[w].pc # "idle" /\ work'[w].sub = s) /\ ~WorksOn(w, s)
  BY <1>5 DEF TypeOK, Work, Idle, WorksOn
<1>8. \A v \in Workers : (work'[v].pc # "idle" /\ work'[v].sub = s) <=> WorksOn(v, s)
  BY <1>6, <1>7 DEF WorksOn
<1>9. \A v \in Workers : WorksOn(v, s) => work'[v] = work[v]
  BY <1>6, <1>7
<1> QED
  BY <1>1, <1>2, <1>3, <1>8, <1>9, Frame

\* The two forms of Goto, and what it leaves alone.
LEMMA GotoForms ==
  ASSUME NEW w \in Workers, NEW pc, TypeOK, Goto(w, pc)
  PROVE  /\ pc = "idle" => work' = [work EXCEPT ![w] = Idle]
         /\ pc # "idle" => work' = [work EXCEPT ![w] = [work[w] EXCEPT !.pc = pc]]
         /\ work'[w].pc = pc
<1>1. work[w] \in Work /\ work \in [Workers -> Work]
  BY DEF TypeOK
<1>2. pc = "idle" => work'[w].pc = pc
  BY <1>1 DEF Goto, Idle
<1>3. pc # "idle" => work'[w] = [work[w] EXCEPT !.pc = pc]
  BY <1>1 DEF Goto
<1>4. pc # "idle" => work'[w].pc = pc
  BY <1>1, <1>3 DEF Work
<1> QED
  BY <1>2, <1>4 DEF Goto

(* The lone worker goes on to pc with the copy it holds. *)
LEMMA LoneGoes ==
  ASSUME NEW s \in Subs, NEW w \in Workers, NEW pc, TypeOK, ~Overlap(s)', ~OutboxOn(s),
         \A v \in Workers : v # w => ~WorksOn(v, s), work[w].sub = s, pc # "idle",
         Goto(w, pc), outbox' = outbox,
         ASSUME NEW m, m.pc = pc, m.op = work[w].op, m.copy = work[w].copy, m.profile = work[w].profile
         PROVE  WorkerHolds(m, row'[s], secret'[s])
  PROVE  Good(s)'
<1> DEFINE m == [work[w] EXCEPT !.pc = pc]
<1>1. work' = [work EXCEPT ![w] = m]
  BY GotoForms
<1>2. /\ m.pc = pc /\ m.op = work[w].op /\ m.copy = work[w].copy /\ m.profile = work[w].profile
      /\ m.sub = s
  BY DEF TypeOK, Work
<1> HIDE DEF m
<1>3. WorkerHolds(m, row'[s], secret'[s])
  BY <1>2
<1> QED
  BY <1>1, <1>2, <1>3, LoneHolds

\* tryProvisionOnRouter.
LEMMA ProvisionGood ==
  ASSUME NEW s \in Subs, NEW w \in Workers, work[w].sub = s, TypeOK, Good(s), ~Cause(s), TryProvision(w)
  PROVE  Good(s)'
<1> DEFINE r == row[s]
           c == secret[s]
           k == work[w]
<1>1. WorksOn(w, s) /\ k.pc = "provision"
  BY DEF WorksOn, TryProvision
<1>2. /\ ~OutboxOn(s) /\ \A v \in Workers : v # w => ~WorksOn(v, s)
      /\ WorkerHolds(k, r, c) /\ ~Overlap(s)'
  BY <1>1, Sole DEF Cause
<1>3. /\ k.op = "Create" /\ r.live /\ r.status = "pending_install" /\ r.sync = "pending_create"
      /\ k.copy.plan = r.plan /\ k.copy.status = "active" /\ k.copy.sync = "synced"
  BY <1>1, <1>2 DEF WorkerHolds
<1>4. row' = row /\ outbox' = outbox /\ r \in Row /\ c \in Secret /\ k \in Work
  BY DEF TryProvision, TypeOK
<1>5. CASE ~(link = "up" /\ ~c.present)
  <2>1. work' = [work EXCEPT ![w] = Idle]
    BY <1>5, GotoForms DEF TryProvision
  <2>2. Coherent(r, secret'[s])
    BY <1>3 DEF Coherent
  <2> QED
    BY <1>2, <1>4, <2>1, <2>2, LoneIdle
<1>6. CASE link = "up" /\ ~c.present
  <2>1. Goto(w, "status")
    BY <1>6 DEF TryProvision
  <2>2. secret'[s] = AddSecret(r.plan, FALSE)
    BY <1>6, <1>3 DEF TryProvision, Reach, doCreate, TypeOK
  <2>3. Coherent([r EXCEPT !.status = "active", !.sync = "synced"], secret'[s])
    BY <1>4, <2>2 DEF Coherent, Agrees, AddSecret, Row
  <2>4. ASSUME NEW m, m.pc = "status", m.op = k.op, m.copy = k.copy, m.profile = k.profile
        PROVE  WorkerHolds(m, row'[s], secret'[s])
    <3>1. m.op = "Create" /\ row'[s] = r /\ m.copy.status = "active" /\ m.copy.sync = "synced"
      BY <1>3, <1>4, <2>4
    <3>2. Coherent([row'[s] EXCEPT !.status = m.copy.status, !.sync = m.copy.sync], secret'[s])
      BY <2>3, <3>1
    <3> QED
      BY <1>3, <2>4, <3>1, <3>2 DEF WorkerHolds
  <2> QED
    BY <1>2, <1>4, <2>1, <2>4, LoneGoes
<1> QED
  BY <1>5, <1>6

\* The write of a status (UpdateStatus).
LEMMA WriteStatusGood ==
  ASSUME NEW s \in Subs, NEW w \in Workers, work[w].sub = s, TypeOK, Good(s), ~Cause(s), WriteStatus(w)
  PROVE  Good(s)'
<1> DEFINE r == row[s]
           c == secret[s]
           k == work[w]
           st == k.copy.status
<1>1. WorksOn(w, s) /\ k.pc = "status"
  BY DEF WorksOn, WriteStatus
<1>2. /\ ~OutboxOn(s) /\ \A v \in Workers : v # w => ~WorksOn(v, s)
      /\ WorkerHolds(k, r, c) /\ ~Overlap(s)'
  BY <1>1, Sole DEF Cause
<1>3. /\ r.live
      /\ k.op \in {"Create", "PatchStatus", "isolir", "suspend", "settle"}
      /\ k.op = "PatchStatus" => Coherent(r, c) /\ k.copy = [r EXCEPT !.status = st]
      /\ k.op = "Create" \/ (k.op # "PatchStatus" /\ r.sync = "synced") =>
           Coherent([r EXCEPT !.status = st, !.sync = k.copy.sync], c)
  BY <1>1, <1>2 DEF WorkerHolds
<1>4. secret' = secret /\ outbox' = outbox /\ r \in Row /\ c \in Secret /\ k \in Work /\ st \in Status
  BY DEF WriteStatus, TypeOK, Work, Row
<1>5. row'[s] = [r EXCEPT !.status = st]
  BY <1>3 DEF WriteStatus, UpdateStatus, TypeOK
<1>6. Goto(w, IF k.op = "PatchStatus" THEN "push" ELSE "sync")
  BY <1>3 DEF WriteStatus
<1>7. k.op = "Create" \/ r.sync = "synced"
  <2>1. work'[w].pc # k.pc
    BY <1>1, <1>6, GotoForms
  <2> QED
    BY <1>1, <2>1 DEF Cause, Superseded
<1>8. CASE k.op = "PatchStatus"
  <2>0. k.copy = row'[s] /\ row'[s].live /\ row'[s].sync = "synced"
    BY <1>3, <1>4, <1>5, <1>7, <1>8 DEF Row
  <2>1. ASSUME NEW m, m.pc = "push", m.op = k.op, m.copy = k.copy, m.profile = k.profile
        PROVE  WorkerHolds(m, row'[s], secret'[s])
    BY <1>8, <2>0, <2>1 DEF WorkerHolds
  <2> QED
    BY <1>2, <1>4, <1>6, <1>8, <2>1, LoneGoes
<1>9. CASE k.op # "PatchStatus"
  <2>1. Coherent([row'[s] EXCEPT !.sync = k.copy.sync], secret'[s])
    BY <1>3, <1>4, <1>5, <1>7, <1>9 DEF Row
  <2>2. row'[s].live
    BY <1>3, <1>4, <1>5 DEF Row
  <2>3. ASSUME NEW m, m.pc = "sync", m.op = k.op, m.copy = k.copy, m.profile = k.profile
        PROVE  WorkerHolds(m, row'[s], secret'[s])
    BY <2>1, <2>2, <2>3 DEF WorkerHolds
  <2> QED
    BY <1>2, <1>4, <1>6, <1>9, <2>3, LoneGoes
<1> QED
  BY <1>8, <1>9

\* The write of a flag (UpdateSyncStatus).
LEMMA WriteSyncStatusGood ==
  ASSUME NEW s \in Subs, NEW w \in Workers, work[w].sub = s, TypeOK, Good(s), ~Cause(s), WriteSyncStatus(w)
  PROVE  Good(s)'
<1> DEFINE r == row[s]
           c == secret[s]
           k == work[w]
<1>1. WorksOn(w, s) /\ k.pc = "sync"
  BY DEF WorksOn, WriteSyncStatus
<1>2. /\ ~OutboxOn(s) /\ \A v \in Workers : v # w => ~WorksOn(v, s)
      /\ WorkerHolds(k, r, c) /\ ~Overlap(s)'
  BY <1>1, Sole DEF Cause
<1>3. r.live /\ Coherent([r EXCEPT !.sync = k.copy.sync], c)
  BY <1>1, <1>2 DEF WorkerHolds
<1>4. secret' = secret /\ outbox' = outbox /\ r \in Row
  BY DEF WriteSyncStatus, TypeOK
<1>5. row'[s] = [r EXCEPT !.sync = k.copy.sync, !.retry = IF k.copy.sync = "synced" THEN 0 ELSE r.retry]
  BY <1>3 DEF WriteSyncStatus, UpdateSyncStatus, TypeOK
<1>6. Coherent(row'[s], c)
  BY <1>3, <1>4, <1>5 DEF Coherent, Agrees, Row
<1>7. work' = [work EXCEPT ![w] = Idle]
  BY GotoForms DEF WriteSyncStatus
<1> QED
  BY <1>2, <1>4, <1>6, <1>7, LoneIdle

\* The save of a whole row (Update, CompleteInstall).
LEMMA SaveRowGood ==
  ASSUME NEW s \in Subs, NEW w \in Workers, work[w].sub = s, TypeOK, Good(s), ~Cause(s), SaveRow(w)
  PROVE  Good(s)'
<1> DEFINE r == row[s]
           c == secret[s]
           k == work[w]
<1>1. WorksOn(w, s) /\ k.pc = "save"
  BY DEF WorksOn, SaveRow
<1>2. /\ ~OutboxOn(s) /\ \A v \in Workers : v # w => ~WorksOn(v, s)
      /\ WorkerHolds(k, r, c) /\ ~Overlap(s)'
  BY <1>1, Sole DEF Cause
<1>3. /\ r.live /\ Coherent(r, c)
      /\ k.copy = [r EXCEPT !.plan = k.copy.plan]
      /\ k.profile = "" => k.copy = r
      /\ k.profile # "" => k.profile = k.copy.plan
      /\ k.op # "Update" => k.copy = r
  BY <1>1, <1>2 DEF WorkerHolds
<1>4. /\ secret' = secret /\ outbox' = outbox /\ r \in Row /\ row'[s] = k.copy
      /\ k.copy \in Row
  BY DEF SaveRow, Save, TypeOK, Work
<1>5. CASE k.op = "Update"
  <2>1. Goto(w, "push")
    BY <1>5 DEF SaveRow
  <2>2. row'[s].live
    BY <1>3, <1>4 DEF Row
  <2>3. r.plan \in Plans /\ [k.copy EXCEPT !.plan = r.plan] = r
    BY <1>3, <1>4 DEF Row
  <2>4. \E q \in Plans : Coherent([row'[s] EXCEPT !.plan = q], c)
    <3>1. Coherent([row'[s] EXCEPT !.plan = r.plan], c)
      <4>1. [row'[s] EXCEPT !.plan = r.plan] = r
        BY <1>4, <2>3
      <4> HIDE DEF r
      <4> QED
        BY <1>3, <4>1
    <3> QED
      BY <2>3, <3>1
  <2>5. ASSUME NEW m, m.pc = "push", m.op = k.op, m.copy = k.copy, m.profile = k.profile
        PROVE  WorkerHolds(m, row'[s], secret'[s])
    <3>1. m.profile = "" => Coherent(row'[s], secret'[s])
      BY <1>3, <1>4, <2>5
    <3>2. m.profile # "" => m.profile = row'[s].plan
      BY <1>3, <1>4, <2>5
    <3>3. m.copy = row'[s] /\ secret'[s] = c
      BY <1>4, <2>5
    <3> QED
      BY <1>5, <2>2, <2>4, <2>5, <3>1, <3>2, <3>3 DEF WorkerHolds
  <2> QED
    BY <1>2, <1>4, <2>1, <2>5, LoneGoes
<1>6. CASE k.op # "Update"
  <2>1. work' = [work EXCEPT ![w] = Idle]
    BY <1>6, GotoForms DEF SaveRow
  <2> QED
    BY <1>2, <1>3, <1>4, <1>6, <2>1, LoneIdle
<1> QED
  BY <1>5, <1>6

(* A push that is no excuse leaves the router coherent with the row. *)
LEMMA PushEffect ==
  ASSUME NEW w \in Workers, NEW r \in Row, NEW c \in Secret, WorkerHolds(work[w], r, c),
         work[w].pc = "push", work[w].profile \in Plans \cup {""},
         ~(link # "up" /\ (work[w].op = "PatchStatus" \/ work[w].profile # "")),
         ~(work[w].op = "PatchStatus" /\ r.status = "isolir" /\ ~c.present),
         ~(work[w].profile # "" /\ r.status = "isolir"),
         NEW d \in Reach(c, pushedPart(w, c), pushed(w, c))
  PROVE  Coherent(r, d)
<1> DEFINE k == work[w]
<1>1. /\ r.live /\ k.copy = r /\ k.op \in {"PatchStatus", "Reconcile", "Update"}
      /\ k.op = "PatchStatus" => r.sync = "synced"
      /\ k.op = "Reconcile" => Coherent(r, c)
      /\ k.op = "Update" /\ k.profile = "" => Coherent(r, c)
      /\ k.op = "Update" /\ k.profile # "" =>
           k.profile = r.plan /\ \E q \in Plans : Coherent([r EXCEPT !.plan = q], c)
  BY DEF WorkerHolds
<1>2. CASE k.op = "Reconcile"
  <2>1. Coherent(r, c) /\ d \in {c, ensureRouterState(r)}
    BY <1>1, <1>2 DEF Reach, pushed, pushedPart
  <2>2. CASE d = c
    BY <2>1, <2>2
  <2>3. CASE d = ensureRouterState(r)
    BY <2>1, <2>3 DEF Coherent, Agrees, ensureRouterState, AddSecret, profileForStatus, disabledForStatus, Row
  <2> QED
    BY <2>1, <2>2, <2>3
<1>3. CASE k.op = "Update" /\ k.profile = ""
  <2>1. Coherent(r, c) /\ d \in {c, trySetOnRouter(r, "", c)}
    BY <1>1, <1>3 DEF Reach, pushed, pushedPart
  <2>2. CASE d = c \/ c.present
    BY <2>1, <2>2 DEF trySetOnRouter
  <2>3. CASE d = AddSecret("default", disabledForStatus(r)) /\ ~c.present
    BY <2>1, <2>3 DEF Coherent, Agrees, AddSecret, disabledForStatus, Row, Status
  <2> QED
    BY <2>1, <2>2, <2>3 DEF trySetOnRouter
<1>4. CASE k.op = "Update" /\ k.profile # ""
  <2>1. d = trySetOnRouter(r, r.plan, c) /\ r.plan # ""
    BY <1>1, <1>4 DEF Reach, pushed, pushedPart
  <2>2. PICK q \in Plans : Coherent([r EXCEPT !.plan = q], c)
    BY <1>1, <1>4
  <2>3. /\ r.sync = "synced" =>
             /\ r.status = "active" => c.present /\ ~c.disabled
             /\ r.status \in {"suspended", "terminated"} => ~c.present \/ c.disabled
        /\ r.sync = "pending_create" => r.status \in {"pending_install", "active"}
        /\ r.sync = "pending_profile_change" =>
             r.status \in {"active", "isolir"} /\ (c.present => ~c.disabled)
        /\ r.sync = "pending_disable" => r.status = "suspended"
        /\ r.sync = "pending_enable" => r.status = "active"
    BY <2>2 DEF Coherent, Agrees, Row
  <2> QED
    BY <1>4, <2>1, <2>3 DEF Coherent, Agrees, trySetOnRouter, SetProfile, AddSecret, disabledForStatus,
                       Row, Secret
<1>5. CASE k.op = "PatchStatus"
  <2>1. d = trySyncStatus(r, c) /\ r.sync = "synced" /\ (r.status = "isolir" => c.present)
    BY <1>1, <1>5 DEF Reach, pushed, pushedPart
  <2>2. r.status \in {"terminated", "active"} => Agrees(r, d)
    BY <2>1 DEF Agrees, trySyncStatus, ensureRouterState, AddSecret, profileForStatus,
                disabledForStatus, Absent
  <2>3. r.status \notin {"terminated", "active"} => Agrees(r, d)
    BY <2>1 DEF Agrees, trySyncStatus, profileForStatus, disabledForStatus, SetProfile, SetDisabled,
                Row, Secret
  <2> QED
    BY <2>1, <2>2, <2>3 DEF Coherent
<1> QED
  BY <1>1, <1>2, <1>3, <1>4, <1>5

\* The push of a handler, one case per handler.
LEMMA PushGood ==
  ASSUME NEW s \in Subs, NEW w \in Workers, work[w].sub = s, TypeOK, Good(s), ~Cause(s), PushToRouter(w)
  PROVE  Good(s)'
<1> DEFINE r == row[s]
           c == secret[s]
           k == work[w]
<1>1. WorksOn(w, s) /\ k.pc = "push" /\ work'[w].pc = "idle"
  BY GotoForms DEF WorksOn, PushToRouter
<1>2. /\ ~OutboxOn(s) /\ \A v \in Workers : v # w => ~WorksOn(v, s)
      /\ WorkerHolds(k, r, c) /\ ~Overlap(s)'
  BY <1>1, Sole DEF Cause
<1>3. k.copy = r
  BY <1>1, <1>2 DEF WorkerHolds
<1>4. /\ ~(link # "up" /\ (k.op = "PatchStatus" \/ k.profile # ""))
      /\ ~(k.op = "PatchStatus" /\ r.status = "isolir" /\ ~c.present)
      /\ ~(k.profile # "" /\ r.status = "isolir")
  BY <1>1, <1>3 DEF Cause, NotPushed, Replanned
<1>5. row' = row /\ outbox' = outbox /\ r \in Row /\ c \in Secret /\ k.profile \in Plans \cup {""}
  BY DEF PushToRouter, TypeOK, Work
<1>6. PICK d \in Reach(c, pushedPart(w, c), pushed(w, c)) : secret' = [secret EXCEPT ![s] = d]
  BY DEF PushToRouter
<1>7. secret'[s] = d
  BY <1>6 DEF TypeOK
<1>8. Coherent(r, d)
  BY <1>1, <1>2, <1>4, <1>5, PushEffect
<1>9. work' = [work EXCEPT ![w] = Idle]
  BY GotoForms DEF PushToRouter
<1> QED
  BY <1>2, <1>5, <1>7, <1>8, <1>9, LoneIdle

\* tryRemoveOnRouter works on a row that is gone.
LEMMA RemoveGood ==
  ASSUME NEW s \in Subs, NEW w \in Workers, work[w].sub = s, TypeOK, Good(s), ~Cause(s), TryRemove(w)
  PROVE  Good(s)'
<1>1. WorksOn(w, s) /\ work[w].pc = "remove"
  BY DEF WorksOn, TryRemove
<1>2. /\ ~OutboxOn(s) /\ \A v \in Workers : v # w => ~WorksOn(v, s)
      /\ WorkerHolds(work[w], row[s], secret[s]) /\ ~Overlap(s)'
  BY <1>1, Sole DEF Cause
<1>3. ~row'[s].live /\ outbox' = outbox
  BY <1>1, <1>2 DEF WorkerHolds, TryRemove
<1>4. work' = [work EXCEPT ![w] = Idle]
  BY GotoForms DEF TryRemove
<1> QED
  BY <1>2, <1>3, <1>4, LoneIdle

\* The reconciler finds no drift where there is agreement.
LEMMA CheckDriftGood ==
  ASSUME NEW s \in Subs, NEW w \in Workers, work[w].sub = s, TypeOK, Good(s), ~Cause(s), CheckDrift(w)
  PROVE  Good(s)'
<1>1. WorksOn(w, s) /\ work[w].pc = "check"
  BY DEF WorksOn, CheckDrift
<1>2. /\ ~OutboxOn(s) /\ \A v \in Workers : v # w => ~WorksOn(v, s)
      /\ WorkerHolds(work[w], row[s], secret[s]) /\ ~Overlap(s)'
  BY <1>1, Sole DEF Cause
<1>3. /\ row[s].sync = "synced" /\ Agrees(row[s], secret[s])
      /\ work[w].copy.status = row[s].status /\ row[s].status \in {"active", "isolir", "suspended"}
  BY <1>1, <1>2 DEF WorkerHolds
<1>4. secret[s] \in Secret
  BY DEF TypeOK
<1>5. ~drift(work[w].copy, secret[s])
  BY <1>3, <1>4 DEF drift, Agrees, Secret
<1>6. work' = [work EXCEPT ![w] = Idle] /\ row' = row /\ secret' = secret /\ outbox' = outbox
  BY <1>5, GotoForms DEF CheckDrift
<1>7. Coherent(row'[s], secret'[s])
  BY <1>3, <1>6 DEF Coherent
<1> QED
  BY <1>2, <1>6, <1>7, LoneIdle

\* Every step of a worker, on s or elsewhere.
LEMMA WorkStepGood ==
  ASSUME NEW s \in Subs, NEW w \in Workers, TypeOK, Good(s), ~Cause(s), WorkStep(w)
  PROVE  Good(s)'
<1>1. CASE work[w].sub # s
  BY <1>1, WorkElsewhere DEF Cause
<1>2. CASE work[w].sub = s
  BY <1>2, ProvisionGood, WriteStatusGood, WriteSyncStatusGood, SaveRowGood, PushGood, RemoveGood,
     CheckDriftGood DEF WorkStep
<1> QED
  BY <1>1, <1>2
-----------------------------------------------------------------------------
(* Requests and jobs that start. *)

\* Start changes one worker, which was idle.
LEMMA StartOnly ==
  ASSUME NEW t \in Subs, NEW w \in Workers, NEW op, NEW pc, NEW copy, NEW p, TypeOK,
         Start(w, op, t, pc, copy, p)
  PROVE  /\ work[w].pc = "idle" /\ work'[w].sub = t
         /\ \A v \in Workers : v # w => work'[v] = work[v]
  BY DEF Start, TypeOK

\* A request on another subscription does not disturb s.
LEMMA BeginElsewhere ==
  ASSUME NEW s \in Subs, NEW t \in Subs, t # s, NEW w \in Workers, TypeOK, Good(s), ~Overlap(s)', Begin(w, t)
  PROVE  Good(s)'
<1>1. row'[s] = row[s] /\ secret' = secret /\ outbox' = outbox
  BY DEF TypeOK, Begin, Create, CompleteInstall, Update, PatchStatus, Delete, Reconcile, SuspensionIsolir,
         SuspensionSuspend, ApplySettlement, Transition, ReconcilerRun
<1>2. /\ work[w].pc = "idle" /\ (work'[w] = work[w] \/ work'[w].sub = t)
      /\ \A v \in Workers : v # w => work'[v] = work[v]
  <2>1. ASSUME NEW p \in Plans, Create(w, t, p) \/ CompleteInstall(w, t, p) \/ Update(w, t, p) PROVE <1>2
    <3>1. CASE Create(w, t, p)
      BY <3>1, StartOnly DEF Create
    <3>2. CASE CompleteInstall(w, t, p)
      BY <3>2, StartOnly DEF CompleteInstall
    <3>3. CASE Update(w, t, p)
      BY <3>3, StartOnly DEF Update
    <3> QED
      BY <2>1, <3>1, <3>2, <3>3
  <2>2. ASSUME NEW st \in Status, PatchStatus(w, t, st) PROVE <1>2
    BY <2>2, StartOnly DEF PatchStatus
  <2>3. CASE Delete(w, t) \/ Reconcile(w, t) \/ ReconcilerRun(w, t)
    BY <2>3, StartOnly DEF Delete, Reconcile, ReconcilerRun
  <2>4. CASE SuspensionIsolir(w, t) \/ SuspensionSuspend(w, t) \/ ApplySettlement(w, t)
    BY <2>4, StartOnly DEF SuspensionIsolir, SuspensionSuspend, ApplySettlement, Transition
  <2> QED
    BY <2>1, <2>2, <2>3, <2>4 DEF Begin
<1>3. \A v \in Workers : (work'[v].pc # "idle" /\ work'[v].sub = s) <=> WorksOn(v, s)
  BY <1>2 DEF WorksOn
<1>4. \A v \in Workers : WorksOn(v, s) => work'[v] = work[v]
  BY <1>2 DEF WorksOn
<1> QED
  BY <1>1, <1>3, <1>4, Frame

(* An operation that starts on s finds it quiet, or there is an overlap. *)
LEMMA StartQuiet ==
  ASSUME NEW s \in Subs, NEW w \in Workers, NEW op, NEW pc, NEW copy, NEW p, TypeOK, Good(s), ~Overlap(s)',
         Start(w, op, s, pc, copy, p), pc # "idle", outbox' = outbox
  PROVE  /\ Quiet(s)
         /\ row[s].live => Coherent(row[s], secret[s])
<1>1. WorksOn(w, s)' /\ \A v \in Workers : v # w => (WorksOn(v, s)' <=> WorksOn(v, s))
  BY DEF Start, WorksOn, TypeOK
<1>2. ~WorksOn(w, s) /\ (OutboxOn(s)' <=> OutboxOn(s))
  BY DEF Start, WorksOn, OutboxOn
<1>3. Quiet(s)
  BY <1>1, <1>2 DEF Overlap, Quiet
<1> QED
  BY <1>3 DEF Good, Quiet

\* A request that starts alone on s keeps it in order if it holds what it should.
LEMMA StartGood ==
  ASSUME NEW s \in Subs, NEW w \in Workers, NEW op, NEW pc, NEW copy, NEW p, TypeOK, Good(s), ~Overlap(s)',
         Start(w, op, s, pc, copy, p), pc # "idle", outbox' = outbox,
         ASSUME NEW m, m.op = op, m.pc = pc, m.copy = copy, m.profile = p
         PROVE  WorkerHolds(m, row'[s], secret'[s])
  PROVE  Good(s)'
<1> DEFINE m == [op |-> op, sub |-> s, pc |-> pc, copy |-> copy, profile |-> p]
<1>1. work' = [work EXCEPT ![w] = m]
  BY DEF Start
<1>2. m.op = op /\ m.sub = s /\ m.pc = pc /\ m.copy = copy /\ m.profile = p
  OBVIOUS
<1> HIDE DEF m
<1>3. WorkerHolds(m, row'[s], secret'[s])
  BY <1>2
<1>4. ~OutboxOn(s) /\ \A v \in Workers : v # w => ~WorksOn(v, s)
  BY StartQuiet DEF Quiet
<1> QED
  BY <1>1, <1>2, <1>3, <1>4, LoneHolds

\* The isolation, the suspension and the settlement start in order.
LEMMA TransitionGood ==
  ASSUME NEW s \in Subs, NEW w \in Workers, NEW op, NEW from, NEW to, NEW sync,
         TypeOK, Good(s), ~Overlap(s)', Transition(w, s, op, from, to, sync),
         op \in {"isolir", "suspend", "settle"},
         from \subseteq {"active", "isolir", "suspended"},
         \/ from \subseteq {"active", "isolir"} /\ to \in {"active", "isolir"} /\ sync = "pending_profile_change"
         \/ to = "suspended" /\ sync = "pending_disable"
         \/ to = "active" /\ sync = "pending_enable"
  PROVE  Good(s)'
<1> DEFINE r == row[s]
           c == secret[s]
           k == [r EXCEPT !.status = to, !.sync = sync]
<1>1. Start(w, op, s, "status", k, "") /\ row' = row /\ secret' = secret /\ outbox' = outbox
  BY DEF Transition
<1>2. r.live /\ Coherent(r, c) /\ r \in Row /\ c \in Secret /\ r.status \in from
  BY <1>1, StartQuiet DEF Transition, TypeOK
<1>3. k.status = to /\ k.sync = sync
  BY <1>2 DEF Row
<1>4. r.sync = "synced" => Coherent(k, c)
  BY <1>2, <1>3 DEF Coherent, Agrees
<1>5. ASSUME NEW m, m.op = op, m.pc = "status", m.copy = k, m.profile = ""
      PROVE  WorkerHolds(m, row'[s], secret'[s])
  <2>1. m.copy.status = to /\ m.copy.sync = sync
    BY <1>3, <1>5
  <2>2. r.sync = "synced" => Coherent([r EXCEPT !.status = m.copy.status, !.sync = m.copy.sync], c)
    BY <1>4, <2>1
  <2> QED
    BY <1>1, <1>2, <1>5, <2>2 DEF WorkerHolds
<1> QED
  BY <1>1, <1>5, StartGood

\* Every request and job that starts on s.
LEMMA BeginGood ==
  ASSUME NEW s \in Subs, NEW w \in Workers, TypeOK, Good(s), ~Cause(s), Begin(w, s)
  PROVE  Good(s)'
<1> DEFINE r == row[s]
           c == secret[s]
<1>0. ~Overlap(s)' /\ ~Replaced(s) /\ r \in Row /\ c \in Secret
  BY DEF Cause, TypeOK
<1>1. ASSUME NEW p \in Plans, Create(w, s, p) PROVE Good(s)'
  <2> DEFINE k == [NewRow("active", p) EXCEPT !.sync = "synced"]
  <2>1. Start(w, "Create", s, "provision", k, p) /\ outbox' = outbox
    BY <1>1 DEF Create
  <2>2. row'[s] = NewRow("pending_install", p)
    BY <1>1 DEF Create, TypeOK
  <2>3. k.status = "active" /\ k.sync = "synced" /\ k.plan = p
    BY DEF NewRow
  <2>4. ASSUME NEW m, m.op = "Create", m.pc = "provision", m.copy = k, m.profile = p
        PROVE  WorkerHolds(m, row'[s], secret'[s])
    BY <2>2, <2>3, <2>4 DEF WorkerHolds, NewRow
  <2> QED
    BY <1>0, <2>1, <2>4, StartGood
<1>2. ASSUME NEW p \in Plans, CompleteInstall(w, s, p) PROVE Good(s)'
  <2>1. row'[s] = NewRow("active", p) /\ outbox' = outbox /\ secret' = secret
    BY <1>2 DEF CompleteInstall, TypeOK
  <2>2. Coherent(row'[s], secret'[s]) /\ row'[s].live
    BY <2>1 DEF Coherent, NewRow
  <2>3. CASE Start(w, "CompleteInstall", s, "save", NewRow("active", p), "")
    <3>1. NewRow("active", p) = [NewRow("active", p) EXCEPT !.plan = NewRow("active", p).plan]
      BY DEF NewRow
    <3>2. ASSUME NEW m, m.op = "CompleteInstall", m.pc = "save", m.copy = NewRow("active", p), m.profile = ""
          PROVE  WorkerHolds(m, row'[s], secret'[s])
      BY <2>1, <2>2, <3>1, <3>2 DEF WorkerHolds
    <3> QED
      BY <1>0, <2>1, <2>3, <3>2, StartGood
  <2>4. CASE work' = work
    <3>1. Quiet(s)
      BY <1>0, <1>2, <2>2 DEF Replaced, CompleteInstall
    <3>2. (\A v \in Workers : ~WorksOn(v, s)') /\ ~OutboxOn(s)'
      BY <2>1, <2>4, <3>1 DEF Quiet, WorksOn, OutboxOn
    <3> QED
      BY <1>0, <2>2, <3>2 DEF Good
  <2> QED
    BY <1>2, <2>3, <2>4 DEF CompleteInstall
<1>3. ASSUME NEW p \in Plans, Update(w, s, p) PROVE Good(s)'
  <2> DEFINE k == [r EXCEPT !.plan = p]
             q == IF p = r.plan THEN "" ELSE p
  <2>1. Start(w, "Update", s, "save", k, q) /\ outbox' = outbox /\ row' = row /\ secret' = secret
    BY <1>3 DEF Update
  <2>2. r.live /\ Coherent(r, c)
    BY <1>0, <1>3, <2>1, StartQuiet DEF Update
  <2>3. k.plan = p /\ (q = "" => k = r) /\ (q # "" => q = p)
    BY <1>0, SyncAssumption DEF Row
  <2>4. ASSUME NEW m, m.op = "Update", m.pc = "save", m.copy = k, m.profile = q
        PROVE  WorkerHolds(m, row'[s], secret'[s])
    <3>1. m.copy = [r EXCEPT !.plan = m.copy.plan]
      BY <2>3, <2>4
    <3>2. (m.profile = "" => m.copy = r) /\ (m.profile # "" => m.profile = m.copy.plan)
      BY <2>3, <2>4
    <3> QED
      BY <2>1, <2>2, <2>4, <3>1, <3>2 DEF WorkerHolds
  <2> QED
    BY <1>0, <2>1, <2>4, StartGood
<1>4. ASSUME NEW st \in Status, PatchStatus(w, s, st) PROVE Good(s)'
  <2> DEFINE k == [r EXCEPT !.status = st]
  <2>1. Start(w, "PatchStatus", s, "status", k, "") /\ outbox' = outbox /\ row' = row /\ secret' = secret
    BY <1>4 DEF PatchStatus
  <2>2. r.live /\ Coherent(r, c)
    BY <1>0, <1>4, <2>1, StartQuiet DEF PatchStatus
  <2>3. k.status = st
    BY <1>0 DEF Row
  <2>4. ASSUME NEW m, m.op = "PatchStatus", m.pc = "status", m.copy = k, m.profile = ""
        PROVE  WorkerHolds(m, row'[s], secret'[s])
    <3>1. m.copy = [r EXCEPT !.status = m.copy.status]
      BY <2>3, <2>4
    <3> QED
      BY <2>1, <2>2, <2>4, <3>1 DEF WorkerHolds
  <2> QED
    BY <1>0, <2>1, <2>4, StartGood
<1>5. CASE Delete(w, s)
  <2>1. Start(w, "Delete", s, "remove", r, "") /\ outbox' = outbox /\ ~row'[s].live
    BY <1>0, <1>5 DEF Delete, TypeOK, Row
  <2>2. ASSUME NEW m, m.op = "Delete", m.pc = "remove", m.copy = r, m.profile = ""
        PROVE  WorkerHolds(m, row'[s], secret'[s])
    BY <2>1, <2>2 DEF WorkerHolds
  <2> QED
    BY <1>0, <2>1, <2>2, StartGood
<1>6. CASE Reconcile(w, s)
  <2>1. Start(w, "Reconcile", s, "push", r, "") /\ outbox' = outbox /\ row' = row /\ secret' = secret
    BY <1>6 DEF Reconcile
  <2>2. r.live /\ Coherent(r, c)
    BY <1>0, <1>6, <2>1, StartQuiet DEF Reconcile
  <2>3. ASSUME NEW m, m.op = "Reconcile", m.pc = "push", m.copy = r, m.profile = ""
        PROVE  WorkerHolds(m, row'[s], secret'[s])
    BY <2>1, <2>2, <2>3 DEF WorkerHolds
  <2> QED
    BY <1>0, <2>1, <2>3, StartGood
<1>7. CASE SuspensionIsolir(w, s)
  BY <1>0, <1>7, TransitionGood DEF SuspensionIsolir
<1>8. CASE SuspensionSuspend(w, s)
  BY <1>0, <1>8, TransitionGood DEF SuspensionSuspend
<1>9. CASE ApplySettlement(w, s)
  BY <1>0, <1>9, TransitionGood DEF ApplySettlement
<1>10. CASE ReconcilerRun(w, s)
  <2> DEFINE k == [r EXCEPT !.sync = "pending_profile_change"]
  <2>1. Start(w, "checkDrift", s, "check", k, "") /\ outbox' = outbox /\ row' = row /\ secret' = secret
    BY <1>10 DEF ReconcilerRun
  <2>2. r.live /\ Coherent(r, c) /\ r.sync = "synced" /\ r.status \in {"active", "isolir", "suspended"}
    BY <1>0, <1>10, <2>1, StartQuiet DEF ReconcilerRun
  <2>3. k.status = r.status /\ Agrees(r, c)
    BY <1>0, <2>2 DEF Row, Coherent
  <2>4. ASSUME NEW m, m.op = "checkDrift", m.pc = "check", m.copy = k, m.profile = ""
        PROVE  WorkerHolds(m, row'[s], secret'[s])
    <3>1. m.copy.status = r.status
      BY <2>3, <2>4
    <3> QED
      BY <2>1, <2>2, <2>3, <2>4, <3>1 DEF WorkerHolds
  <2> QED
    BY <1>0, <2>1, <2>4, StartGood
<1> QED
  BY <1>1, <1>2, <1>3, <1>4, <1>5, <1>6, <1>7, <1>8, <1>9, <1>10 DEF Begin
-----------------------------------------------------------------------------
(* The environment. *)

\* Bulk deletion, the link, edits by hand and restarts.
LEMMA EnvironmentGood ==
  ASSUME NEW s \in Subs, TypeOK, Good(s), ~Cause(s),
         \/ \E ids \in SUBSET Subs : BatchDelete(ids)
         \/ LinkChange
         \/ \E t \in Subs : Tamper(t)
         \/ Restart
  PROVE  Good(s)'
<1>0. ~Overlap(s)' /\ ~Replaced(s) /\ ~Interrupted(s) /\ ~Tampered(s)
  BY DEF Cause
<1>1. ASSUME NEW ids \in SUBSET Subs, BatchDelete(ids) PROVE Good(s)'
  <2>1. secret' = secret /\ outbox' = outbox /\ work' = work
    BY <1>1 DEF BatchDelete
  <2>2. CASE s \in ids /\ row[s].live
    <3>1. ~row'[s].live
      BY <1>1, <2>2 DEF BatchDelete, TypeOK, Row
    <3>2. Quiet(s)
      BY <1>0, <2>2, <3>1 DEF Replaced
    <3>3. (\A v \in Workers : ~WorksOn(v, s)') /\ ~OutboxOn(s)'
      BY <2>1, <3>2 DEF Quiet, WorksOn, OutboxOn
    <3> QED
      BY <1>0, <3>1, <3>3 DEF Good
  <2>3. CASE ~(s \in ids /\ row[s].live)
    <3>1. row[s] \in Row /\ row'[s] = IF s \in ids THEN [row[s] EXCEPT !.live = FALSE] ELSE row[s]
      BY <1>1 DEF BatchDelete, TypeOK
    <3>2. row'[s] = row[s]
      BY <2>3, <3>1 DEF Row
    <3> QED
      BY <1>0, <2>1, <3>2, Frame DEF WorksOn
  <2> QED
    BY <2>2, <2>3
<1>2. CASE LinkChange
  BY <1>0, <1>2, Frame DEF LinkChange, WorksOn
<1>3. ASSUME NEW t \in Subs, Tamper(t) PROVE Good(s)'
  <2>1. t # s
    BY <1>0, <1>3 DEF Tampered
  <2>2. secret'[s] = secret[s] /\ row' = row /\ outbox' = outbox /\ work' = work
    BY <1>3, <2>1 DEF Tamper, TypeOK
  <2> QED
    BY <1>0, <2>2, Frame DEF WorksOn
<1>4. CASE Restart
  <2>1. \A w \in Workers : ~WorksOn(w, s)
    BY <1>0, <1>4 DEF Interrupted
  <2>2. (\A v \in Workers : ~WorksOn(v, s)') /\ ~OutboxOn(s)'
    BY <1>4 DEF Restart, WorksOn, OutboxOn, Idle, NotListed
  <2> QED
    BY <1>0, <1>4, <2>1, <2>2 DEF Good, Restart
<1> QED
  BY <1>1, <1>2, <1>3, <1>4

-----------------------------------------------------------------------------
\* Every step that is no cause of drift keeps s in order.
LEMMA StepGood ==
  ASSUME NEW s \in Subs, TypeOK, Good(s), ~Cause(s), Next
  PROVE  Good(s)'
<1>0. ~Overlap(s)'
  BY DEF Cause
<1>1. CASE OutboxStep
  BY <1>0, <1>1, OutboxRunGood, OutboxElsewhere, OutboxStepGood DEF OutboxStep
<1>2. ASSUME NEW w \in Workers, WorkStep(w) PROVE Good(s)'
  BY <1>2, WorkStepGood
<1>3. ASSUME NEW w \in Workers, NEW t \in Subs, Begin(w, t) PROVE Good(s)'
  BY <1>0, <1>3, BeginGood, BeginElsewhere
<1>4. CASE \/ \E ids \in SUBSET Subs \ {{}} : BatchDelete(ids)
           \/ LinkChange
           \/ \E t \in Subs : Tamper(t)
           \/ Restart
  BY <1>4, EnvironmentGood
<1> QED
  BY <1>1, <1>2, <1>3, <1>4 DEF Next

\* Nothing exists at the start.
LEMMA DriftInvInit == DriftInit => DriftInv
<1> SUFFICES ASSUME DriftInit, NEW s \in Subs PROVE Good(s)
  BY DEF DriftInv
<1>1. Quiet(s) /\ ~row[s].live
  BY DEF DriftInit, Init, Quiet, OutboxOn, WorksOn, NotListed, Idle, NoRow
<1> QED
  BY <1>1, SettledIsGood DEF Settled

\* DriftInv is inductive: an excuse ends only in agreement.
LEMMA DriftInvStep == TypeOK /\ DriftInv /\ [DriftNext]_driftVars => DriftInv'
<1> SUFFICES ASSUME TypeOK, DriftInv, [DriftNext]_driftVars, NEW s \in Subs, ~excused'[s] PROVE Good(s)'
  BY DEF DriftInv
<1>1. CASE UNCHANGED driftVars
  <2>1. Good(s)
    BY <1>1 DEF DriftInv, driftVars
  <2> QED
    BY <1>1, <2>1 DEF driftVars, Good, Overlap, OutboxOn, WorksOn
<1>2. CASE DriftNext
  <2>1. Settled(s)' \/ (~excused[s] /\ ~Cause(s))
    BY <1>2 DEF DriftNext
  <2>2. CASE Settled(s)'
    BY <2>2 DEF Settled, Good, Quiet, Overlap, Coherent
  <2>3. CASE ~excused[s] /\ ~Cause(s)
    BY <1>2, <2>3, StepGood DEF DriftNext, DriftInv
  <2> QED
    BY <2>1, <2>2, <2>3
<1> QED
  BY <1>1, <1>2

(* The type invariant of SubscriptionSync under DriftSpec. *)
LEMMA DriftType == DriftSpec => []TypeOK
<1>1. DriftInit => TypeOK
  BY InitType DEF DriftInit
<1>2. TypeOK /\ [DriftNext]_driftVars => TypeOK'
  BY NextType DEF DriftNext, driftVars, vars
<1> QED
  BY <1>1, <1>2, PTL DEF DriftSpec

(* A synced row that nobody works on and that no named cause of drift has     *)
(* touched since it was last in agreement is what the router has, however     *)
(* many subscriptions, requests, retries and restarts there are (OutboxJob,   *)
(* the handlers of api/handler/subscriptions.go, the jobs).                   *)
THEOREM DriftIsExplained == DriftSpec => []DriftExplained
<1>1. DriftInv => DriftExplained
  BY DEF DriftInv, DriftExplained, Good, Quiet, Coherent
<1> QED
  BY <1>1, DriftInvInit, DriftInvStep, DriftType, PTL DEF DriftSpec
=============================================================================
