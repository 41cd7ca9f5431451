---------------------------- MODULE DialogSafety ----------------------------
(* What an answer, a timer or a second click may do to a dialog. *)
EXTENDS Dialogs

(* AlertDialogAction closes the dialog when it is clicked, and the handler   *)
(* closes it once more when the answer is there.                             *)
ClosedTwice ==
  {"UserDeleteDialog", "DisconnectDialog", "HostDeleteDialog", "ProfileDeleteDialog",
   "HotspotBillingDelete", "SecretDeleteDialog", "PPPProfileDeleteDialog", "PPPDisconnect",
   "DbProfileDeleteDialog", "PresetDeleteDialog", "PoolDelete", "QueueDelete", "LeaseDelete",
   "SchedulerDelete", "ScriptDelete"}

(* Closed after an await, though the user may have dismissed the dialog.     *)
ClosedAfterAwait == {"MakeBindingDialog", "MakeBindingsDialog", "CustomersDeleteDialog"}

(* Closed by a callback of a component that outlives its dialog.             *)
ClosedFromOutside ==
  {"SubscriptionsDeleteDialog", "GenerateInvoiceDialog", "InvoiceDetailDialog",
   "RecordPaymentDialog", "ConfirmRejectDialog", "ApproveDialog", "RejectDialog",
   "AssignDialog", "RoutersDeleteDialog", "AdminUserDeleteDialog", "AddSchedulerDialog",
   "AddPoolDialog", "AddScriptDialog", "PasswordSheet"}

LateClosers == ClosedTwice \cup ClosedAfterAwait \cup ClosedFromOutside

(* Nothing happens to a dialog that was reused when the answer is not met by *)
(* closing, when it is met in a callback of a component that goes with the   *)
(* dialog, or when the dialog stays open until it is there.                  *)
Holds(d) ==
  /\ d.mounted = "always" /\ d.host.kind # "row"
  /\ d.held /\ ~d.atClick /\ d.guard # "none" /\ d.how = "callback"

ClosesOwn(d) ==
  \/ d.closes \in {"before", "never"}
  \/ d.how = "callback" /\ (d.mounted = "open" \/ Holds(d))

(* What the properties need to know of the catalogue.                        *)
ASSUME CatalogueAssumption ==
  \A d \in AllDialogs :
    /\ d.mounted \in {"always", "open", "row"}
    /\ d.guard \in {"pending", "tab", "none"}
    /\ d.host.kind = "row" => d.mounted = "always"
    /\ d.how = "fanout" => "new" \notin d.for
    /\ d.name \in LateClosers \/ ClosesOwn(d)

(* The answer of a request closes no dialog but the one it was sent from,    *)
(* except for the dialogs of LateClosers.                                    *)
AnswerClosesOwn ==
  [][\A c \in calls \ calls' :
        current # Shut /\ current' = Shut
          => c.by = current.no \/ dialog.name \in LateClosers]_vars

(* A request goes to the records its dialog was opened for, and an edit does *)
(* not become a new record, although the request is made of what the host    *)
(* holds at the click.  Only a dialog whose switch or ticks are kept by the  *)
(* number of a row can miss them, when a poll has moved the rows under it.   *)
SentAsMeant ==
  \A c \in calls :
    \/ c.rows \subseteq c.meant /\ (c.rows = {} => c.meant = {})
    \/ c.moved /\ dialog.host.kind \in {"row", "ticks"}

(* A dialog loses its records before it is closed only under a provider, and *)
(* only when it was opened while the clearing of an earlier closing was due  *)
(* (customers-dialogs.tsx, subscriptions-dialogs.tsx).                       *)
LostIsEarly ==
  current # Shut /\ target # current.rows /\ ~current.moved =>
    dialog.host.kind = "provider" /\ current.early

(* Two confirmations of a dialog are in flight for one record, or both for a *)
(* new one, only when they are from two instances of its component (it was   *)
(* dismissed while the first was pending, or the row went to another place), *)
(* when it asks for each record and the last request was answered before     *)
(* others of its confirmation, or when nothing disables the button.          *)
SentOnce ==
  \A c, d \in calls :
    c.no < d.no /\ (c.rows \cap d.rows # {} \/ c.rows = d.rows) =>
      \/ dialog.guard = "pending" /\ <<c.place, c.life>> # <<d.place, d.life>>
      \/ dialog.how = "fanout" /\ ~\E e \in calls : e.no = c.no /\ e.last
      \/ dialog.guard = "none"
=============================================================================
