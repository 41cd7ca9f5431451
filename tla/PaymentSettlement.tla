------------------------- MODULE PaymentSettlement -------------------------
(***************************************************************************)
(* What a payment promises, and when the server cannot keep it.            *)
(*                                                                         *)
(* A confirmed payment is in three places: the payment, the invoice and    *)
(* the subscription are written one after the other, by requests that race *)
(* with each other, with the suspension check and with restarts.  The      *)
(* history variables record that one of the named causes has separated     *)
(* them; the properties are that there is no other.                        *)
(***************************************************************************)
EXTENDS Payments

VARIABLES
  reopened,  \* invoices whose settlement was lost or overwritten
  withheld,  \* the service was left withheld although nothing is owed
  strayed    \* payments whose money was announced and not recorded, or recorded and taken back

settlementVars == <<invoice, payment, sub, gateway, work, check, started, reopened, withheld, strayed>>

Owing == \E i \in Invoices : Unpaid(i)

Settling(w, i) == work[w].pc = "settle" /\ work[w].inv = i

Restoring(w) == work[w].pc \in {"get", "restore"}

\* A fault or a restart: of the steps that end or go on with a request, only these count.
Failed == started' # started

-----------------------------------------------------------------------------
(* An invoice of a confirmed payment is not paid. *)

\* A cancellation or the suspension check writes over a settlement it has not seen.
Overwritten(i) == invoice[i].status = "paid" /\ invoice'[i].status # "paid"

\* The server stopped, or the statement failed, between the payment and its invoice.
SettlementLost(i) ==
  /\ Failed /\ invoice'[i].status # "paid"
  /\ \E w \in Workers : Settling(w, i) /\ work'[w].pc # "settle"

-----------------------------------------------------------------------------
(* The service is withheld from a customer who owes nothing. *)

\* The suspension check acts on invoices that have been paid or cancelled since.
StaleSuspension == CheckWrite /\ ~Owing /\ sub' # sub

\* Cancelling what was owed does not restore the service.
Forgiven == Owing /\ ~Owing' /\ \E w \in Workers : WriteCancelled(w)

\* The server stopped, or the statement failed, before the restoration.
RestoreLost == Failed /\ sub' # "active" /\ \E w \in Workers : Restoring(w) /\ work'[w].pc = "idle"

-----------------------------------------------------------------------------
(* The gateway was paid and the payment is not confirmed. *)

PaidAnswered(p) == "PAID" \in gateway'[p].answered \ gateway[p].answered

\* The notification was answered while the reference was not stored or after a rejection,
\* which may be the webhook's own, of a status the adapter does not know.
Unmatched(p) == PaidAnswered(p) /\ (~payment[p].ref \/ payment[p].status = "rejected")

\* The notification was answered without a look at the payment: the settings of the
\* gateway could not be read or were empty.
Ignored(p) == PaidAnswered(p) /\ Failed /\ work' = work

\* A rejection that was decided before it writes over the confirmation.
Contradicted(p) == payment[p].status = "confirmed" /\ payment'[p].status = "rejected"

-----------------------------------------------------------------------------
SettlementInit == Init /\ reopened = {} /\ withheld = FALSE /\ strayed = {}

SettlementNext ==
  /\ Next
  /\ reopened' = {i \in Invoices : /\ invoice'[i].status # "paid"
                                   /\ i \in reopened \/ Overwritten(i) \/ SettlementLost(i)}
  /\ withheld' = /\ sub' # "active"
                 /\ withheld \/ StaleSuspension \/ Forgiven \/ RestoreLost
  /\ strayed' = {p \in DOMAIN payment : p \in strayed \/ Unmatched(p) \/ Ignored(p) \/ Contradicted(p)}

SettlementSpec == SettlementInit /\ [][SettlementNext]_settlementVars

-----------------------------------------------------------------------------
\* The invoice of a confirmed payment is paid or about to be, unless one of the causes
\* above came between: staff, portal and gateway payments, retried notifications and
\* double scans settle what they confirm (Confirm, CreateManual, ProcessWebhook).
ConfirmedIsSettled ==
  \A p \in DOMAIN payment :
    payment[p].status = "confirmed" =>
      LET i == payment[p].invoice
      IN invoice[i].status = "paid" \/ i \in reopened \/ \E w \in Workers : Settling(w, i)

\* A customer who owes nothing has the service, or is about to get it back, unless one
\* of the causes above withheld it (applySettlement, SuspensionCheckJob.Run).
SettledIsServed ==
  ~Owing /\ sub # "active" => withheld \/ \E w \in Workers : Restoring(w)

\* Money the gateway has announced is on a confirmed payment, unless one of the causes
\* above lost it: an answered notification is not sent again (ProcessWebhook).
MoneyIsRecorded ==
  \A p \in DOMAIN payment :
    "PAID" \in gateway[p].answered => payment[p].status = "confirmed" \/ p \in strayed
=============================================================================
