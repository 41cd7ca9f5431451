------------------------- MODULE PaymentCollection --------------------------
(* How often an invoice is paid over the counter.  CreateManual and Collect  *)
(* look at the invoice, record the payment and settle the invoice in         *)
(* statements of their own, and nothing ties a payment to the invoice it saw. *)
EXTENDS PaymentSettlement

VARIABLE disputed  \* invoices that two payments may have found unpaid

collectionVars == <<settlementVars, disputed>>

OverTheCounter == {"CreateManual", "Collect"}

Paying(w, i) == work[w].pc \in {"create", "settle"} /\ work[w].inv = i

\* Two requests have read the invoice before one of them has settled it.
Overlapped(i) == \E v, w \in Workers : v # w /\ Paying(v, i)' /\ Paying(w, i)'

CollectionInit == SettlementInit /\ disputed = {}

CollectionNext ==
  /\ SettlementNext
  /\ disputed' = {i \in Invoices :
                    i \in disputed \/ Overlapped(i) \/ Overwritten(i) \/ SettlementLost(i)}

CollectionSpec == CollectionInit /\ [][CollectionNext]_collectionVars

(* The cash for an invoice is taken once, unless two requests overlapped or  *)
(* the settlement of the first was lost in a stop or overwritten             *)
(* (CreateManual's look at the invoice; the key of Collect alone is unique). *)
CollectedOnce ==
  \A p, q \in DOMAIN payment :
    /\ p # q
    /\ payment[p].invoice = payment[q].invoice
    /\ {payment[p].op, payment[q].op} \subseteq OverTheCounter
    => payment[p].invoice \in disputed
=============================================================================
