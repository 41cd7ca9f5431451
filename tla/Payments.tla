------------------------------ MODULE Payments ------------------------------
(***************************************************************************)
(* Invoices and payments of one subscription: payments recorded by staff,  *)
(* uploaded in the portal or made at the gateway, the settlement that      *)
(* follows a confirmed one, the cancellation of invoices, and the daily    *)
(* suspension check.  Nothing runs in a transaction or under a lock: each  *)
(* statement is a step and the writes are unconditional, whatever was read *)
(* before them.                                                            *)
(***************************************************************************)
EXTENDS Naturals, Sequences

CONSTANTS
  Invoices,     \* invoice ids
  Workers,      \* requests that may be under way at the same time
  Ops,          \* requests that can be made, a subset of OpNames
  MaxPayments,  \* bound on the payments recorded, for TLC
  MaxOps        \* bound on the requests of one behaviour, for TLC

VARIABLES
  invoice,   \* status of every invoice and how long it is past its due date
  payment,   \* the payments table; an id is a position
  sub,       \* status of the subscription
  gateway,   \* what the gateway has for each payment and which notifications are answered
  work,      \* the requests under way
  check,     \* the running SuspensionCheckJob.Run
  started

vars == <<invoice, payment, sub, gateway, work, check, started>>

-----------------------------------------------------------------------------
OpNames == {"CreateManual", "Collect", "CreatePortalPayment", "InitiatePayment", "Confirm", "Reject",
            "Webhook", "Cancel", "fault", "restart"}

ASSUME PaymentsAssumption ==
  /\ 0 \notin Invoices
  /\ Ops \subseteq OpNames
  /\ MaxPayments \in Nat
  /\ MaxOps \in Nat

InvoiceStatus == {"none", "issued", "overdue", "paid", "cancelled"}

\* Time past the due date: none, below isolir_after_days, below hard_suspend_after_days, more.
Ages == 0..3

Payment == [status : {"pending", "confirmed", "rejected"}, invoice : Invoices, op : OpNames, ref : BOOLEAN]

\* What the gateway says of a payment; "OTHER" is every status the adapter does not know.
Statuses == {"PAID", "EXPIRED", "OTHER"}

Gateway == [state : {"none", "open"}, sent : SUBSET Statuses, answered : SUBSET Statuses]

NotAtGateway == [state |-> "none", sent |-> {}, answered |-> {}]

\* The status of the PaymentEvent.
ParseWebhookEvent(st) == IF st = "PAID" THEN "paid" ELSE IF st = "EXPIRED" THEN "expired" ELSE "failed"

PCs == {"idle", "create", "call", "refuse", "ref", "confirm", "reject", "settle", "get", "restore", "cancel"}

\* No row has the id 0.
Idle == [op |-> "restart", pc |-> "idle", pay |-> 0, inv |-> 0, note |-> "none"]

NoCheck == [pc |-> "idle", marks |-> {}, target |-> "active"]

Unpaid(i) == invoice[i].status \in {"issued", "overdue"}

-----------------------------------------------------------------------------
Init ==
  /\ invoice = [i \in Invoices |-> [status |-> "none", age |-> 0]]
  /\ payment = <<>>
  /\ sub = "active"
  /\ gateway = <<>>
  /\ work = [w \in Workers |-> Idle]
  /\ check = NoCheck
  /\ started = 0

\* The billing cron.
Issue(i) ==
  /\ invoice[i].status = "none"
  /\ invoice' = [invoice EXCEPT ![i].status = "issued"]
  /\ UNCHANGED <<payment, sub, gateway, work, check, started>>

Age(i) ==
  /\ Unpaid(i) /\ invoice[i].age < 3
  /\ invoice' = [invoice EXCEPT ![i].age = @ + 1]
  /\ UNCHANGED <<payment, sub, gateway, work, check, started>>

-----------------------------------------------------------------------------
(* Requests: what each reads before its first write. *)

Start(w, op, pc, p, i, note) ==
  /\ op \in Ops /\ started < MaxOps /\ started' = started + 1
  /\ work[w].pc = "idle"
  /\ work' = [work EXCEPT ![w] = [op |-> op, pc |-> pc, pay |-> p, inv |-> i, note |-> note]]
  /\ UNCHANGED <<invoice, payment, sub, gateway, check>>

Goto(w, pc) == work' = [work EXCEPT ![w] = IF pc = "idle" THEN Idle ELSE [@ EXCEPT !.pc = pc]]

\* A faulty form, to test the properties with: the invoice is not looked at.
PayAnything(w, op, i) ==
  /\ op \in {"CreateManual", "Collect", "CreatePortalPayment", "InitiatePayment"}
  /\ invoice[i].status # "none"
  /\ Start(w, op, "create", 0, i, "none")

\* CreateManual, Collect, CreatePortalPayment and InitiatePayment all refuse an
\* invoice that is paid or cancelled.
Pay(w, op, i) ==
  /\ op \in {"CreateManual", "Collect", "CreatePortalPayment", "InitiatePayment"}
  /\ Unpaid(i)
  /\ Start(w, op, "create", 0, i, "none")

Confirm(w, p) ==
  /\ payment[p].status = "pending"
  /\ Start(w, "Confirm", "confirm", p, payment[p].invoice, "none")

Reject(w, p) ==
  /\ payment[p].status = "pending"
  /\ Start(w, "Reject", "reject", p, payment[p].invoice, "none")

\* A paid invoice is not cancelled; a cancelled one is again.
Cancel(w, i) ==
  /\ invoice[i].status \notin {"none", "paid"}
  /\ Start(w, "Cancel", "cancel", 0, i, "none")

\* A statement fails; of the errors that are dropped the effect is modelled, one that
\* ends the request is like a restart.
Fault == "fault" \in Ops /\ started < MaxOps /\ started' = started + 1

Answered(p, st) == gateway' = [gateway EXCEPT ![p].answered = @ \cup {st}]

\* A faulty form, to test the properties with: the answer comes first.
WebhookAnsweredFirst(w, p, st) ==
  /\ st \in gateway[p].sent \ gateway[p].answered
  /\ "Webhook" \in Ops /\ started < MaxOps /\ started' = started + 1
  /\ work[w].pc = "idle" /\ payment[p].ref /\ payment[p].status = "pending"
  /\ work' = [work EXCEPT ![w] = [op |-> "Webhook", pay |-> p, inv |-> payment[p].invoice, note |-> st,
                                 pc |-> IF ParseWebhookEvent(st) = "paid" THEN "confirm" ELSE "reject"]]
  /\ Answered(p, st)
  /\ UNCHANGED <<invoice, payment, sub, check>>

\* The webhook.  Until a notification has its 200 the gateway sends it again.  One that
\* comes while the settings cannot be read, or hold neither key nor token, is answered as
\* ignored; one whose external_ref is not (yet) stored as unknown; one about a payment
\* that is confirmed or rejected is skipped: all with 200.
Webhook(w, p, st) ==
  /\ st \in gateway[p].sent \ gateway[p].answered
  /\ \/ /\ payment[p].ref /\ payment[p].status = "pending"
        /\ Start(w, "Webhook", IF ParseWebhookEvent(st) = "paid" THEN "confirm" ELSE "reject",
                 p, payment[p].invoice, st)
     \/ /\ "Webhook" \in Ops
        /\ \/ (~payment[p].ref \/ payment[p].status # "pending") /\ UNCHANGED started
           \/ Fault
        /\ Answered(p, st)
        /\ UNCHANGED <<invoice, payment, sub, work, check>>

Begin(w) ==
  \/ \E op \in Ops, i \in Invoices : Pay(w, op, i)
  \/ \E i \in Invoices : Cancel(w, i)
  \/ \E p \in DOMAIN payment : Confirm(w, p) \/ Reject(w, p) \/ \E st \in Statuses : Webhook(w, p, st)

-----------------------------------------------------------------------------
(* The later steps of the requests. *)

Answer(w) ==
  IF work[w].op = "Webhook" THEN [gateway EXCEPT ![work[w].pay].answered = @ \cup {work[w].note}] ELSE gateway

\* The idempotency key of Collect is the code of the invoice.
CodeUsed(i) == \E p \in DOMAIN payment : payment[p].op = "Collect" /\ payment[p].invoice = i

\* The key of CreateManual is the client's: that of an earlier payment, or like it none
\* at all (the empty key is unique too), or a new one.
KeyUsed(k) ==
  IF k.op = "Collect" THEN CodeUsed(k.inv)
  ELSE k.op = "CreateManual" /\ \E p \in DOMAIN payment : payment[p].op = "CreateManual"

\* A faulty form, to test the properties with: off by one.
lastId == Len(payment)

\* The id that Create gives to the payment.
newId == Len(payment) + 1

CreatePayment(w) ==
  LET k == work[w]
      instant == k.op \in {"CreateManual", "Collect"}
  IN /\ k.pc = "create"
     /\ \/ KeyUsed(k) /\ Goto(w, "idle") /\ UNCHANGED <<payment, gateway>>
        \/ /\ k.op # "Collect" \/ ~KeyUsed(k)
           /\ Len(payment) < MaxPayments
           /\ payment' = Append(payment, [status |-> IF instant THEN "confirmed" ELSE "pending",
                                          invoice |-> k.inv, op |-> k.op, ref |-> FALSE])
           /\ gateway' = Append(gateway, NotAtGateway)
           /\ work' = [work EXCEPT ![w] =
                         IF k.op = "CreatePortalPayment" THEN Idle
                         ELSE [k EXCEPT !.pc = IF instant THEN "settle" ELSE "call", !.pay = newId]]
     /\ UNCHANGED <<invoice, sub, check, started>>

\* A call that fails may have created the invoice at the gateway all the same.
CallGateway(w) ==
  LET p == work[w].pay
  IN /\ work[w].pc = "call"
     /\ \/ gateway' = [gateway EXCEPT ![p].state = "open"] /\ Goto(w, "ref")
        \/ Goto(w, "refuse") /\ \E st \in {"none", "open"} : gateway' = [gateway EXCEPT ![p].state = st]
     /\ UNCHANGED <<invoice, payment, sub, check, started>>

\* The error of UpdateGatewayInfo is dropped.
SaveRef(w) ==
  /\ work[w].pc = "ref"
  /\ \/ payment' = [payment EXCEPT ![work[w].pay].ref = TRUE] /\ UNCHANGED started
     \/ Fault /\ UNCHANGED payment
  /\ Goto(w, "idle")
  /\ UNCHANGED <<invoice, sub, gateway, check>>

\* A faulty form, to test the properties with: the invoice is skipped.
WriteConfirmedOnly(w) ==
  /\ work[w].pc = "confirm"
  /\ payment' = [payment EXCEPT ![work[w].pay].status = "confirmed"]
  /\ Goto(w, "get")
  /\ UNCHANGED <<invoice, sub, gateway, check, started>>

WriteConfirmed(w) ==
  /\ work[w].pc = "confirm"
  /\ payment' = [payment EXCEPT ![work[w].pay].status = "confirmed"]
  /\ Goto(w, "settle")
  /\ UNCHANGED <<invoice, sub, gateway, check, started>>

WriteRejected(w) ==
  /\ work[w].pc = "reject"
  /\ payment' = [payment EXCEPT ![work[w].pay].status = "rejected"]
  /\ Goto(w, "idle")
  /\ gateway' = Answer(w)
  /\ UNCHANGED <<invoice, sub, check, started>>

\* InitiatePayment gives up on a payment the gateway did not accept.
WriteRefused(w) ==
  /\ work[w].pc = "refuse"
  /\ \/ payment' = [payment EXCEPT ![work[w].pay].status = "rejected"] /\ UNCHANGED started
     \/ Fault /\ UNCHANGED payment
  /\ Goto(w, "idle")
  /\ UNCHANGED <<invoice, sub, gateway, check>>

WriteCancelled(w) ==
  /\ work[w].pc = "cancel"
  /\ invoice' = [invoice EXCEPT ![work[w].inv].status = "cancelled"]
  /\ Goto(w, "idle")
  /\ UNCHANGED <<payment, sub, gateway, check, started>>

\* applySettlement: the invoice, then a look at the subscription, then its restoration.
\* An error of any of them is logged or dropped and the webhook is answered all the same.
SettleInvoice(w) ==
  /\ work[w].pc = "settle"
  /\ \/ invoice' = [invoice EXCEPT ![work[w].inv].status = "paid"] /\ UNCHANGED started
     \/ Fault /\ UNCHANGED invoice
  /\ Goto(w, "get")
  /\ UNCHANGED <<payment, sub, gateway, check>>

\* A faulty form, to test the properties with: suspension is forgotten.
SettleGetIsolir(w) ==
  /\ work[w].pc = "get"
  /\ Goto(w, IF sub = "isolir" THEN "restore" ELSE "idle")
  /\ gateway' = IF sub = "isolir" THEN gateway ELSE Answer(w)
  /\ UNCHANGED <<invoice, payment, sub, check, started>>

SettleGet(w) ==
  /\ work[w].pc = "get"
  /\ \/ LET restore == sub \in {"isolir", "suspended"}
        IN /\ Goto(w, IF restore THEN "restore" ELSE "idle")
           /\ gateway' = IF restore THEN gateway ELSE Answer(w)
           /\ UNCHANGED started
     \/ Fault /\ Goto(w, "idle") /\ gateway' = Answer(w)
  /\ UNCHANGED <<invoice, payment, sub, check>>

SettleRestore(w) ==
  /\ work[w].pc = "restore"
  /\ \/ sub' = "active" /\ UNCHANGED started
     \/ Fault /\ UNCHANGED sub
  /\ Goto(w, "idle")
  /\ gateway' = Answer(w)
  /\ UNCHANGED <<invoice, payment, check>>

WorkStep(w) ==
  \/ CreatePayment(w) \/ CallGateway(w) \/ SaveRef(w) \/ WriteConfirmed(w) \/ WriteRejected(w)
  \/ WriteRefused(w) \/ WriteCancelled(w) \/ SettleInvoice(w) \/ SettleGet(w) \/ SettleRestore(w)

-----------------------------------------------------------------------------
(* The suspension check. *)

Listed == {i \in Invoices : Unpaid(i) /\ invoice[i].age > 0}

CheckRun ==
  /\ check.pc = "idle"
  /\ Listed # {}
  /\ check' = [pc |-> "mark",
               marks |-> {i \in Listed : invoice[i].status = "issued"},
               target |-> IF \E i \in Listed : invoice[i].age = 3 THEN "suspended"
                          ELSE IF \E i \in Listed : invoice[i].age = 2 THEN "isolir" ELSE "active"]
  /\ UNCHANGED <<invoice, payment, sub, gateway, work, started>>

CheckMark(i) ==
  /\ check.pc = "mark" /\ i \in check.marks
  /\ \/ invoice' = [invoice EXCEPT ![i].status = "overdue"] /\ UNCHANGED started
     \/ Fault /\ UNCHANGED invoice
  /\ check' = [check EXCEPT !.marks = @ \ {i}]
  /\ UNCHANGED <<payment, sub, gateway, work>>

\* Isolation needs an active subscription, suspension an active or isolated one.
CheckGet ==
  /\ check.pc = "mark" /\ check.marks = {}
  /\ check' = IF \/ check.target = "isolir" /\ sub = "active"
                 \/ check.target = "suspended" /\ sub \in {"active", "isolir"}
                THEN [check EXCEPT !.pc = "write"] ELSE NoCheck
  /\ UNCHANGED <<invoice, payment, sub, gateway, work, started>>

CheckWrite ==
  /\ check.pc = "write"
  /\ \/ sub' = check.target /\ UNCHANGED started
     \/ Fault /\ UNCHANGED sub
  /\ check' = NoCheck
  /\ UNCHANGED <<invoice, payment, gateway, work>>

-----------------------------------------------------------------------------
\* The customer pays at the gateway or the payment link expires; before or after that
\* the gateway may tell of something else.
GatewayEvent(p) ==
  /\ gateway[p].state = "open"
  /\ \E st \in Statuses \ gateway[p].sent :
       /\ st = "OTHER" \/ gateway[p].sent \subseteq {"OTHER"}
       /\ gateway' = [gateway EXCEPT ![p].sent = @ \cup {st}]
  /\ UNCHANGED <<invoice, payment, sub, work, check, started>>

Restart ==
  /\ "restart" \in Ops /\ started < MaxOps /\ started' = started + 1
  /\ work' = [w \in Workers |-> Idle]
  /\ check' = NoCheck
  /\ UNCHANGED <<invoice, payment, sub, gateway>>

Next ==
  \/ \E i \in Invoices : Issue(i) \/ Age(i) \/ CheckMark(i)
  \/ \E w \in Workers : Begin(w) \/ WorkStep(w)
  \/ CheckRun \/ CheckGet \/ CheckWrite
  \/ \E p \in DOMAIN gateway : GatewayEvent(p)
  \/ Restart

Spec == Init /\ [][Next]_vars

TypeOK ==
  /\ invoice \in [Invoices -> [status : InvoiceStatus, age : Ages]]
  /\ payment \in Seq(Payment)
  /\ sub \in {"active", "isolir", "suspended"}
  /\ gateway \in Seq(Gateway) /\ Len(gateway) = Len(payment)
  /\ \A w \in Workers :
       /\ work[w].op \in OpNames /\ work[w].pc \in PCs /\ work[w].note \in Statuses \cup {"none"}
       /\ work[w].pc # "idle" => work[w].inv \in Invoices
       /\ work[w].pc \notin {"idle", "create", "cancel"} => work[w].pay \in DOMAIN payment
  /\ check.pc \in {"idle", "mark", "write"} /\ check.marks \subseteq Invoices
  /\ check.target \in {"active", "isolir", "suspended"}
  /\ started \in 0..MaxOps
=============================================================================
