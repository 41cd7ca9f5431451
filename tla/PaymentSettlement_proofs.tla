---------------------- MODULE PaymentSettlement_proofs ----------------------
(***************************************************************************)
(* Payments for any number of invoices, workers, payments and requests:    *)
(* the tables keep their types; a confirmed payment is settled, a settled  *)
(* customer is served, money at the gateway is recorded and cash is taken  *)
(* once, each unless one of the named causes came between.                 *)
(***************************************************************************)
EXTENDS PaymentCollection, SequenceTheorems, TLAPS

Work == [op : OpNames, pc : PCs, pay : Nat, inv : Invoices \cup {0}, note : Statuses \cup {"none"}]
Check == [pc : {"idle", "mark", "write"}, marks : SUBSET Invoices,
          target : {"active", "isolir", "suspended"}]

(* What a request remembers is true of the tables it works on: its payment   *)
(* is one of its invoice; a webhook is about something the gateway has sent; *)
(* a payment the gateway has not been asked about is not there yet.          *)
Linked(w) ==
  LET k == work[w]
  IN /\ k.pc # "idle" => k.inv \in Invoices
     /\ k.pc \notin {"idle", "create", "cancel"} =>
          /\ k.pay \in DOMAIN payment
          /\ payment[k.pay].invoice = k.inv
     /\ k.op = "Webhook" /\ k.pc # "idle" =>
          /\ k.pc \in {"confirm", "reject", "settle", "get", "restore"}
          /\ k.note \in gateway[k.pay].sent
          /\ k.note = "PAID" <=> k.pc # "reject"
     /\ k.pc = "call" => gateway[k.pay].state = "none"

(* Only one request asks the gateway about a payment. *)
CalledOnce ==
  \A v, w \in Workers :
    work[v].pc = "call" /\ work[w].pc = "call" /\ work[v].pay = work[w].pay => v = w

(* The gateway has answers only to what it has sent, about what it has. *)
AnsweredIsOver ==
  \A p \in DOMAIN payment :
    /\ gateway[p].answered \subseteq gateway[p].sent
    /\ gateway[p].state = "none" => gateway[p].sent = {}

Sound ==
  /\ TypeOK
  /\ work \in [Workers -> Work] /\ check \in Check
  /\ \A w \in Workers : Linked(w)
  /\ CalledOnce /\ AnsweredIsOver

(* A request that settles or restores has confirmed its payment, unless that *)
(* was contradicted.                                                         *)
ConfirmedFirst ==
  \A w \in Workers : work[w].pc \in {"settle", "get", "restore"} =>
    payment[work[w].pay].status = "confirmed" \/ work[w].pay \in strayed

(* The cash for an invoice is being booked, and nobody else is about to take *)
(* it.                                                                       *)
Booked ==
  \A p \in DOMAIN payment :
    LET i == payment[p].invoice
    IN payment[p].op \in OverTheCounter =>
         \/ i \in disputed
         \/ /\ invoice[i].status = "paid" \/ \E w \in Workers : Settling(w, i)
            /\ \A v \in Workers : ~(work[v].pc = "create" /\ work[v].inv = i)

-----------------------------------------------------------------------------
(* The tables as functions on the ids. *)
LEMMA Tables ==
  ASSUME Sound
  PROVE  /\ payment \in Seq(Payment) /\ gateway \in Seq(Gateway) /\ Len(gateway) = Len(payment)
         /\ Len(payment) \in Nat
         /\ DOMAIN payment = 1..Len(payment) /\ DOMAIN gateway = DOMAIN payment
         /\ \A p \in DOMAIN payment : payment[p] \in Payment /\ gateway[p] \in Gateway
  BY DEF Sound, TypeOK

LEMMA IdleWork == Idle \in Work /\ Idle.pc = "idle"
  BY DEF Idle, Work, OpNames, PCs

LEMMA NoCheckCheck == NoCheck \in Check
  BY DEF NoCheck, Check

(* A request moves on to its next statement. *)
LEMMA GotoEffect ==
  ASSUME Sound, NEW w \in Workers, NEW pc \in PCs, Goto(w, pc)
  PROVE  /\ work' \in [Workers -> Work] /\ work'[w].pc = pc
         /\ pc # "idle" => /\ work'[w].op = work[w].op /\ work'[w].pay = work[w].pay
                           /\ work'[w].inv = work[w].inv /\ work'[w].note = work[w].note
         /\ \A v \in Workers \ {w} : work'[v] = work[v]
<1> DEFINE k == IF pc = "idle" THEN Idle ELSE [work[w] EXCEPT !.pc = pc]
<1>1. work \in [Workers -> Work] /\ work[w] \in Work
    BY DEF Sound
<1>2. /\ k \in Work /\ k.pc = pc
      /\ pc # "idle" => /\ k.op = work[w].op /\ k.pay = work[w].pay /\ k.inv = work[w].inv
                        /\ k.note = work[w].note
    BY <1>1, IdleWork DEF Work
<1>3. work' = [work EXCEPT ![w] = k]
    BY DEF Goto
<1> HIDE DEF k
<1> QED BY <1>1, <1>2, <1>3

(* A request begins. *)
LEMMA StartEffect ==
  ASSUME Sound, NEW w \in Workers, NEW op \in OpNames, NEW pc \in PCs, NEW p \in Nat, NEW i \in Invoices,
         NEW note \in Statuses \cup {"none"}, Start(w, op, pc, p, i, note)
  PROVE  /\ UNCHANGED <<invoice, payment, sub, gateway, check>>
         /\ started' \in 0..MaxOps /\ started' # started
         /\ work' \in [Workers -> Work] /\ work[w].pc = "idle"
         /\ work'[w] = [op |-> op, pc |-> pc, pay |-> p, inv |-> i, note |-> note]
         /\ \A v \in Workers \ {w} : work'[v] = work[v]
<1>1. work \in [Workers -> Work] /\ [op |-> op, pc |-> pc, pay |-> p, inv |-> i, note |-> note] \in Work
    BY DEF Sound, Work
<1>2. started' \in 0..MaxOps /\ started' # started
    BY PaymentsAssumption DEF Start, Sound, TypeOK
<1> QED BY <1>1, <1>2 DEF Start

(* A statement fails. *)
LEMMA FaultEffect ==
  ASSUME Sound, Fault \/ started' = started
  PROVE  started' \in 0..MaxOps /\ (Fault => started' # started)
  BY PaymentsAssumption DEF Fault, Sound, TypeOK

(* The writes, row by row. *)
LEMMA PaymentWritten ==
  ASSUME Sound, NEW p \in DOMAIN payment, NEW r \in Payment,
         payment' = [payment EXCEPT ![p] = r]
  PROVE  /\ payment' \in Seq(Payment) /\ Len(payment') = Len(payment)
         /\ DOMAIN payment' = DOMAIN payment
         /\ \A q \in DOMAIN payment : payment'[q] = IF q = p THEN r ELSE payment[q]
<1>1. payment \in Seq(Payment) /\ p \in 1..Len(payment) /\ DOMAIN payment = 1..Len(payment)
    BY Tables
<1> QED BY <1>1, ExceptSeq

LEMMA StatusWritten ==
  ASSUME Sound, NEW p \in DOMAIN payment, NEW st \in {"pending", "confirmed", "rejected"},
         payment' = [payment EXCEPT ![p].status = st]
  PROVE  /\ payment' \in Seq(Payment) /\ Len(payment') = Len(payment)
         /\ DOMAIN payment' = DOMAIN payment
         /\ payment'[p].status = st
         /\ \A q \in DOMAIN payment :
              /\ payment'[q].invoice = payment[q].invoice /\ payment'[q].op = payment[q].op
              /\ payment'[q].ref = payment[q].ref
              /\ q # p => payment'[q] = payment[q]
<1> DEFINE r == [payment[p] EXCEPT !.status = st]
<1>1. /\ r \in Payment /\ r.status = st /\ r.invoice = payment[p].invoice
      /\ r.op = payment[p].op /\ r.ref = payment[p].ref
    BY Tables DEF Payment
<1>2. payment' = [payment EXCEPT ![p] = r]
    OBVIOUS
<1> HIDE DEF r
<1>3. /\ payment' \in Seq(Payment) /\ Len(payment') = Len(payment)
      /\ DOMAIN payment' = DOMAIN payment
      /\ \A q \in DOMAIN payment : payment'[q] = IF q = p THEN r ELSE payment[q]
    BY <1>1, <1>2, PaymentWritten
<1> QED BY <1>1, <1>3

LEMMA RefWritten ==
  ASSUME Sound, NEW p \in DOMAIN payment, payment' = [payment EXCEPT ![p].ref = TRUE]
  PROVE  /\ payment' \in Seq(Payment) /\ Len(payment') = Len(payment)
         /\ DOMAIN payment' = DOMAIN payment
         /\ \A q \in DOMAIN payment :
              /\ payment'[q].invoice = payment[q].invoice /\ payment'[q].op = payment[q].op
              /\ payment'[q].status = payment[q].status
<1> DEFINE r == [payment[p] EXCEPT !.ref = TRUE]
<1>1. /\ r \in Payment /\ r.status = payment[p].status /\ r.invoice = payment[p].invoice
      /\ r.op = payment[p].op
    BY Tables DEF Payment
<1>2. payment' = [payment EXCEPT ![p] = r]
    OBVIOUS
<1> HIDE DEF r
<1>3. /\ payment' \in Seq(Payment) /\ Len(payment') = Len(payment)
      /\ DOMAIN payment' = DOMAIN payment
      /\ \A q \in DOMAIN payment : payment'[q] = IF q = p THEN r ELSE payment[q]
    BY <1>1, <1>2, PaymentWritten
<1> QED BY <1>1, <1>3

LEMMA GatewayWritten ==
  ASSUME Sound, NEW p \in DOMAIN payment, NEW g \in Gateway,
         gateway' = [gateway EXCEPT ![p] = g]
  PROVE  /\ gateway' \in Seq(Gateway) /\ Len(gateway') = Len(gateway)
         /\ DOMAIN gateway' = DOMAIN payment
         /\ gateway'[p] = g /\ \A q \in DOMAIN payment \ {p} : gateway'[q] = gateway[q]
  BY Tables, ExceptSeq

LEMMA StateWritten ==
  ASSUME Sound, NEW p \in DOMAIN payment, NEW st \in {"none", "open"},
         gateway' = [gateway EXCEPT ![p].state = st]
  PROVE  /\ gateway' \in Seq(Gateway) /\ Len(gateway') = Len(gateway)
         /\ gateway'[p].state = st /\ gateway'[p].answered = gateway[p].answered
         /\ gateway'[p].sent = gateway[p].sent
         /\ \A q \in DOMAIN payment \ {p} : gateway'[q] = gateway[q]
<1> DEFINE g == [gateway[p] EXCEPT !.state = st]
<1>1. g \in Gateway /\ g.state = st /\ g.answered = gateway[p].answered /\ g.sent = gateway[p].sent
    BY Tables DEF Gateway
<1>2. gateway' = [gateway EXCEPT ![p] = g]
    OBVIOUS
<1> HIDE DEF g
<1> QED BY <1>1, <1>2, GatewayWritten

LEMMA SentWritten ==
  ASSUME Sound, NEW p \in DOMAIN payment, NEW st \in Statuses,
         gateway' = [gateway EXCEPT ![p].sent = @ \cup {st}]
  PROVE  /\ gateway' \in Seq(Gateway) /\ Len(gateway') = Len(gateway)
         /\ gateway'[p].state = gateway[p].state /\ gateway'[p].answered = gateway[p].answered
         /\ gateway'[p].sent = gateway[p].sent \cup {st}
         /\ \A q \in DOMAIN payment \ {p} : gateway'[q] = gateway[q]
<1> DEFINE g == [gateway[p] EXCEPT !.sent = @ \cup {st}]
<1>1. /\ g \in Gateway /\ g.state = gateway[p].state /\ g.answered = gateway[p].answered
      /\ g.sent = gateway[p].sent \cup {st}
    BY Tables DEF Gateway
<1>2. gateway' = [gateway EXCEPT ![p] = g]
    OBVIOUS
<1> HIDE DEF g
<1> QED BY <1>1, <1>2, GatewayWritten

LEMMA AnswerWritten ==
  ASSUME Sound, NEW p \in DOMAIN payment, NEW st \in Statuses,
         gateway' = [gateway EXCEPT ![p].answered = @ \cup {st}]
  PROVE  /\ gateway' \in Seq(Gateway) /\ Len(gateway') = Len(gateway)
         /\ gateway'[p].state = gateway[p].state /\ gateway'[p].sent = gateway[p].sent
         /\ gateway'[p].answered = gateway[p].answered \cup {st}
         /\ \A q \in DOMAIN payment \ {p} : gateway'[q] = gateway[q]
<1> DEFINE g == [gateway[p] EXCEPT !.answered = @ \cup {st}]
<1>1. /\ g \in Gateway /\ g.state = gateway[p].state /\ g.sent = gateway[p].sent
      /\ g.answered = gateway[p].answered \cup {st}
    BY Tables DEF Gateway
<1>2. gateway' = [gateway EXCEPT ![p] = g]
    OBVIOUS
<1> HIDE DEF g
<1> QED BY <1>1, <1>2, GatewayWritten

(* The answer to a webhook leaves every other notification alone. *)
LEMMA AnswerEffect ==
  ASSUME Sound, NEW w \in Workers, work[w].pc \in {"reject", "get", "restore"}, gateway' = Answer(w)
  PROVE  /\ gateway' \in Seq(Gateway) /\ Len(gateway') = Len(gateway)
         /\ \A q \in DOMAIN payment : gateway'[q].state = gateway[q].state /\ gateway'[q].sent = gateway[q].sent
         /\ \A q \in DOMAIN payment :
              \/ gateway'[q] = gateway[q]
              \/ /\ q = work[w].pay /\ work[w].op = "Webhook" /\ work[w].note \in gateway[q].sent
                 /\ gateway'[q].answered = gateway[q].answered \cup {work[w].note}
<1>1. work[w].pay \in DOMAIN payment
    BY DEF Sound, Linked
<1>2. CASE work[w].op = "Webhook"
  <2>1. gateway' = [gateway EXCEPT ![work[w].pay].answered = @ \cup {work[w].note}]
      BY <1>2 DEF Answer
  <2>2. work[w].note \in gateway[work[w].pay].sent
      BY <1>2 DEF Sound, Linked
  <2>3. work[w].note \in Statuses
      BY <1>1, <2>2, Tables DEF Gateway
  <2> DEFINE q == work[w].pay
             st == work[w].note
  <2>4. q \in DOMAIN payment /\ st \in Statuses /\ gateway' = [gateway EXCEPT ![q].answered = @ \cup {st}]
      BY <1>1, <2>1, <2>3
  <2> HIDE DEF q, st
  <2>5. /\ gateway' \in Seq(Gateway) /\ Len(gateway') = Len(gateway)
        /\ gateway'[q].state = gateway[q].state /\ gateway'[q].sent = gateway[q].sent
        /\ gateway'[q].answered = gateway[q].answered \cup {st}
        /\ \A r \in DOMAIN payment \ {q} : gateway'[r] = gateway[r]
      BY <2>4, AnswerWritten
  <2> QED BY <1>2, <2>2, <2>5 DEF q, st
<1>3. CASE work[w].op # "Webhook"
    BY <1>3, Tables DEF Answer
<1> QED BY <1>2, <1>3

-----------------------------------------------------------------------------
(* A row keeps its invoice, and what the gateway has sent stands. *)
Kept ==
  /\ payment' \in Seq(Payment) /\ gateway' \in Seq(Gateway) /\ Len(gateway') = Len(payment')
  /\ Len(payment') >= Len(payment)
  /\ \A p \in DOMAIN payment : payment'[p].invoice = payment[p].invoice
  /\ \A p \in DOMAIN payment : gateway[p].sent \subseteq gateway'[p].sent

(* So what a request remembers stays true while others work. *)
LEMMA LinksKept ==
  ASSUME Sound, Kept, NEW v \in Workers, work'[v] = work[v],
         work[v].pc = "call" => gateway'[work[v].pay].state = "none"
  PROVE  Linked(v)'
<1>1. DOMAIN payment \subseteq DOMAIN payment'
    BY Tables DEF Kept
<1>2. Linked(v)
    BY DEF Sound
<1> QED BY <1>1, <1>2 DEF Linked, Kept

(* A step of one request. *)
LEMMA WorkerKeepsSound ==
  ASSUME Sound, Kept, NEW w \in Workers,
         work' \in [Workers -> Work], \A v \in Workers \ {w} : work'[v] = work[v],
         \A v \in Workers \ {w} : work[v].pc = "call" => gateway'[work[v].pay].state = "none",
         Linked(w)', CalledOnce', AnsweredIsOver',
         invoice' \in [Invoices -> [status : InvoiceStatus, age : Ages]],
         sub' \in {"active", "isolir", "suspended"}, check' = check, started' \in 0..MaxOps
  PROVE  Sound'
<1>1. \A v \in Workers : Linked(v)'
    BY LinksKept
<1>2. \A v \in Workers : work'[v] \in Work
    OBVIOUS
<1>3. check' \in Check
    BY DEF Sound
<1>4. TypeOK'
    BY <1>1, <1>2, <1>3 DEF TypeOK, Kept, Linked, Work, Check
<1> QED BY <1>1, <1>3, <1>4 DEF Sound

(* A step of a request that does not ask the gateway. *)
LEMMA QuietKeepsSound ==
  ASSUME Sound, NEW w \in Workers,
         payment' \in Seq(Payment), Len(payment') = Len(payment),
         \A p \in DOMAIN payment : payment'[p].invoice = payment[p].invoice,
         gateway' \in Seq(Gateway), Len(gateway') = Len(gateway),
         \A p \in DOMAIN payment : gateway'[p].state = gateway[p].state /\ gateway'[p].sent = gateway[p].sent,
         work' \in [Workers -> Work], \A v \in Workers \ {w} : work'[v] = work[v],
         work'[w].pc # "call", Linked(w)', AnsweredIsOver',
         invoice' \in [Invoices -> [status : InvoiceStatus, age : Ages]],
         sub' \in {"active", "isolir", "suspended"}, check' = check, started' \in 0..MaxOps
  PROVE  Sound'
<1>1. Kept
    BY Tables DEF Kept
<1>2. \A v \in Workers \ {w} : work[v].pc = "call" => gateway'[work[v].pay].state = "none"
    BY DEF Sound, Linked
<1>3. CalledOnce'
    BY DEF Sound, CalledOnce
<1> QED BY <1>1, <1>2, <1>3, WorkerKeepsSound

LEMMA Unwritten ==
  ASSUME Sound, UNCHANGED <<payment, gateway>>
  PROVE  /\ payment' \in Seq(Payment) /\ Len(payment') = Len(payment)
         /\ gateway' \in Seq(Gateway) /\ Len(gateway') = Len(gateway)
         /\ \A p \in DOMAIN payment : payment'[p] = payment[p] /\ gateway'[p] = gateway[p]
         /\ AnsweredIsOver'
  BY Tables DEF Sound, AnsweredIsOver

LEMMA StartKeepsSound ==
  ASSUME Sound, NEW w \in Workers, NEW op \in OpNames, NEW p \in Nat, NEW i \in Invoices,
         NEW pc \in {"create", "cancel", "confirm", "reject"}, NEW note \in Statuses \cup {"none"},
         Start(w, op, pc, p, i, note),
         pc \in {"confirm", "reject"} => p \in DOMAIN payment /\ payment[p].invoice = i,
         op = "Webhook" =>
           /\ pc \in {"confirm", "reject"}
           /\ note \in gateway[p].sent
           /\ note = "PAID" <=> pc # "reject"
  PROVE  Sound'
<1>0. pc \in PCs
    BY DEF PCs
<1>1. /\ UNCHANGED <<invoice, payment, sub, gateway, check>> /\ started' \in 0..MaxOps
      /\ work' \in [Workers -> Work]
      /\ work'[w] = [op |-> op, pc |-> pc, pay |-> p, inv |-> i, note |-> note]
      /\ \A v \in Workers \ {w} : work'[v] = work[v]
    BY <1>0, StartEffect
<1>2. Linked(w)'
    BY <1>1 DEF Linked
<1>3. /\ invoice' \in [Invoices -> [status : InvoiceStatus, age : Ages]]
      /\ sub' \in {"active", "isolir", "suspended"}
    BY <1>1 DEF Sound, TypeOK
<1>4. work'[w].pc # "call"
    BY <1>1
<1> QED BY <1>1, <1>2, <1>3, <1>4, Unwritten, QuietKeepsSound

(* The gateway gets an answer. *)
LEMMA SkipKeepsSound ==
  ASSUME Sound, NEW p \in DOMAIN payment, NEW st \in gateway[p].sent,
         gateway' = [gateway EXCEPT ![p].answered = @ \cup {st}], started' \in 0..MaxOps,
         UNCHANGED <<invoice, payment, sub, work, check>>
  PROVE  Sound'
<1>0. st \in Statuses
    BY Tables DEF Gateway
<1>1. /\ gateway' \in Seq(Gateway) /\ Len(gateway') = Len(gateway)
      /\ \A q \in DOMAIN payment : gateway'[q].state = gateway[q].state /\ gateway'[q].sent = gateway[q].sent
      /\ gateway'[p].answered = gateway[p].answered \cup {st}
      /\ \A q \in DOMAIN payment \ {p} : gateway'[q] = gateway[q]
    BY <1>0, AnswerWritten
<1>2. AnsweredIsOver'
    BY <1>1 DEF Sound, AnsweredIsOver
<1>3. Kept
    BY <1>1, Tables DEF Kept
<1>4. \A v \in Workers : Linked(v)'
    BY <1>1, <1>3, LinksKept DEF Sound, Linked
<1>5. TypeOK'
    BY <1>1 DEF Sound, TypeOK
<1> QED BY <1>2, <1>4, <1>5 DEF Sound, CalledOnce

LEMMA BeginKeepsSound ==
  ASSUME Sound, NEW w \in Workers, Begin(w)
  PROVE  Sound'
<1>0. /\ {"CreateManual", "Collect", "CreatePortalPayment", "InitiatePayment", "Cancel", "Confirm",
          "Reject", "Webhook"} \subseteq OpNames
      /\ DOMAIN payment \subseteq Nat
      /\ \A p \in DOMAIN payment : payment[p].invoice \in Invoices
    BY Tables DEF OpNames, Payment
<1>1. ASSUME NEW op \in Ops, NEW i \in Invoices, Pay(w, op, i) PROVE Sound'
    BY <1>0, <1>1, StartKeepsSound DEF Pay
<1>2. ASSUME NEW i \in Invoices, Cancel(w, i) PROVE Sound'
    BY <1>0, <1>2, StartKeepsSound DEF Cancel
<1>3. ASSUME NEW p \in DOMAIN payment, Confirm(w, p) PROVE Sound'
    BY <1>0, <1>3, StartKeepsSound DEF Confirm
<1>4. ASSUME NEW p \in DOMAIN payment, Reject(w, p) PROVE Sound'
    BY <1>0, <1>4, StartKeepsSound DEF Reject
<1>5. ASSUME NEW p \in DOMAIN payment, NEW st \in Statuses, Webhook(w, p, st) PROVE Sound'
  <2>1. st \in gateway[p].sent
      BY <1>5 DEF Webhook
  <2>2. CASE Start(w, "Webhook", IF ParseWebhookEvent(st) = "paid" THEN "confirm" ELSE "reject", p,
                   payment[p].invoice, st)
    <3>1. CASE st = "PAID"
        BY <1>0, <2>1, <2>2, <3>1, StartKeepsSound DEF ParseWebhookEvent
    <3>2. CASE st # "PAID"
      <4>1. Start(w, "Webhook", "reject", p, payment[p].invoice, st)
          BY <2>2, <3>2 DEF ParseWebhookEvent
      <4> QED BY <1>0, <2>1, <3>2, <4>1, StartKeepsSound
    <3> QED BY <3>1, <3>2
  <2>3. CASE /\ Answered(p, st) /\ (Fault \/ UNCHANGED started)
             /\ UNCHANGED <<invoice, payment, sub, work, check>>
    <3>1. started' \in 0..MaxOps
        BY <2>3, FaultEffect
    <3> QED BY <2>1, <2>3, <3>1, SkipKeepsSound DEF Answered
  <2> QED BY <1>5, <2>2, <2>3 DEF Webhook
<1> QED BY <1>1, <1>2, <1>3, <1>4, <1>5 DEF Begin

-----------------------------------------------------------------------------
(* CreatePayment: refused for its key, or one more row in both tables. *)
LEMMA CreateEffect ==
  ASSUME Sound, NEW w \in Workers, CreatePayment(w), ~(Goto(w, "idle") /\ UNCHANGED <<payment, gateway>>)
  PROVE  LET k == work[w]
             instant == k.op \in {"CreateManual", "Collect"}
         IN /\ payment' \in Seq(Payment) /\ gateway' \in Seq(Gateway)
            /\ Len(payment') = Len(payment) + 1 /\ Len(gateway') = Len(payment')
            /\ DOMAIN payment' = DOMAIN payment \cup {newId} /\ newId \notin DOMAIN payment
            /\ \A p \in DOMAIN payment : payment'[p] = payment[p] /\ gateway'[p] = gateway[p]
            /\ payment'[newId] = [status |-> IF instant THEN "confirmed" ELSE "pending",
                                  invoice |-> k.inv, op |-> k.op, ref |-> FALSE]
            /\ gateway'[newId] = NotAtGateway
            /\ work' \in [Workers -> Work]
            /\ \/ k.op = "CreatePortalPayment" /\ work'[w] = Idle
               \/ /\ k.op # "CreatePortalPayment"
                  /\ work'[w].pc = IF instant THEN "settle" ELSE "call"
                  /\ work'[w].pay = newId /\ work'[w].inv = k.inv /\ work'[w].op = k.op
            /\ \A v \in Workers \ {w} : work'[v] = work[v]
<1> DEFINE k == work[w]
           instant == k.op \in {"CreateManual", "Collect"}
           row == [status |-> IF instant THEN "confirmed" ELSE "pending",
                   invoice |-> k.inv, op |-> k.op, ref |-> FALSE]
           next == IF k.op = "CreatePortalPayment" THEN Idle
                   ELSE [k EXCEPT !.pc = IF instant THEN "settle" ELSE "call", !.pay = newId]
<1>1. /\ payment' = Append(payment, row) /\ gateway' = Append(gateway, NotAtGateway)
      /\ work' = [work EXCEPT ![w] = next]
    BY DEF CreatePayment
<1>2. k \in Work /\ k.inv \in Invoices /\ work \in [Workers -> Work] /\ newId \in Nat
    BY Tables DEF Sound, Linked, CreatePayment, newId
<1>3. row \in Payment
    BY <1>2 DEF Payment, Work
<1>4. NotAtGateway \in Gateway
    BY DEF NotAtGateway, Gateway
<1>5. /\ next \in Work
      /\ \/ k.op = "CreatePortalPayment" /\ next = Idle
         \/ /\ k.op # "CreatePortalPayment"
            /\ next.pc = IF instant THEN "settle" ELSE "call"
            /\ next.pay = newId /\ next.inv = k.inv /\ next.op = k.op
  <2>1. CASE k.op = "CreatePortalPayment"
      BY <2>1, IdleWork
  <2>2. CASE k.op # "CreatePortalPayment"
    <3>1. (IF instant THEN "settle" ELSE "call") \in PCs
        BY DEF PCs
    <3> QED BY <1>2, <2>2, <3>1 DEF Work
  <2> QED BY <2>1, <2>2
<1> HIDE DEF row, next
<1>6. /\ payment' \in Seq(Payment) /\ Len(payment') = Len(payment) + 1
      /\ \A p \in 1..Len(payment) : payment'[p] = payment[p]
      /\ payment'[newId] = row
  <2>1. payment \in Seq(Payment)
      BY Tables
  <2>2. /\ Append(payment, row) \in Seq(Payment)
        /\ Len(Append(payment, row)) = Len(payment) + 1
        /\ \A p \in 1..Len(payment) : Append(payment, row)[p] = payment[p]
        /\ Append(payment, row)[Len(payment) + 1] = row
      BY <1>3, <2>1, AppendProperties
  <2> QED BY <1>1, <2>2, Zenon DEF newId
<1>7. /\ gateway' \in Seq(Gateway) /\ Len(gateway') = Len(gateway) + 1
      /\ \A p \in 1..Len(payment) : gateway'[p] = gateway[p]
      /\ gateway'[newId] = NotAtGateway
  <2>1. gateway \in Seq(Gateway) /\ Len(gateway) = Len(payment)
      BY Tables
  <2>2. /\ Append(gateway, NotAtGateway) \in Seq(Gateway)
        /\ Len(Append(gateway, NotAtGateway)) = Len(gateway) + 1
        /\ \A p \in 1..Len(gateway) : Append(gateway, NotAtGateway)[p] = gateway[p]
        /\ Append(gateway, NotAtGateway)[Len(gateway) + 1] = NotAtGateway
      BY <1>4, <2>1, AppendProperties
  <2> QED BY <1>1, <2>1, <2>2, Zenon DEF newId
<1>8. DOMAIN payment' = DOMAIN payment \cup {newId} /\ newId \notin DOMAIN payment
  <2>1. DOMAIN payment' = 1..(Len(payment) + 1) /\ DOMAIN payment = 1..Len(payment) /\ Len(payment) \in Nat
      BY <1>6, Tables
  <2> QED BY <2>1 DEF newId
<1>9. work' \in [Workers -> Work] /\ work'[w] = next /\ \A v \in Workers \ {w} : work'[v] = work[v]
    BY <1>1, <1>2, <1>5
<1> QED BY <1>5, <1>6, <1>7, <1>8, <1>9, Tables DEF row

LEMMA CreateKeepsSound ==
  ASSUME Sound, NEW w \in Workers, CreatePayment(w)
  PROVE  Sound'
<1>0. /\ invoice' = invoice /\ sub' = sub /\ check' = check /\ started' = started
      /\ invoice' \in [Invoices -> [status : InvoiceStatus, age : Ages]]
      /\ sub' \in {"active", "isolir", "suspended"} /\ started' \in 0..MaxOps
      /\ work[w].pc = "create"
    BY DEF CreatePayment, Sound, TypeOK
<1>1. CASE Goto(w, "idle") /\ UNCHANGED <<payment, gateway>>
  <2>1. /\ work' \in [Workers -> Work] /\ work'[w].pc = "idle"
        /\ \A v \in Workers \ {w} : work'[v] = work[v]
      BY <1>1, GotoEffect DEF PCs
  <2>2. Linked(w)'
      BY <2>1 DEF Linked
  <2> QED BY <1>0, <1>1, <2>1, <2>2, Unwritten, QuietKeepsSound
<1>2. CASE ~(Goto(w, "idle") /\ UNCHANGED <<payment, gateway>>)
  <2> DEFINE k == work[w]
             instant == k.op \in {"CreateManual", "Collect"}
  <2>1. /\ payment' \in Seq(Payment) /\ gateway' \in Seq(Gateway)
        /\ Len(payment') = Len(payment) + 1 /\ Len(gateway') = Len(payment')
        /\ DOMAIN payment' = DOMAIN payment \cup {newId} /\ newId \notin DOMAIN payment
        /\ \A p \in DOMAIN payment : payment'[p] = payment[p] /\ gateway'[p] = gateway[p]
        /\ payment'[newId] = [status |-> IF instant THEN "confirmed" ELSE "pending",
                              invoice |-> k.inv, op |-> k.op, ref |-> FALSE]
        /\ gateway'[newId] = NotAtGateway
        /\ work' \in [Workers -> Work]
        /\ \/ k.op = "CreatePortalPayment" /\ work'[w] = Idle
           \/ /\ k.op # "CreatePortalPayment"
              /\ work'[w].pc = IF instant THEN "settle" ELSE "call"
              /\ work'[w].pay = newId /\ work'[w].inv = k.inv /\ work'[w].op = k.op
        /\ \A v \in Workers \ {w} : work'[v] = work[v]
      BY <1>2, CreateEffect
  <2>2. Kept
      BY <2>1, Tables DEF Kept
  <2>3. \A v \in Workers \ {w} : work[v].pc = "call" =>
          work[v].pay # newId /\ gateway'[work[v].pay].state = "none"
      BY <2>1 DEF Sound, Linked
  <2>4. Linked(w)'
    <3>1. k.inv \in Invoices /\ k.op # "Webhook"
        BY <1>0 DEF Sound, Linked
    <3>2. payment'[newId].invoice = k.inv /\ gateway'[newId].state = "none" /\ newId \in DOMAIN payment'
        BY <2>1 DEF NotAtGateway
    <3>3. CASE work'[w].pc = "idle"
        BY <3>3 DEF Linked
    <3>4. CASE /\ work'[w].pc = IF instant THEN "settle" ELSE "call"
               /\ work'[w].pay = newId /\ work'[w].inv = k.inv /\ work'[w].op = k.op
        BY <3>1, <3>2, <3>4 DEF Linked
    <3> QED BY <2>1, <3>3, <3>4, IdleWork
  <2>5. CalledOnce'
      BY <2>1, <2>3, IdleWork DEF Sound, CalledOnce
  <2>6. AnsweredIsOver'
      BY <2>1 DEF Sound, AnsweredIsOver, NotAtGateway
  <2> QED BY <1>0, <2>1, <2>2, <2>3, <2>4, <2>5, <2>6, WorkerKeepsSound
<1> QED BY <1>1, <1>2

(* CallGateway: the only writer of a state that no event has touched. *)
LEMMA CallKeepsSound ==
  ASSUME Sound, NEW w \in Workers, CallGateway(w)
  PROVE  Sound'
<1> DEFINE p == work[w].pay
<1>0. /\ invoice' = invoice /\ payment' = payment /\ sub' = sub /\ check' = check /\ started' = started
      /\ invoice' \in [Invoices -> [status : InvoiceStatus, age : Ages]]
      /\ sub' \in {"active", "isolir", "suspended"} /\ started' \in 0..MaxOps
      /\ work[w].pc = "call"
    BY DEF CallGateway, Sound, TypeOK
<1>1. /\ p \in DOMAIN payment /\ payment[p].invoice = work[w].inv /\ work[w].inv \in Invoices
      /\ gateway[p].state = "none" /\ gateway[p].sent = {} /\ work[w].op # "Webhook"
    BY <1>0 DEF Sound, Linked, AnsweredIsOver
<1>2. PICK pc \in {"ref", "refuse"}, st \in {"none", "open"} :
        Goto(w, pc) /\ gateway' = [gateway EXCEPT ![p].state = st]
    BY DEF CallGateway
<1>3. /\ work' \in [Workers -> Work] /\ work'[w].pc = pc
      /\ work'[w].op = work[w].op /\ work'[w].pay = p /\ work'[w].inv = work[w].inv
      /\ \A v \in Workers \ {w} : work'[v] = work[v]
    BY <1>2, GotoEffect DEF PCs
<1> HIDE DEF p
<1>4. /\ gateway' \in Seq(Gateway) /\ Len(gateway') = Len(gateway)
      /\ gateway'[p].answered = gateway[p].answered /\ gateway'[p].sent = gateway[p].sent
      /\ \A q \in DOMAIN payment \ {p} : gateway'[q] = gateway[q]
    BY <1>1, <1>2, StateWritten
<1>5. Kept
  <2>1. \A q \in DOMAIN payment : gateway[q].sent \subseteq gateway'[q].sent
      BY <1>1, <1>4
  <2>2. payment \in Seq(Payment) /\ Len(gateway) = Len(payment) /\ Len(payment) \in Nat
      BY Tables
  <2> QED BY <1>0, <1>4, <2>1, <2>2 DEF Kept
<1>6. \A v \in Workers \ {w} : work[v].pc = "call" => gateway'[work[v].pay].state = "none"
    BY <1>0, <1>4 DEF Sound, CalledOnce, Linked, p
<1>7. Linked(w)'
    BY <1>0, <1>1, <1>3 DEF Linked
<1>8. CalledOnce'
    BY <1>3 DEF Sound, CalledOnce
<1>9. AnsweredIsOver'
    BY <1>0, <1>1, <1>4 DEF Sound, AnsweredIsOver
<1> QED BY <1>0, <1>3, <1>5, <1>6, <1>7, <1>8, <1>9, WorkerKeepsSound

(* A statement of a request that has its payment: what it may write. *)
LEMMA StatementKeepsSound ==
  ASSUME Sound, NEW w \in Workers, NEW pc \in {"idle", "settle", "get", "restore"}, Goto(w, pc),
         work[w].pc \in {"ref", "confirm", "reject", "refuse", "cancel", "settle", "get", "restore"},
         pc # "idle" => work[w].pc \in {"confirm", "settle", "get"},
         \/ payment' = payment
         \/ /\ work[w].pc \in {"ref", "confirm", "reject", "refuse"}
            /\ \/ payment' = [payment EXCEPT ![work[w].pay].ref = TRUE]
               \/ \E st \in {"confirmed", "rejected"} :
                    payment' = [payment EXCEPT ![work[w].pay].status = st],
         \/ gateway' = gateway
         \/ work[w].pc \in {"reject", "get", "restore"} /\ gateway' = Answer(w),
         invoice' \in [Invoices -> [status : InvoiceStatus, age : Ages]],
         sub' \in {"active", "isolir", "suspended"}, check' = check, started' \in 0..MaxOps
  PROVE  Sound'
<1>1. /\ work' \in [Workers -> Work] /\ work'[w].pc = pc
      /\ pc # "idle" => /\ work'[w].op = work[w].op /\ work'[w].pay = work[w].pay
                        /\ work'[w].inv = work[w].inv /\ work'[w].note = work[w].note
      /\ \A v \in Workers \ {w} : work'[v] = work[v]
    BY GotoEffect DEF PCs
<1>2. /\ payment' \in Seq(Payment) /\ Len(payment') = Len(payment) /\ DOMAIN payment' = DOMAIN payment
      /\ \A p \in DOMAIN payment : payment'[p].invoice = payment[p].invoice
  <2>1. CASE payment' = payment
      BY <2>1, Tables
  <2>2. CASE work[w].pc \in {"ref", "confirm", "reject", "refuse"} /\ payment' # payment
    <3>1. work[w].pay \in DOMAIN payment
        BY <2>2 DEF Sound, Linked
    <3>2. CASE payment' = [payment EXCEPT ![work[w].pay].ref = TRUE]
        BY <3>1, <3>2, RefWritten
    <3>3. ASSUME NEW st \in {"confirmed", "rejected"},
                 payment' = [payment EXCEPT ![work[w].pay].status = st]
          PROVE  /\ payment' \in Seq(Payment) /\ Len(payment') = Len(payment)
                 /\ DOMAIN payment' = DOMAIN payment
                 /\ \A p \in DOMAIN payment : payment'[p].invoice = payment[p].invoice
      <4>1. st \in {"pending", "confirmed", "rejected"}
          OBVIOUS
      <4> QED BY <3>1, <3>3, <4>1, StatusWritten
    <3> QED BY <2>2, <3>2, <3>3
  <2> QED BY <2>1, <2>2
<1>3. /\ gateway' \in Seq(Gateway) /\ Len(gateway') = Len(gateway)
      /\ \A p \in DOMAIN payment : gateway'[p].state = gateway[p].state /\ gateway'[p].sent = gateway[p].sent
      /\ \A p \in DOMAIN payment :
           \/ gateway'[p] = gateway[p]
           \/ /\ p = work[w].pay /\ work[w].op = "Webhook" /\ work[w].note \in gateway[p].sent
              /\ gateway'[p].answered = gateway[p].answered \cup {work[w].note}
  <2>1. CASE gateway' = gateway
      BY <2>1, Tables
  <2>2. CASE work[w].pc \in {"reject", "get", "restore"} /\ gateway' = Answer(w)
      BY <2>2, AnswerEffect
  <2> QED BY <2>1, <2>2
<1>4. Linked(w)
    BY DEF Sound
<1>5. Linked(w)'
    BY <1>1, <1>2, <1>3, <1>4 DEF Linked
<1>6. AnsweredIsOver'
    BY <1>2, <1>3 DEF Sound, AnsweredIsOver
<1>7. work'[w].pc # "call"
    BY <1>1
<1> QED BY <1>1, <1>2, <1>3, <1>5, <1>6, <1>7, QuietKeepsSound

(* An invoice gets another status. *)
LEMMA InvoiceWritten ==
  ASSUME Sound, NEW i \in Invoices, NEW st \in InvoiceStatus, invoice' = [invoice EXCEPT ![i].status = st]
  PROVE  /\ invoice' \in [Invoices -> [status : InvoiceStatus, age : Ages]]
         /\ invoice'[i].status = st
         /\ \A j \in Invoices \ {i} : invoice'[j] = invoice[j]
  BY DEF Sound, TypeOK

LEMMA WorkKeepsSound ==
  ASSUME Sound, NEW w \in Workers, WorkStep(w)
  PROVE  Sound'
<1> USE DEF PCs
<1>0. /\ invoice \in [Invoices -> [status : InvoiceStatus, age : Ages]]
      /\ sub \in {"active", "isolir", "suspended"} /\ started \in 0..MaxOps
    BY DEF Sound, TypeOK
<1>1. CASE CreatePayment(w)
    BY <1>1, CreateKeepsSound
<1>2. CASE CallGateway(w)
    BY <1>2, CallKeepsSound
<1>3. CASE SaveRef(w)
    BY <1>0, <1>3, FaultEffect, StatementKeepsSound DEF SaveRef
<1>4. CASE WriteConfirmed(w)
    BY <1>0, <1>4, StatementKeepsSound DEF WriteConfirmed
<1>5. CASE WriteRejected(w)
    BY <1>0, <1>5, StatementKeepsSound DEF WriteRejected
<1>6. CASE WriteRefused(w)
    BY <1>0, <1>6, FaultEffect, StatementKeepsSound DEF WriteRefused
<1>7. CASE WriteCancelled(w)
  <2>1. work[w].inv \in Invoices /\ "cancelled" \in InvoiceStatus
      BY <1>7 DEF WriteCancelled, Sound, Linked, InvoiceStatus
  <2>2. invoice' \in [Invoices -> [status : InvoiceStatus, age : Ages]]
      BY <1>7, <2>1, InvoiceWritten DEF WriteCancelled
  <2> QED BY <1>0, <1>7, <2>2, StatementKeepsSound DEF WriteCancelled
<1>8. CASE SettleInvoice(w)
  <2>1. work[w].inv \in Invoices /\ "paid" \in InvoiceStatus
      BY <1>8 DEF SettleInvoice, Sound, Linked, InvoiceStatus
  <2>2. invoice' \in [Invoices -> [status : InvoiceStatus, age : Ages]]
      BY <1>0, <1>8, <2>1, InvoiceWritten DEF SettleInvoice
  <2>3. started' \in 0..MaxOps
      BY <1>8, FaultEffect DEF SettleInvoice
  <2> QED BY <1>0, <1>8, <2>2, <2>3, StatementKeepsSound DEF SettleInvoice
<1>9. CASE SettleGet(w)
  <2>1. PICK pc \in {"idle", "restore"} : Goto(w, pc)
      BY <1>9, Zenon DEF SettleGet
  <2>2. started' \in 0..MaxOps
      BY <1>9, FaultEffect DEF SettleGet
  <2>3. gateway' = gateway \/ gateway' = Answer(w)
      BY <1>9 DEF SettleGet
  <2>4. work[w].pc = "get" /\ UNCHANGED <<invoice, payment, sub, check>>
      BY <1>9 DEF SettleGet
  <2> QED BY <1>0, <2>1, <2>2, <2>3, <2>4, StatementKeepsSound
<1>10. CASE SettleRestore(w)
  <2>1. /\ started' \in 0..MaxOps /\ sub' \in {"active", "isolir", "suspended"}
        /\ work[w].pc = "restore" /\ Goto(w, "idle") /\ gateway' = Answer(w)
        /\ UNCHANGED <<invoice, payment, check>>
      BY <1>0, <1>10, FaultEffect DEF SettleRestore
  <2> QED BY <1>0, <2>1, StatementKeepsSound
<1> QED BY <1>1, <1>2, <1>3, <1>4, <1>5, <1>6, <1>7, <1>8, <1>9, <1>10 DEF WorkStep

-----------------------------------------------------------------------------
(* The cron, the suspension check, the customer and restarts leave what a    *)
(* request remembers alone.                                                  *)
LEMMA CronKeepsSound ==
  ASSUME Sound,
         \/ \E i \in Invoices : Issue(i) \/ Age(i) \/ CheckMark(i)
         \/ CheckRun \/ CheckGet \/ CheckWrite
  PROVE  Sound'
<1>0. /\ invoice \in [Invoices -> [status : InvoiceStatus, age : Ages]]
      /\ sub \in {"active", "isolir", "suspended"} /\ started \in 0..MaxOps /\ check \in Check
    BY DEF Sound, TypeOK
<1>1. UNCHANGED <<payment, gateway, work>>
    BY DEF Issue, Age, CheckMark, CheckRun, CheckGet, CheckWrite
<1> DEFINE InvoicesOK == invoice' \in [Invoices -> [status : InvoiceStatus, age : Ages]]
<1>2. InvoicesOK
  <2>1. ASSUME NEW i \in Invoices, Issue(i) \/ CheckMark(i) PROVE InvoicesOK
      BY <1>0, <2>1, InvoiceWritten DEF Issue, CheckMark, InvoiceStatus
  <2>2. ASSUME NEW i \in Invoices, Age(i) PROVE InvoicesOK
    <3>1. invoice' = [invoice EXCEPT ![i].age = invoice[i].age + 1] /\ invoice[i].age + 1 \in Ages
        BY <1>0, <2>2 DEF Age, Ages
    <3> QED BY <1>0, <3>1
  <2>3. CASE CheckRun \/ CheckGet \/ CheckWrite
      BY <1>0, <2>3 DEF CheckRun, CheckGet, CheckWrite
  <2> QED BY <2>1, <2>2, <2>3
<1>3. check' \in Check
  <2>1. ASSUME NEW i \in Invoices, Issue(i) \/ Age(i) PROVE check' \in Check
      BY <1>0, <2>1 DEF Issue, Age
  <2>2. ASSUME NEW i \in Invoices, CheckMark(i) PROVE check' \in Check
      BY <1>0, <2>2 DEF CheckMark, Check
  <2>3. CASE CheckRun
      BY <2>3 DEF CheckRun, Check, Listed
  <2>4. CASE CheckGet
      BY <1>0, <2>4, NoCheckCheck DEF CheckGet, Check
  <2>5. CASE CheckWrite
      BY <2>5, NoCheckCheck DEF CheckWrite
  <2> QED BY <2>1, <2>2, <2>3, <2>4, <2>5
<1>4. sub' \in {"active", "isolir", "suspended"}
  <2>1. CASE CheckWrite
      BY <1>0, <2>1 DEF CheckWrite, Check
  <2> QED BY <1>0, <2>1 DEF Issue, Age, CheckMark, CheckRun, CheckGet
<1>5. started' \in 0..MaxOps
    BY <1>0, FaultEffect DEF Issue, Age, CheckMark, CheckRun, CheckGet, CheckWrite
<1>6. TypeOK'
    BY <1>1, <1>2, <1>3, <1>4, <1>5 DEF Sound, TypeOK, Check
<1> QED BY <1>1, <1>3, <1>6 DEF Sound, Linked, CalledOnce, AnsweredIsOver

LEMMA EventKeepsSound ==
  ASSUME Sound, NEW p \in DOMAIN gateway, GatewayEvent(p)
  PROVE  Sound'
<1>0. /\ UNCHANGED <<invoice, payment, sub, work, check, started>>
      /\ gateway[p].state = "open" /\ p \in DOMAIN payment
    BY Tables DEF GatewayEvent
<1>1. PICK st \in Statuses : gateway' = [gateway EXCEPT ![p].sent = @ \cup {st}]
    BY DEF GatewayEvent
<1>2. /\ gateway' \in Seq(Gateway) /\ Len(gateway') = Len(gateway) /\ gateway'[p].state = "open"
      /\ gateway'[p].answered = gateway[p].answered /\ gateway'[p].sent = gateway[p].sent \cup {st}
      /\ \A q \in DOMAIN payment \ {p} : gateway'[q] = gateway[q]
    BY <1>0, <1>1, SentWritten
<1>3. Kept
    BY <1>0, <1>2, Tables DEF Kept
<1>4. \A v \in Workers : Linked(v)'
  <2>1. \A v \in Workers : work[v].pc = "call" => gateway'[work[v].pay].state = "none"
      BY <1>0, <1>2 DEF Sound, Linked
  <2> QED BY <1>0, <1>3, <2>1, LinksKept
<1>5. AnsweredIsOver'
    BY <1>0, <1>2 DEF Sound, AnsweredIsOver
<1>6. TypeOK'
    BY <1>0, <1>2 DEF Sound, TypeOK
<1> QED BY <1>0, <1>4, <1>5, <1>6 DEF Sound, CalledOnce

LEMMA RestartKeepsSound ==
  ASSUME Sound, Restart
  PROVE  Sound'
<1>0. /\ UNCHANGED <<invoice, payment, sub, gateway>> /\ check' = NoCheck
      /\ work' \in [Workers -> Work] /\ \A w \in Workers : work'[w] = Idle
    BY IdleWork DEF Restart
<1>1. started' \in 0..MaxOps
    BY PaymentsAssumption DEF Restart, Sound, TypeOK
<1>2. \A w \in Workers : Linked(w)' /\ work'[w].pc = "idle"
    BY <1>0, IdleWork DEF Linked
<1>3. TypeOK'
    BY <1>0, <1>1, IdleWork, NoCheckCheck DEF Sound, TypeOK, Work, Check
<1> QED BY <1>0, <1>2, <1>3, NoCheckCheck DEF Sound, CalledOnce, AnsweredIsOver

LEMMA SoundInit == Init => Sound
<1> SUFFICES ASSUME Init PROVE Sound
    OBVIOUS
<1>1. /\ payment \in Seq(Payment) /\ gateway \in Seq(Gateway) /\ Len(gateway) = Len(payment)
      /\ DOMAIN payment = {}
    BY DEF Init
<1>2. invoice \in [Invoices -> [status : InvoiceStatus, age : Ages]]
    BY DEF Init, InvoiceStatus, Ages
<1>3. work \in [Workers -> Work] /\ \A w \in Workers : work[w].pc = "idle"
    BY IdleWork DEF Init
<1>4. check \in Check /\ started \in 0..MaxOps /\ sub = "active"
    BY NoCheckCheck, PaymentsAssumption DEF Init
<1>5. TypeOK
    BY <1>1, <1>2, <1>3, <1>4 DEF TypeOK, Work, Check
<1> QED BY <1>1, <1>3, <1>4, <1>5 DEF Sound, Linked, CalledOnce, AnsweredIsOver

LEMMA SoundStep == Sound /\ [Next]_vars => Sound'
<1> SUFFICES ASSUME Sound, [Next]_vars PROVE Sound'
    OBVIOUS
<1>1. CASE UNCHANGED vars
    BY <1>1 DEF vars, Sound, TypeOK, Linked, CalledOnce, AnsweredIsOver
<1>2. CASE Next
    BY <1>2, BeginKeepsSound, WorkKeepsSound, CronKeepsSound, EventKeepsSound, RestartKeepsSound
       DEF Next
<1> QED BY <1>1, <1>2

LEMMA PaymentsSound == Spec => []Sound
  BY SoundInit, SoundStep, PTL DEF Spec

(* Invoices, payments, the gateway's notices and the requests under way keep *)
(* their types, for every number of each.                                    *)
THEOREM PaymentsTypeOK == Spec => []TypeOK
<1>1. Sound => TypeOK
    BY DEF Sound
<1> QED BY <1>1, PaymentsSound, PTL

-----------------------------------------------------------------------------
(* A request does its own work only. *)
LEMMA OwnWorkOnly ==
  ASSUME Sound, NEW v \in Workers, Begin(v) \/ WorkStep(v), NEW w \in Workers, w # v
  PROVE  work'[w] = work[w]
<1>0. work \in [Workers -> Work]
    BY DEF Sound
<1>1. work' = work \/ \E k : work' = [work EXCEPT ![v] = k]
  <2>1. CASE Begin(v)
      BY <2>1, Zenon DEF Begin, Pay, Cancel, Confirm, Reject, Webhook, Start
  <2>2. CASE WorkStep(v)
      BY <2>2, Zenon
         DEF WorkStep, CreatePayment, CallGateway, SaveRef, WriteConfirmed, WriteRejected, WriteRefused,
             WriteCancelled, SettleInvoice, SettleGet, SettleRestore, Goto
  <2> QED BY <2>1, <2>2
<1> QED BY <1>0, <1>1

(* A request begins when its worker is idle; the skipped webhook has none. *)
LEMMA BeginsIdle ==
  ASSUME Sound, NEW v \in Workers, Begin(v)
  PROVE  work' = work \/ work[v].pc = "idle"
  BY Zenon DEF Begin, Pay, Cancel, Confirm, Reject, Webhook, Start

(* A stop of the server ends every request. *)
LEMMA RestartEffect ==
  ASSUME Sound, Restart
  PROVE  Failed /\ \A w \in Workers : work'[w].pc = "idle"
<1>1. started \in Nat /\ started' = started + 1
    BY PaymentsAssumption DEF Sound, TypeOK, Restart
<1> QED BY <1>1, IdleWork DEF Failed, Restart

(* The steps that are nobody's. *)
LEMMA OthersKeepWork ==
  ASSUME \/ \E i \in Invoices : Issue(i) \/ Age(i) \/ CheckMark(i)
         \/ CheckRun \/ CheckGet \/ CheckWrite
         \/ \E p \in DOMAIN gateway : GatewayEvent(p)
  PROVE  work' = work /\ payment' = payment
  BY DEF Issue, Age, CheckMark, CheckRun, CheckGet, CheckWrite, GatewayEvent

(* Who settles an invoice goes on, settles it, or is stopped by a fault or a *)
(* restart.                                                                  *)
LEMMA SettlingStep ==
  ASSUME Sound, Next, NEW w \in Workers, NEW i \in Invoices, Settling(w, i)
  PROVE  \/ Settling(w, i)'
         \/ invoice'[i].status = "paid"
         \/ Failed /\ work'[w].pc # "settle"
<1>1. CASE Restart
    BY <1>1, RestartEffect
<1>2. CASE work'[w] = work[w]
    BY <1>2 DEF Settling
<1>3. CASE WorkStep(w)
  <2>1. SettleInvoice(w) /\ work[w].inv = i
      BY <1>3 DEF Settling, WorkStep, CreatePayment, CallGateway, SaveRef, WriteConfirmed,
                  WriteRejected, WriteRefused, WriteCancelled, SettleGet, SettleRestore
  <2>2. work'[w].pc = "get"
      BY <2>1, GotoEffect DEF SettleInvoice, PCs
  <2>3. CASE Fault
      BY <2>2, <2>3, FaultEffect DEF Failed
  <2>4. CASE invoice' = [invoice EXCEPT ![i].status = "paid"]
      BY <2>4, InvoiceWritten DEF InvoiceStatus
  <2> QED BY <2>1, <2>3, <2>4 DEF SettleInvoice
<1>4. CASE Begin(w)
    BY <1>2, <1>4, BeginsIdle DEF Settling
<1>5. ASSUME NEW v \in Workers, v # w, Begin(v) \/ WorkStep(v) PROVE work'[w] = work[w]
    BY <1>5, OwnWorkOnly
<1> QED BY <1>1, <1>2, <1>3, <1>4, <1>5, OthersKeepWork DEF Next

(* Who restores the service goes on, restores it, or is stopped. *)
LEMMA RestoringStep ==
  ASSUME Sound, Next, NEW w \in Workers, Restoring(w), sub' # "active"
  PROVE  Restoring(w)' \/ RestoreLost
<1>1. CASE Restart
    BY <1>1, RestartEffect DEF RestoreLost
<1>2. CASE work'[w] = work[w]
    BY <1>2 DEF Restoring
<1>3. CASE WorkStep(w)
  <2>1. SettleGet(w) \/ SettleRestore(w)
      BY <1>3 DEF Restoring, WorkStep, CreatePayment, CallGateway, SaveRef, WriteConfirmed,
                  WriteRejected, WriteRefused, WriteCancelled, SettleInvoice
  <2>2. CASE Goto(w, "restore")
      BY <2>2, GotoEffect DEF PCs, Restoring
  <2>3. CASE Fault /\ Goto(w, "idle")
    <3>1. work'[w].pc = "idle"
        BY <2>3, GotoEffect DEF PCs
    <3> QED BY <2>3, <3>1, FaultEffect DEF RestoreLost, Failed
  <2>4. CASE SettleGet(w)
    <3>1. sub' = sub /\ sub \in {"active", "isolir", "suspended"}
        BY <2>4 DEF SettleGet, Sound, TypeOK
    <3> QED BY <2>2, <2>3, <2>4, <3>1 DEF SettleGet
  <2>5. CASE SettleRestore(w)
      BY <2>3, <2>5 DEF SettleRestore
  <2> QED BY <2>1, <2>4, <2>5
<1>4. CASE Begin(w)
    BY <1>2, <1>4, BeginsIdle DEF Restoring
<1>5. ASSUME NEW v \in Workers, v # w, Begin(v) \/ WorkStep(v) PROVE work'[w] = work[w]
    BY <1>5, OwnWorkOnly
<1> QED BY <1>1, <1>2, <1>3, <1>4, <1>5, OthersKeepWork DEF Next

(* The last debt goes with a settlement or with a cancellation. *)
LEMMA OwingStep ==
  ASSUME Sound, Next, Owing, ~Owing'
  PROVE  (\E w \in Workers : Restoring(w)') \/ \E w \in Workers : WriteCancelled(w)
<1>1. PICK i \in Invoices : Unpaid(i) /\ ~Unpaid(i)'
    BY DEF Owing
<1>2. invoice' # invoice /\ invoice \in [Invoices -> [status : InvoiceStatus, age : Ages]]
    BY <1>1 DEF Unpaid, Sound, TypeOK
<1>3. ASSUME NEW w \in Workers, SettleInvoice(w) PROVE Restoring(w)'
    BY <1>3, GotoEffect DEF SettleInvoice, PCs, Restoring
<1>4. ASSUME NEW j \in Invoices, Issue(j) \/ Age(j) \/ CheckMark(j) PROVE FALSE
  <2>1. CASE Age(j)
      BY <1>1, <1>2, <2>1 DEF Age, Unpaid
  <2>2. CASE Issue(j)
      BY <1>1, <1>2, <2>2 DEF Issue, Unpaid
  <2>3. CASE CheckMark(j)
      BY <1>1, <1>2, <2>3 DEF CheckMark, Unpaid
  <2> QED BY <1>4, <2>1, <2>2, <2>3
<1>5. ASSUME NEW w \in Workers, Begin(w) PROVE FALSE
    BY <1>2, <1>5, Zenon DEF Begin, Pay, Cancel, Confirm, Reject, Webhook, Start
<1>6. ASSUME NEW w \in Workers, WorkStep(w), ~SettleInvoice(w), ~WriteCancelled(w) PROVE FALSE
    BY <1>2, <1>6 DEF WorkStep, CreatePayment, CallGateway, SaveRef, WriteConfirmed, WriteRejected,
                      WriteRefused, SettleGet, SettleRestore
<1>7. CASE CheckRun \/ CheckGet \/ CheckWrite \/ Restart \/ \E p \in DOMAIN gateway : GatewayEvent(p)
    BY <1>2, <1>7 DEF CheckRun, CheckGet, CheckWrite, Restart, GatewayEvent
<1> QED BY <1>3, <1>4, <1>5, <1>6, <1>7 DEF Next

(* Only the suspension check withholds the service. *)
LEMMA SubStep ==
  ASSUME Sound, Next, sub' # sub, sub' # "active"
  PROVE  CheckWrite
<1>1. ASSUME NEW w \in Workers, Begin(w) PROVE FALSE
    BY <1>1, Zenon DEF Begin, Pay, Cancel, Confirm, Reject, Webhook, Start
<1>2. ASSUME NEW w \in Workers, WorkStep(w) PROVE FALSE
    BY <1>2 DEF WorkStep, CreatePayment, CallGateway, SaveRef, WriteConfirmed, WriteRejected,
                WriteRefused, WriteCancelled, SettleInvoice, SettleGet, SettleRestore
<1>3. ASSUME NEW j \in Invoices, Issue(j) \/ Age(j) \/ CheckMark(j) PROVE FALSE
    BY <1>3 DEF Issue, Age, CheckMark
<1>4. CASE CheckRun \/ CheckGet \/ Restart \/ \E p \in DOMAIN gateway : GatewayEvent(p)
    BY <1>4 DEF CheckRun, CheckGet, Restart, GatewayEvent
<1> QED BY <1>1, <1>2, <1>3, <1>4 DEF Next

(* Who writes the payments table. *)
LEMMA PaymentWriters ==
  ASSUME Sound, Next, payment' # payment
  PROVE  \E w \in Workers :
           SaveRef(w) \/ WriteConfirmed(w) \/ WriteRejected(w) \/ WriteRefused(w) \/ CreatePayment(w)
<1>1. ASSUME NEW w \in Workers, Begin(w) PROVE FALSE
    BY <1>1, Zenon DEF Begin, Pay, Cancel, Confirm, Reject, Webhook, Start
<1>2. ASSUME NEW w \in Workers,
             CallGateway(w) \/ WriteCancelled(w) \/ SettleInvoice(w) \/ SettleGet(w) \/ SettleRestore(w)
      PROVE  FALSE
    BY <1>2 DEF CallGateway, WriteCancelled, SettleInvoice, SettleGet, SettleRestore
<1>3. CASE Restart
    BY <1>3 DEF Restart
<1> QED BY <1>1, <1>2, <1>3, OthersKeepWork DEF Next, WorkStep

(* A row keeps its invoice and its kind; a confirmation is taken back only   *)
(* by a rejection, and is given by a request that goes on to settle.         *)
LEMMA RowStep ==
  ASSUME Sound, Next, NEW p \in DOMAIN payment
  PROVE  /\ p \in DOMAIN payment'
         /\ payment'[p].invoice = payment[p].invoice /\ payment'[p].op = payment[p].op
         /\ payment[p].status = "confirmed" => payment'[p].status \in {"confirmed", "rejected"}
         /\ payment'[p].status = "confirmed" =>
              \/ payment[p].status = "confirmed"
              \/ \E w \in Workers : Settling(w, payment[p].invoice)'
<1>1. CASE payment' = payment
    BY <1>1
<1>2. ASSUME NEW w \in Workers, SaveRef(w), payment' # payment
      PROVE  p \in DOMAIN payment' /\ payment'[p].invoice = payment[p].invoice
             /\ payment'[p].op = payment[p].op /\ payment'[p].status = payment[p].status
  <2>1. work[w].pay \in DOMAIN payment /\ payment' = [payment EXCEPT ![work[w].pay].ref = TRUE]
      BY <1>2 DEF SaveRef, Sound, Linked
  <2> QED BY <2>1, RefWritten
<1>3. ASSUME NEW w \in Workers, WriteRejected(w) \/ WriteRefused(w), payment' # payment
      PROVE  p \in DOMAIN payment' /\ payment'[p].invoice = payment[p].invoice
             /\ payment'[p].op = payment[p].op /\ payment'[p].status \in {"rejected", payment[p].status}
  <2>1. work[w].pay \in DOMAIN payment /\ payment' = [payment EXCEPT ![work[w].pay].status = "rejected"]
      BY <1>3 DEF WriteRejected, WriteRefused, Sound, Linked
  <2> QED BY <2>1, StatusWritten
<1>4. ASSUME NEW w \in Workers, WriteConfirmed(w)
      PROVE  /\ p \in DOMAIN payment' /\ payment'[p].invoice = payment[p].invoice
             /\ payment'[p].op = payment[p].op /\ payment'[p].status \in {"confirmed", payment[p].status}
             /\ payment'[p] # payment[p] => Settling(w, payment[p].invoice)'
  <2>1. /\ work[w].pay \in DOMAIN payment /\ payment[work[w].pay].invoice = work[w].inv
        /\ payment' = [payment EXCEPT ![work[w].pay].status = "confirmed"]
      BY <1>4 DEF WriteConfirmed, Sound, Linked
  <2>2. work'[w].pc = "settle" /\ work'[w].inv = work[w].inv
      BY <1>4, GotoEffect DEF WriteConfirmed, PCs
  <2>3. /\ p \in DOMAIN payment' /\ payment'[p].invoice = payment[p].invoice
        /\ payment'[p].op = payment[p].op /\ payment'[p].status \in {"confirmed", payment[p].status}
        /\ p # work[w].pay => payment'[p] = payment[p]
      BY <2>1, StatusWritten
  <2> QED BY <2>1, <2>2, <2>3 DEF Settling
<1>5. ASSUME NEW w \in Workers, CreatePayment(w), payment' # payment
      PROVE  p \in DOMAIN payment' /\ payment'[p] = payment[p]
    BY <1>5, CreateEffect
<1> QED BY <1>1, <1>2, <1>3, <1>4, <1>5, PaymentWriters

(* A new row is of the request that made it: taken over the counter it is    *)
(* confirmed and its request settles, otherwise it is pending.               *)
LEMMA NewRowStep ==
  ASSUME Sound, Next, NEW p \in DOMAIN payment', p \notin DOMAIN payment
  PROVE  \E w \in Workers :
           /\ work[w].pc = "create" /\ work[w].inv = payment'[p].invoice
           /\ payment'[p].invoice \in Invoices /\ p = newId
           /\ IF payment'[p].op \in OverTheCounter
                THEN /\ payment'[p].status = "confirmed"
                     /\ work'[w].pc = "settle" /\ work'[w].inv = payment'[p].invoice
                ELSE payment'[p].status = "pending"
           /\ gateway'[p] = NotAtGateway
           /\ \A v \in Workers \ {w} : work'[v] = work[v]
<1>1. PICK w \in Workers :
        SaveRef(w) \/ WriteConfirmed(w) \/ WriteRejected(w) \/ WriteRefused(w) \/ CreatePayment(w)
    BY PaymentWriters
<1>2. ASSUME SaveRef(w) PROVE DOMAIN payment' = DOMAIN payment
  <2>1. work[w].pay \in DOMAIN payment
      BY <1>2 DEF SaveRef, Sound, Linked
  <2> QED BY <1>2, <2>1, RefWritten DEF SaveRef
<1>3. ASSUME WriteConfirmed(w) \/ WriteRejected(w) \/ WriteRefused(w)
      PROVE  DOMAIN payment' = DOMAIN payment
  <2>1. work[w].pay \in DOMAIN payment
      BY <1>3 DEF WriteConfirmed, WriteRejected, WriteRefused, Sound, Linked
  <2> QED BY <1>3, <2>1, StatusWritten DEF WriteConfirmed, WriteRejected, WriteRefused
<1>4. CreatePayment(w) /\ payment' # payment
    BY <1>1, <1>2, <1>3
<1> DEFINE k == work[w]
           instant == k.op \in {"CreateManual", "Collect"}
<1>5. /\ DOMAIN payment' = DOMAIN payment \cup {newId}
      /\ payment'[newId] = [status |-> IF instant THEN "confirmed" ELSE "pending",
                            invoice |-> k.inv, op |-> k.op, ref |-> FALSE]
      /\ gateway'[newId] = NotAtGateway
      /\ \/ k.op = "CreatePortalPayment" /\ work'[w] = Idle
         \/ /\ k.op # "CreatePortalPayment"
            /\ work'[w].pc = IF instant THEN "settle" ELSE "call"
            /\ work'[w].pay = newId /\ work'[w].inv = k.inv /\ work'[w].op = k.op
      /\ \A v \in Workers \ {w} : work'[v] = work[v]
    BY <1>4, CreateEffect
<1>6. k.pc = "create" /\ k.inv \in Invoices
    BY <1>4 DEF CreatePayment, Sound, Linked
<1>7. p = newId /\ payment'[p].invoice = k.inv /\ payment'[p].op = k.op
      /\ payment'[p].status = IF instant THEN "confirmed" ELSE "pending"
    BY <1>5
<1>8. instant => work'[w].pc = "settle" /\ work'[w].inv = k.inv
    BY <1>5
<1> QED BY <1>5, <1>6, <1>7, <1>8 DEF OverTheCounter

-----------------------------------------------------------------------------
(* What the history says of a step. *)
Settled(i) == invoice[i].status = "paid" \/ i \in reopened \/ \E w \in Workers : Settling(w, i)

LEMMA SettledStays ==
  ASSUME Sound, SettlementNext, NEW i \in Invoices, Settled(i)
  PROVE  Settled(i)'
<1>1. i \in reopened' <=> /\ invoice'[i].status # "paid"
                          /\ i \in reopened \/ Overwritten(i) \/ SettlementLost(i)
    BY DEF SettlementNext
<1>2. SUFFICES ASSUME invoice'[i].status # "paid" PROVE Settled(i)'
    BY DEF Settled
<1>3. CASE invoice[i].status = "paid" \/ i \in reopened
    BY <1>1, <1>2, <1>3 DEF Settled, Overwritten
<1>4. ASSUME NEW w \in Workers, Settling(w, i) PROVE Settled(i)'
  <2>1. Settling(w, i)' \/ (Failed /\ work'[w].pc # "settle")
      BY <1>2, <1>4, SettlingStep DEF SettlementNext
  <2> QED BY <1>1, <1>2, <1>4, <2>1 DEF Settled, SettlementLost
<1> QED BY <1>3, <1>4 DEF Settled

LEMMA ConfirmedIsSettledStep ==
  ASSUME Sound, SettlementNext, ConfirmedIsSettled
  PROVE  ConfirmedIsSettled'
<1> SUFFICES ASSUME NEW p \in DOMAIN payment', payment'[p].status = "confirmed",
                    NEW i, i = payment'[p].invoice
             PROVE  Settled(i)'
    BY DEF ConfirmedIsSettled, Settled, Settling
<1>0. Next
    BY DEF SettlementNext
<1>1. CASE p \in DOMAIN payment
  <2>1. i = payment[p].invoice /\ i \in Invoices
      BY <1>0, <1>1, Tables, RowStep DEF Payment
  <2>2. payment[p].status = "confirmed" => Settled(i)
      BY <1>1, <2>1 DEF ConfirmedIsSettled, Settled
  <2> QED BY <1>0, <1>1, <2>1, <2>2, RowStep, SettledStays DEF Settled
<1>2. CASE p \notin DOMAIN payment
  <2>1. PICK w \in Workers :
          IF payment'[p].op \in OverTheCounter
            THEN work'[w].pc = "settle" /\ work'[w].inv = payment'[p].invoice
            ELSE payment'[p].status = "pending"
      BY <1>0, <1>2, NewRowStep
  <2> QED BY <2>1 DEF Settled, Settling
<1> QED BY <1>1, <1>2

LEMMA SettledIsServedStep ==
  ASSUME Sound, SettlementNext, SettledIsServed
  PROVE  SettledIsServed'
<1> SUFFICES ASSUME ~Owing', sub' # "active", \A w \in Workers : ~Restoring(w)'
             PROVE  withheld' = TRUE
    BY DEF SettledIsServed
<1>0. Next
    BY DEF SettlementNext
<1>1. SUFFICES (withheld = TRUE) \/ StaleSuspension \/ Forgiven \/ RestoreLost
    BY DEF SettlementNext
<1>2. CASE Owing
    BY <1>0, <1>2, OwingStep DEF Forgiven
<1>3. CASE ~Owing /\ sub = "active"
    BY <1>0, <1>3, SubStep DEF StaleSuspension
<1>4. CASE ~Owing /\ sub # "active"
    BY <1>0, <1>4, RestoringStep DEF SettledIsServed
<1> QED BY <1>2, <1>3, <1>4

-----------------------------------------------------------------------------
(* A payment that is confirmed, or strayed, stays so. *)
Recorded(p) == payment[p].status = "confirmed" \/ p \in strayed

LEMMA RecordedStays ==
  ASSUME Sound, SettlementNext, NEW p \in DOMAIN payment, Recorded(p)
  PROVE  Recorded(p)'
<1>0. Next /\ (p \in strayed' <=> p \in strayed \/ Unmatched(p) \/ Ignored(p) \/ Contradicted(p))
    BY DEF SettlementNext
<1>1. payment[p].status = "confirmed" => payment'[p].status \in {"confirmed", "rejected"}
    BY <1>0, RowStep
<1> QED BY <1>0, <1>1 DEF Recorded, Contradicted

LEMMA ConfirmedFirstStep ==
  ASSUME Sound, SettlementNext, ConfirmedFirst
  PROVE  ConfirmedFirst'
<1> SUFFICES ASSUME NEW w \in Workers, work'[w].pc \in {"settle", "get", "restore"},
                    NEW p, p = work'[w].pay
             PROVE  Recorded(p)'
    BY DEF ConfirmedFirst, Recorded
<1>0. Next /\ work \in [Workers -> Work]
    BY DEF SettlementNext, Sound
<1>1. ASSUME work[w].pc \in {"settle", "get", "restore"}, work[w].pay = p PROVE Recorded(p)'
  <2>1. p \in DOMAIN payment /\ Recorded(p)
      BY <1>1 DEF Sound, Linked, ConfirmedFirst, Recorded
  <2> QED BY <2>1, RecordedStays
<1>2. CASE Restart
    BY <1>2, RestartEffect
<1>3. CASE Begin(w)
  <2>1. CASE work' = work
      BY <1>1, <2>1
  <2>2. CASE work' # work
    <3>1. ASSUME NEW op \in Ops, NEW i \in Invoices, Pay(w, op, i) PROVE work'[w].pc = "create"
        BY <1>0, <3>1 DEF Pay, Start
    <3>2. ASSUME NEW i \in Invoices, Cancel(w, i) PROVE work'[w].pc = "cancel"
        BY <1>0, <3>2 DEF Cancel, Start
    <3>3. ASSUME NEW q \in DOMAIN payment, Confirm(w, q) PROVE work'[w].pc = "confirm"
        BY <1>0, <3>3 DEF Confirm, Start
    <3>4. ASSUME NEW q \in DOMAIN payment, Reject(w, q) PROVE work'[w].pc = "reject"
        BY <1>0, <3>4 DEF Reject, Start
    <3>5. ASSUME NEW q \in DOMAIN payment, NEW st \in Statuses, Webhook(w, q, st)
          PROVE  work'[w].pc \in {"confirm", "reject"}
        BY <1>0, <2>2, <3>5 DEF Webhook, Start
    <3> QED BY <1>3, <3>1, <3>2, <3>3, <3>4, <3>5 DEF Begin
  <2> QED BY <2>1, <2>2
<1>4. CASE CreatePayment(w)
  <2>1. CASE Goto(w, "idle") /\ UNCHANGED <<payment, gateway>>
      BY <2>1, GotoEffect DEF PCs
  <2>2. CASE ~(Goto(w, "idle") /\ UNCHANGED <<payment, gateway>>)
    <3> DEFINE instant == work[w].op \in {"CreateManual", "Collect"}
    <3>1. /\ payment'[newId] = [status |-> IF instant THEN "confirmed" ELSE "pending",
                                invoice |-> work[w].inv, op |-> work[w].op, ref |-> FALSE]
          /\ \/ work[w].op = "CreatePortalPayment" /\ work'[w] = Idle
             \/ /\ work[w].op # "CreatePortalPayment"
                /\ work'[w].pc = IF instant THEN "settle" ELSE "call"
                /\ work'[w].pay = newId /\ work'[w].inv = work[w].inv /\ work'[w].op = work[w].op
        BY <1>4, <2>2, CreateEffect
    <3>2. work'[w].pc = "settle" /\ instant /\ p = newId
        BY <3>1, IdleWork
    <3> QED BY <3>1, <3>2 DEF Recorded
  <2> QED BY <2>1, <2>2
<1>5. CASE WriteConfirmed(w)
  <2>1. work[w].pay \in DOMAIN payment
      BY <1>5 DEF WriteConfirmed, Sound, Linked
  <2>2. payment'[work[w].pay].status = "confirmed"
      BY <1>5, <2>1, StatusWritten DEF WriteConfirmed
  <2>3. work'[w].pay = work[w].pay
      BY <1>5, GotoEffect DEF WriteConfirmed, PCs
  <2> QED BY <2>2, <2>3 DEF Recorded
<1>6. CASE SettleInvoice(w)
    BY <1>1, <1>6, GotoEffect DEF SettleInvoice, PCs
<1>7. CASE SettleGet(w)
  <2>1. PICK pc \in {"idle", "restore"} : Goto(w, pc)
      BY <1>7, Zenon DEF SettleGet
  <2>2. work'[w].pc = pc /\ (pc # "idle" => work'[w].pay = work[w].pay)
      BY <2>1, GotoEffect DEF PCs
  <2> QED BY <1>1, <1>7, <2>2 DEF SettleGet
<1>8. CASE SaveRef(w) \/ WriteRejected(w) \/ WriteRefused(w) \/ WriteCancelled(w) \/ SettleRestore(w)
  <2>1. Goto(w, "idle")
      BY <1>8 DEF SaveRef, WriteRejected, WriteRefused, WriteCancelled, SettleRestore
  <2> QED BY <2>1, GotoEffect DEF PCs
<1>9. CASE CallGateway(w)
  <2>1. PICK pc \in {"ref", "refuse"} : Goto(w, pc)
      BY <1>9 DEF CallGateway
  <2> QED BY <2>1, GotoEffect DEF PCs
<1>10. ASSUME NEW v \in Workers, v # w, Begin(v) \/ WorkStep(v) PROVE Recorded(p)'
    BY <1>1, <1>10, OwnWorkOnly
<1>11. CASE work' = work
    BY <1>1, <1>11
<1> QED BY <1>0, <1>2, <1>3, <1>4, <1>5, <1>6, <1>7, <1>8, <1>9, <1>10, <1>11, OthersKeepWork
        DEF Next, WorkStep

(* The answer to the notice of the money is given by a webhook that found    *)
(* nothing to do or did not look, or by the request that has settled it.     *)
LEMMA AnswerStep ==
  ASSUME Sound, Next, NEW p \in DOMAIN payment, PaidAnswered(p)
  PROVE  /\ \/ payment[p].ref = FALSE \/ payment[p].status # "pending" \/ Ignored(p)
            \/ \E w \in Workers : work[w].pc \in {"get", "restore"} /\ work[w].pay = p
         /\ payment' = payment
<1>0. /\ "PAID" \in gateway'[p].answered /\ "PAID" \notin gateway[p].answered
      /\ gateway' # gateway /\ gateway[p] \in Gateway /\ payment[p].ref \in BOOLEAN
    BY Tables DEF Gateway, Payment, PaidAnswered
<1>1. ASSUME NEW w \in Workers, Begin(w)
      PROVE  /\ payment[p].ref = FALSE \/ payment[p].status # "pending" \/ Ignored(p)
             /\ payment' = payment
  <2>1. PICK q \in DOMAIN payment, st \in Statuses : Webhook(w, q, st)
      BY <1>0, <1>1 DEF Begin, Pay, Cancel, Confirm, Reject, Start
  <2>2. /\ (~payment[q].ref \/ payment[q].status # "pending") \/ Fault
        /\ gateway' = [gateway EXCEPT ![q].answered = @ \cup {st}] /\ payment' = payment /\ work' = work
      BY <1>0, <2>1 DEF Webhook, Start, Answered
  <2>3. q = p
      BY <1>0, <2>2, AnswerWritten
  <2>4. Fault => Failed
      BY FaultEffect DEF Failed
  <2> QED BY <1>0, <2>2, <2>3, <2>4 DEF Ignored
<1>2. ASSUME NEW w \in Workers, WriteRejected(w) PROVE FALSE
  <2>1. \/ gateway'[p] = gateway[p]
        \/ /\ work[w].op = "Webhook"
           /\ gateway'[p].answered = gateway[p].answered \cup {work[w].note}
      BY <1>2, AnswerEffect DEF WriteRejected
  <2>2. work[w].op = "Webhook" => work[w].note # "PAID"
      BY <1>2 DEF WriteRejected, Sound, Linked
  <2> QED BY <1>0, <2>1, <2>2
<1>3. ASSUME NEW w \in Workers, SettleGet(w) \/ SettleRestore(w)
      PROVE  work[w].pc \in {"get", "restore"} /\ work[w].pay = p /\ payment' = payment
  <2>1. work[w].pc \in {"get", "restore"} /\ payment' = payment /\ gateway' = Answer(w)
      BY <1>0, <1>3 DEF SettleGet, SettleRestore
  <2>2. gateway'[p] = gateway[p] \/ p = work[w].pay
      BY <2>1, AnswerEffect
  <2> QED BY <1>0, <2>1, <2>2
<1>4. ASSUME NEW w \in Workers, CreatePayment(w) PROVE FALSE
    BY <1>0, <1>4, CreateEffect
<1>5. ASSUME NEW w \in Workers, CallGateway(w) PROVE FALSE
  <2>1. PICK st \in {"none", "open"} : gateway' = [gateway EXCEPT ![work[w].pay].state = st]
      BY <1>5 DEF CallGateway
  <2>2. work[w].pay \in DOMAIN payment
      BY <1>5 DEF CallGateway, Sound, Linked
  <2>3. /\ gateway'[work[w].pay].answered = gateway[work[w].pay].answered
        /\ \A q \in DOMAIN payment \ {work[w].pay} : gateway'[q] = gateway[q]
      BY <2>1, <2>2, StateWritten
  <2> QED BY <1>0, <2>3
<1>6. ASSUME NEW w \in Workers,
             SaveRef(w) \/ WriteConfirmed(w) \/ WriteRefused(w) \/ WriteCancelled(w) \/ SettleInvoice(w)
      PROVE  FALSE
    BY <1>0, <1>6 DEF SaveRef, WriteConfirmed, WriteRefused, WriteCancelled, SettleInvoice
<1>7. ASSUME NEW q \in DOMAIN gateway, GatewayEvent(q) PROVE FALSE
  <2>1. q \in DOMAIN payment
      BY Tables
  <2>2. PICK st \in Statuses : gateway' = [gateway EXCEPT ![q].sent = @ \cup {st}]
      BY <1>7 DEF GatewayEvent
  <2>3. /\ gateway'[q].answered = gateway[q].answered
        /\ \A r \in DOMAIN payment \ {q} : gateway'[r] = gateway[r]
      BY <2>1, <2>2, SentWritten
  <2> QED BY <1>0, <2>3
<1>8. CASE \/ \E i \in Invoices : Issue(i) \/ Age(i) \/ CheckMark(i)
           \/ CheckRun \/ CheckGet \/ CheckWrite \/ Restart
    BY <1>0, <1>8 DEF Issue, Age, CheckMark, CheckRun, CheckGet, CheckWrite, Restart
<1> QED BY <1>1, <1>2, <1>3, <1>4, <1>5, <1>6, <1>7, <1>8 DEF Next, WorkStep

LEMMA MoneyIsRecordedStep ==
  ASSUME Sound, SettlementNext, ConfirmedFirst, MoneyIsRecorded
  PROVE  MoneyIsRecorded'
<1> SUFFICES ASSUME NEW p \in DOMAIN payment', "PAID" \in gateway'[p].answered
             PROVE  Recorded(p)'
    BY DEF MoneyIsRecorded, Recorded
<1>0. Next
    BY DEF SettlementNext
<1>1. p \in DOMAIN payment
    BY <1>0, NewRowStep DEF NotAtGateway
<1>2. payment[p] \in Payment
    BY <1>1, Tables
<1>3. CASE "PAID" \in gateway[p].answered
    BY <1>1, <1>3, RecordedStays DEF MoneyIsRecorded, Recorded
<1>4. CASE "PAID" \notin gateway[p].answered
  <2>0. PaidAnswered(p)
      BY <1>4 DEF PaidAnswered
  <2>1. \/ payment[p].ref = FALSE \/ payment[p].status # "pending" \/ Ignored(p)
        \/ \E w \in Workers : work[w].pc \in {"get", "restore"} /\ work[w].pay = p
      BY <1>0, <1>1, <2>0, AnswerStep
  <2>2. CASE payment[p].ref = FALSE \/ payment[p].status = "rejected" \/ Ignored(p)
    <3>1. Unmatched(p) \/ Ignored(p)
        BY <2>0, <2>2 DEF Unmatched
    <3> QED BY <1>1, <3>1 DEF SettlementNext, Recorded
  <2>3. CASE payment[p].status = "confirmed"
      BY <1>1, <2>3, RecordedStays DEF Recorded
  <2>4. CASE \E w \in Workers : work[w].pc \in {"get", "restore"} /\ work[w].pay = p
      BY <1>1, <2>4, RecordedStays DEF Recorded, ConfirmedFirst
  <2>5. payment[p].status \in {"pending", "confirmed", "rejected"}
      BY <1>2 DEF Payment
  <2> QED BY <2>1, <2>2, <2>3, <2>4, <2>5
<1> QED BY <1>3, <1>4

-----------------------------------------------------------------------------
(* The history does not restrain the requests, and the types hold with it.   *)
LEMMA SettlementIsPayments == SettlementSpec => Spec
<1>1. SettlementInit => Init
    BY DEF SettlementInit
<1>2. [SettlementNext]_settlementVars => [Next]_vars
    BY DEF SettlementNext, settlementVars, vars
<1> QED BY <1>1, <1>2, PTL DEF SettlementSpec, Spec

(* The inductive invariant of the three promises. *)
Promised == Sound /\ ConfirmedIsSettled /\ SettledIsServed /\ ConfirmedFirst /\ MoneyIsRecorded

LEMMA PromisedInit == SettlementInit => Promised
<1> SUFFICES ASSUME SettlementInit PROVE Promised
    OBVIOUS
<1>1. Sound
    BY SoundInit DEF SettlementInit
<1>2. DOMAIN payment = {} /\ \A w \in Workers : work[w].pc = "idle"
    BY IdleWork DEF SettlementInit, Init
<1>3. SettledIsServed
    BY DEF SettlementInit, Init, SettledIsServed
<1> QED BY <1>1, <1>2, <1>3 DEF Promised, ConfirmedIsSettled, ConfirmedFirst, MoneyIsRecorded

LEMMA PromisedStep == Promised /\ [SettlementNext]_settlementVars => Promised'
<1> SUFFICES ASSUME Promised, [SettlementNext]_settlementVars PROVE Promised'
    OBVIOUS
<1>1. CASE SettlementNext
  <2>1. Sound'
      BY <1>1, SoundStep DEF Promised, SettlementNext
  <2> QED BY <1>1, <2>1, ConfirmedIsSettledStep, SettledIsServedStep, ConfirmedFirstStep,
             MoneyIsRecordedStep DEF Promised
<1>2. CASE UNCHANGED settlementVars
  <2>1. Sound'
      BY <1>2, SoundStep DEF Promised, settlementVars, vars
  <2>2. ConfirmedIsSettled' /\ ConfirmedFirst' /\ MoneyIsRecorded'
      BY <1>2 DEF Promised, settlementVars, ConfirmedIsSettled, ConfirmedFirst, MoneyIsRecorded, Settling
  <2>3. SettledIsServed'
      BY <1>2 DEF Promised, settlementVars, SettledIsServed, Owing, Unpaid, Restoring
  <2> QED BY <2>1, <2>2, <2>3 DEF Promised
<1> QED BY <1>1, <1>2

LEMMA AllPromised == SettlementSpec => []Promised
  BY PromisedInit, PromisedStep, PTL DEF SettlementSpec

(* The invoice of a confirmed payment is paid or about to be, whatever       *)
(* payments, notifications, cancellations and restarts interleave, unless    *)
(* its settlement was lost or overwritten (applySettlement).                 *)
THEOREM Settlement == SettlementSpec => []ConfirmedIsSettled
<1>1. Promised => ConfirmedIsSettled
    BY DEF Promised
<1> QED BY <1>1, AllPromised, PTL

(* Who owes nothing is served or about to be, unless a stale check, a        *)
(* cancellation or a lost restoration withheld the service.                  *)
THEOREM Service == SettlementSpec => []SettledIsServed
<1>1. Promised => SettledIsServed
    BY DEF Promised
<1> QED BY <1>1, AllPromised, PTL

(* Money whose notification was answered is on a confirmed payment, unless   *)
(* the notification found none pending, was ignored for want of settings, or *)
(* was contradicted (XenditWebhook.Handle, ProcessWebhook).                  *)
THEOREM Money == SettlementSpec => []MoneyIsRecorded
<1>1. Promised => MoneyIsRecorded
    BY DEF Promised
<1> QED BY <1>1, AllPromised, PTL

-----------------------------------------------------------------------------
(* Cash. *)
LEMMA BookedInit == CollectionInit => Sound /\ Booked /\ CollectedOnce
<1> SUFFICES ASSUME CollectionInit PROVE Sound /\ Booked /\ CollectedOnce
    OBVIOUS
<1>1. Sound
    BY SoundInit DEF CollectionInit, SettlementInit
<1>2. DOMAIN payment = {}
    BY DEF CollectionInit, SettlementInit, Init
<1> QED BY <1>1, <1>2 DEF Booked, CollectedOnce

(* A request is about to record a payment only after it saw the invoice      *)
(* unpaid.                                                                   *)
LEMMA CreatingStep ==
  ASSUME Sound, Next, NEW v \in Workers, work'[v].pc = "create"
  PROVE  \/ work'[v] = work[v]
         \/ /\ work[v].pc = "idle" /\ Unpaid(work'[v].inv)
            /\ \A w \in Workers \ {v} : work'[w] = work[w]
<1>0. work \in [Workers -> Work]
    BY DEF Sound
<1>1. CASE Restart
    BY <1>1, RestartEffect
<1>2. CASE work' = work
    BY <1>2
<1>3. ASSUME NEW w \in Workers, w # v, Begin(w) \/ WorkStep(w) PROVE work'[v] = work[v]
    BY <1>3, OwnWorkOnly
<1>4. CASE Begin(v) /\ work' # work
  <2>1. ASSUME NEW op \in Ops, NEW i \in Invoices, Pay(v, op, i) PROVE Unpaid(work'[v].inv)
      BY <1>0, <2>1 DEF Pay, Start
  <2>2. ASSUME NEW i \in Invoices, Cancel(v, i) PROVE FALSE
      BY <1>0, <2>2 DEF Cancel, Start
  <2>3. ASSUME NEW q \in DOMAIN payment, Confirm(v, q) PROVE FALSE
      BY <1>0, <2>3 DEF Confirm, Start
  <2>4. ASSUME NEW q \in DOMAIN payment, Reject(v, q) PROVE FALSE
      BY <1>0, <2>4 DEF Reject, Start
  <2>5. ASSUME NEW q \in DOMAIN payment, NEW st \in Statuses, Webhook(v, q, st) PROVE FALSE
      BY <1>0, <1>4, <2>5 DEF Webhook, Start
  <2>6. work[v].pc = "idle" /\ \A w \in Workers \ {v} : work'[w] = work[w]
      BY <1>4, BeginsIdle, OwnWorkOnly
  <2> QED BY <1>4, <2>1, <2>2, <2>3, <2>4, <2>5, <2>6 DEF Begin
<1>5. CASE WorkStep(v)
  <2>1. CASE CreatePayment(v)
    <3>1. CASE Goto(v, "idle") /\ UNCHANGED <<payment, gateway>>
        BY <3>1, GotoEffect DEF PCs
    <3>2. CASE ~(Goto(v, "idle") /\ UNCHANGED <<payment, gateway>>)
      <4> DEFINE instant == work[v].op \in {"CreateManual", "Collect"}
      <4>1. \/ work[v].op = "CreatePortalPayment" /\ work'[v] = Idle
            \/ /\ work[v].op # "CreatePortalPayment"
               /\ work'[v].pc = IF instant THEN "settle" ELSE "call"
               /\ work'[v].pay = newId /\ work'[v].inv = work[v].inv /\ work'[v].op = work[v].op
          BY <2>1, <3>2, CreateEffect
      <4> QED BY <4>1, IdleWork
    <3> QED BY <3>1, <3>2
  <2>2. CASE ~CreatePayment(v)
    <3>1. PICK pc \in {"idle", "ref", "refuse", "settle", "get", "restore"} : Goto(v, pc)
      <4>1. CASE SettleGet(v)
          BY <4>1, Zenon DEF SettleGet
      <4>2. CASE CallGateway(v) \/ SaveRef(v) \/ WriteConfirmed(v) \/ WriteRejected(v)
                 \/ WriteRefused(v) \/ WriteCancelled(v) \/ SettleInvoice(v) \/ SettleRestore(v)
          BY <4>2 DEF CallGateway, SaveRef, WriteConfirmed, WriteRejected, WriteRefused,
                      WriteCancelled, SettleInvoice, SettleRestore
      <4> QED BY <1>5, <2>2, <4>1, <4>2 DEF WorkStep
    <3> QED BY <3>1, GotoEffect DEF PCs
  <2> QED BY <2>1, <2>2
<1> QED BY <1>1, <1>2, <1>3, <1>4, <1>5, OthersKeepWork DEF Next

(* The invoice of a cash payment is safe from a second one. *)
Covered(i) ==
  \/ i \in disputed
  \/ /\ invoice[i].status = "paid" \/ \E w \in Workers : Settling(w, i)
     /\ \A v \in Workers : ~(work[v].pc = "create" /\ work[v].inv = i)

LEMMA CoveredStays ==
  ASSUME Sound, CollectionNext, NEW i \in Invoices, Covered(i)
  PROVE  Covered(i)'
<1>0. /\ Next /\ Sound'
      /\ i \in disputed' <=> i \in disputed \/ Overlapped(i) \/ Overwritten(i) \/ SettlementLost(i)
    BY SoundStep DEF CollectionNext, SettlementNext
<1> SUFFICES ASSUME i \notin disputed' PROVE Covered(i)'
    BY DEF Covered
<1>1. /\ i \notin disputed /\ ~Overlapped(i) /\ ~Overwritten(i) /\ ~SettlementLost(i)
      /\ invoice[i].status = "paid" \/ \E w \in Workers : Settling(w, i)
      /\ \A v \in Workers : ~(work[v].pc = "create" /\ work[v].inv = i)
    BY <1>0 DEF Covered
<1>2. invoice'[i].status = "paid" \/ \E w \in Workers : Settling(w, i)'
  <2>1. CASE invoice[i].status = "paid"
      BY <1>1, <2>1 DEF Overwritten
  <2>2. ASSUME NEW w \in Workers, Settling(w, i)
        PROVE  invoice'[i].status = "paid" \/ Settling(w, i)'
      BY <1>0, <1>1, <2>2, SettlingStep DEF SettlementLost
  <2> QED BY <1>1, <2>1, <2>2
<1>3. ASSUME NEW v \in Workers, work'[v].pc = "create", work'[v].inv = i PROVE FALSE
  <2>1. work'[v] # work[v]
      BY <1>1, <1>3
  <2>2. work[v].pc = "idle" /\ Unpaid(i) /\ \A w \in Workers \ {v} : work'[w] = work[w]
      BY <1>0, <1>3, <2>1, CreatingStep
  <2>3. PICK w \in Workers : Settling(w, i)
      BY <1>1, <2>2 DEF Unpaid
  <2>4. CASE w # v
    <3>1. Paying(v, i)' /\ Paying(w, i)'
        BY <1>3, <2>2, <2>3, <2>4 DEF Paying, Settling
    <3> QED BY <1>1, <2>4, <3>1 DEF Overlapped
  <2>5. CASE w = v
      BY <2>2, <2>3, <2>5 DEF Settling
  <2> QED BY <2>4, <2>5
<1> QED BY <1>2, <1>3 DEF Covered

LEMMA BookedStep ==
  ASSUME Sound, CollectionNext, Booked
  PROVE  Booked'
<1> SUFFICES ASSUME NEW p \in DOMAIN payment', payment'[p].op \in OverTheCounter,
                    NEW i, i = payment'[p].invoice
             PROVE  Covered(i)'
    BY DEF Booked, Covered, Settling
<1>0. Next
    BY DEF CollectionNext, SettlementNext
<1>1. CASE p \in DOMAIN payment
  <2>1. i = payment[p].invoice /\ i \in Invoices /\ payment[p].op \in OverTheCounter
      BY <1>0, <1>1, RowStep, Tables DEF Payment
  <2>2. Covered(i)
      BY <1>1, <2>1 DEF Booked, Covered
  <2> QED BY <2>1, <2>2, CoveredStays
<1>2. CASE p \notin DOMAIN payment
  <2>1. PICK w \in Workers : work'[w].pc = "settle" /\ work'[w].inv = i /\ i \in Invoices
      BY <1>0, <1>2, NewRowStep
  <2>2. ASSUME NEW v \in Workers, work'[v].pc = "create", work'[v].inv = i PROVE i \in disputed'
    <3>1. v # w /\ Paying(v, i)' /\ Paying(w, i)'
        BY <2>1, <2>2 DEF Paying
    <3>2. Overlapped(i)
        BY <3>1 DEF Overlapped
    <3> QED BY <2>1, <3>2 DEF CollectionNext
  <2> QED BY <2>1, <2>2 DEF Covered, Settling
<1> QED BY <1>1, <1>2

LEMMA CollectedOnceStep ==
  ASSUME Sound, CollectionNext, Booked, CollectedOnce
  PROVE  CollectedOnce'
<1> SUFFICES ASSUME NEW p \in DOMAIN payment', NEW q \in DOMAIN payment', p # q,
                    payment'[p].op \in OverTheCounter, payment'[q].op \in OverTheCounter,
                    NEW i, i = payment'[p].invoice, i = payment'[q].invoice
             PROVE  i \in disputed'
    BY DEF CollectedOnce
<1>0. Next /\ \A j \in Invoices : j \in disputed => j \in disputed'
    BY DEF CollectionNext, SettlementNext
<1>1. \A r \in DOMAIN payment : payment[r].invoice \in Invoices
    BY Tables DEF Payment
<1>2. ASSUME NEW r \in DOMAIN payment, payment'[r].op \in OverTheCounter, payment'[r].invoice = i,
             NEW t \in DOMAIN payment', payment'[t].invoice = i, t \notin DOMAIN payment
      PROVE  i \in disputed'
  <2>1. payment[r].invoice = i /\ payment[r].op \in OverTheCounter
      BY <1>0, <1>2, RowStep
  <2>2. PICK w \in Workers : work[w].pc = "create" /\ work[w].inv = i
      BY <1>0, <1>2, NewRowStep
  <2>3. i \in disputed
      BY <2>1, <2>2 DEF Booked
  <2> QED BY <1>0, <1>1, <2>1, <2>3
<1>3. CASE p \in DOMAIN payment /\ q \in DOMAIN payment
  <2>1. /\ payment[p].invoice = i /\ payment[q].invoice = i
        /\ payment[p].op \in OverTheCounter /\ payment[q].op \in OverTheCounter
      BY <1>0, <1>3, RowStep
  <2>2. i \in disputed
      BY <1>3, <2>1 DEF CollectedOnce
  <2> QED BY <1>0, <1>1, <1>3, <2>1, <2>2
<1>4. CASE p \notin DOMAIN payment /\ q \notin DOMAIN payment
    BY <1>0, <1>4, NewRowStep
<1> QED BY <1>2, <1>3, <1>4

(* Cash for an invoice is taken twice only when two requests overlapped or a *)
(* settlement was lost or overwritten: the look at the invoice is enough     *)
(* otherwise (CreateManual, Collect).                                        *)
THEOREM Collection == CollectionSpec => []CollectedOnce
<1> DEFINE Inv == Sound /\ Booked /\ CollectedOnce
<1>1. CollectionInit => Inv
    BY BookedInit
<1>2. ASSUME Inv, [CollectionNext]_collectionVars PROVE Inv'
  <2>1. CASE CollectionNext
    <3>1. Sound'
        BY <1>2, <2>1, SoundStep DEF CollectionNext, SettlementNext
    <3> QED BY <1>2, <2>1, <3>1, BookedStep, CollectedOnceStep
  <2>2. CASE UNCHANGED collectionVars
    <3>1. UNCHANGED <<vars, disputed>>
        BY <2>2 DEF collectionVars, settlementVars, vars
    <3>2. Sound'
        BY <1>2, <3>1, SoundStep
    <3>3. Booked' /\ CollectedOnce'
        BY <1>2, <3>1 DEF vars, Booked, CollectedOnce, Settling
    <3> QED BY <3>2, <3>3
  <2> QED BY <1>2, <2>1, <2>2
<1> QED BY <1>1, <1>2, PTL DEF CollectionSpec
=============================================================================
