------------------------------ MODULE Billing ------------------------------
(***************************************************************************)
(* The monthly billing of one subscription: the next_invoice_date of its   *)
(* row, the billing cron that runs at seven every day, and the requests    *)
(* that write the date or save the whole row.  Subscriptions are billed    *)
(* independently of each other, so there is one.                           *)
(*                                                                         *)
(* A date is a month, counted from a January, and a day of that month.     *)
(* Invoices are their period_start: (subscription_id, period_start) is     *)
(* unique.  The server's clock is in UTC, as in its container.             *)
(***************************************************************************)
EXTENDS Naturals

CONSTANTS
  MonthLengths,  \* the number of days of the twelve months
  BillingDays,   \* values of billing_day
  StartDates,    \* the days a behaviour can begin with
  MaxMonth,      \* the last month of a behaviour, for TLC
  Ops,           \* what can happen besides the cron, a subset of OpNames
  MaxOps         \* bound on the operations of one behaviour, for TLC

VARIABLES
  today,
  clock,     \* 0 before the cron's hour, 1 from then on
  sub,       \* the row of the subscription
  invoices,  \* the period_start of every invoice
  cron,      \* the running BillingCronJob.Run and the row it listed
  edit,      \* the request that will save a copy of the row
  started

vars == <<today, clock, sub, invoices, cron, edit, started>>

-----------------------------------------------------------------------------
OpNames == {"Create", "CompleteInstall", "Update", "UpdateStatus", "Delete", "Generate",
            "fault", "outage", "restart"}

MonthLength(m) == MonthLengths[(m % 12) + 1]

Date == {x \in [m : Nat, d : 1..31] : x.d <= MonthLength(x.m)}

ASSUME BillingAssumption ==
  /\ MonthLengths \in [1..12 -> 28..31]
  /\ BillingDays \subseteq Nat /\ BillingDays # {}
  /\ StartDates \subseteq Date
  /\ MaxMonth \in Nat
  /\ Ops \subseteq OpNames
  /\ MaxOps \in Nat

\* next_invoice_date is NULL.
NoDate == [m |-> 0, d |-> 0]

Sub == [live : BOOLEAN, active : BOOLEAN, next : Date \cup {NoDate}, billingDay : BillingDays]

NoSub == [live |-> FALSE, active |-> FALSE, next |-> NoDate, billingDay |-> CHOOSE b \in BillingDays : TRUE]

Idle == [pc |-> "idle", copy |-> NoSub]

Before(a, b) == a.m < b.m \/ (a.m = b.m /\ a.d < b.d)

DayAfter(x) == IF x.d < MonthLength(x.m) THEN [x EXCEPT !.d = @ + 1] ELSE [m |-> x.m + 1, d |-> 1]

\* A faulty form, to test the properties with: the last day of the next month runs over.
AddMonthEarly(x) == IF x.d < MonthLength(x.m + 1) THEN x.m + 1 ELSE x.m + 2

\* The month of AddDate(0, 1, 0): a day the next month does not have runs over into
\* the month after it.
AddMonth(x) == IF x.d <= MonthLength(x.m + 1) THEN x.m + 1 ELSE x.m + 2

\* A faulty form, to test the properties with: a month may lack the day.
clampDayUnbounded(b) == b

clampDay(b) == IF b < 1 THEN 1 ELSE IF b > 28 THEN 28 ELSE b

\* A faulty form, to test the properties with: the month does not advance.
AdvanceWithinMonth(x, b) == [m |-> x.m, d |-> clampDay(b)]

\* The next_invoice_date after the period that starts at x has been billed.
Advance(x, b) == [m |-> AddMonth(x), d |-> clampDay(b)]

-----------------------------------------------------------------------------
Init ==
  /\ today \in StartDates
  /\ clock = 0
  /\ sub = NoSub
  /\ invoices = {}
  /\ cron = Idle
  /\ edit = Idle
  /\ started = 0

Call(op) == op \in Ops /\ started < MaxOps /\ started' = started + 1

\* A statement that fails, or whose request is cancelled.
Fault == "fault" \in Ops /\ started < MaxOps /\ started' = started + 1

\* A subscription created after a deleted one is another row, with no invoices: what is
\* under way for the earlier row does not touch it, and is over.
Another == ~sub.live /\ edit.pc = "idle" /\ cron.pc = "idle"

\* The first invoice is for today; the handler holds the record it created.
CompleteInstall(b) ==
  /\ Call("CompleteInstall")
  /\ Another
  /\ sub' = [live |-> TRUE, active |-> TRUE, next |-> today, billingDay |-> b]
  /\ invoices' = {}
  /\ edit' = [pc |-> "invoice", copy |-> sub']
  /\ UNCHANGED <<today, clock, cron>>

\* GenerateForSubscription: refused for a period that has an invoice.  A failure is
\* logged and the schedule stays where it is.
FirstInvoice ==
  LET period == edit.copy.next
  IN /\ edit.pc = "invoice"
     /\ \/ /\ period \notin invoices
           /\ invoices' = invoices \cup {period}
           /\ edit' = [pc |-> "save",
                       copy |-> [edit.copy EXCEPT !.next = Advance(period, edit.copy.billingDay)]]
           /\ UNCHANGED started
        \/ /\ IF period \in invoices THEN UNCHANGED started ELSE Fault
           /\ edit' = Idle
           /\ UNCHANGED invoices
     /\ UNCHANGED <<today, clock, sub, cron>>

Create(b) ==
  /\ Call("Create")
  /\ Another
  /\ sub' = [live |-> TRUE, active |-> FALSE, next |-> NoDate, billingDay |-> b]
  /\ invoices' = {}
  /\ UNCHANGED <<today, clock, cron, edit>>

\* Every change of status: provisioning, PatchStatus, suspension and settlement.
\* COALESCE(next_invoice_date, today) when the new status is active.
UpdateStatus(active) ==
  /\ Call("UpdateStatus")
  /\ sub.live
  /\ sub' = [sub EXCEPT !.active = active,
                        !.next = IF active /\ sub.next = NoDate THEN today ELSE sub.next]
  /\ UNCHANGED <<today, clock, invoices, cron, edit>>

Update(b) ==
  /\ Call("Update")
  /\ sub.live
  /\ edit.pc = "idle"
  /\ edit' = [pc |-> "save", copy |-> [sub EXCEPT !.billingDay = b]]
  /\ UNCHANGED <<today, clock, sub, invoices, cron>>

\* Save writes every column of the copy, also over a deleted row.
SaveRow ==
  /\ edit.pc = "save"
  /\ \/ sub' = edit.copy /\ UNCHANGED started
     \/ Fault /\ UNCHANGED sub
  /\ edit' = Idle
  /\ UNCHANGED <<today, clock, invoices, cron>>

Delete ==
  /\ Call("Delete")
  /\ sub.live
  /\ sub' = [sub EXCEPT !.live = FALSE]
  /\ UNCHANGED <<today, clock, invoices, cron, edit>>

\* Invoices.Generate for a period the operator chooses.
Generate(period) ==
  /\ Call("Generate")
  /\ sub.live
  /\ period \in Date \ invoices
  /\ invoices' = invoices \cup {period}
  /\ UNCHANGED <<today, clock, sub, cron, edit>>

-----------------------------------------------------------------------------
(* The cron and the clock. *)

\* Only a row that is active and whose date is today is billed.
CronRun ==
  /\ clock = 0
  /\ clock' = 1
  /\ cron' = IF sub.live /\ sub.active /\ sub.next = today THEN [pc |-> "generate", copy |-> sub] ELSE Idle
  /\ UNCHANGED <<today, sub, invoices, edit, started>>

\* An error, a period that has an invoice included, skips the subscription.
CronGenerate ==
  LET period == cron.copy.next
  IN /\ cron.pc = "generate"
     /\ \/ /\ period \notin invoices
           /\ invoices' = invoices \cup {period}
           /\ cron' = [cron EXCEPT !.pc = "advance"]
           /\ UNCHANGED started
        \/ /\ IF period \in invoices THEN UNCHANGED started ELSE Fault
           /\ cron' = Idle
           /\ UNCHANGED invoices
     /\ UNCHANGED <<today, clock, sub, edit>>

\* UpdateNextInvoiceDate writes one column of a live row.
CronAdvance ==
  /\ cron.pc = "advance"
  /\ \/ /\ sub' = IF sub.live THEN [sub EXCEPT !.next = Advance(cron.copy.next, cron.copy.billingDay)]
                              ELSE sub
        /\ UNCHANGED started
     \/ Fault /\ UNCHANGED sub
  /\ cron' = Idle
  /\ UNCHANGED <<today, clock, invoices, edit>>

\* The server is down at the cron's hour: startDailyJob waits for the next day.
Outage ==
  /\ Call("outage")
  /\ clock = 0
  /\ clock' = 1
  /\ edit' = Idle
  /\ UNCHANGED <<today, sub, invoices, cron>>

Restart ==
  /\ Call("restart")
  /\ cron' = Idle
  /\ edit' = Idle
  /\ UNCHANGED <<today, clock, sub, invoices>>

\* A run and a request are over long before midnight.
Tick ==
  /\ clock = 1
  /\ cron.pc = "idle" /\ edit.pc = "idle"
  /\ today' = DayAfter(today)
  /\ today'.m <= MaxMonth
  /\ clock' = 0
  /\ UNCHANGED <<sub, invoices, cron, edit, started>>

Next ==
  \/ \E b \in BillingDays : CompleteInstall(b) \/ Create(b) \/ Update(b)
  \/ FirstInvoice \/ SaveRow \/ Delete
  \/ \E active \in BOOLEAN : UpdateStatus(active)
  \/ \E period \in {today, sub.next} : Generate(period)
  \/ CronRun \/ CronGenerate \/ CronAdvance
  \/ Outage \/ Restart \/ Tick

Spec == Init /\ [][Next]_vars

TypeOK ==
  /\ today \in Date
  /\ clock \in {0, 1}
  /\ sub \in Sub
  /\ invoices \subseteq Date
  /\ cron \in [pc : {"idle", "generate", "advance"}, copy : Sub]
  /\ cron.pc # "idle" => cron.copy.next \in Date
  /\ edit \in [pc : {"idle", "invoice", "save"}, copy : Sub]
  /\ edit.pc = "invoice" => edit.copy.next \in Date
  /\ started \in 0..MaxOps
=============================================================================
