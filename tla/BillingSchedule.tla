-------------------------- MODULE BillingSchedule --------------------------
(***************************************************************************)
(* When a subscription drops out of the billing schedule, and which months *)
(* the schedule leaves out.                                                *)
(*                                                                         *)
(* The cron compares next_invoice_date with today for equality, so a date  *)
(* that has passed is never billed and never moves again, and a month the  *)
(* date has moved over is never billed by the cron.  The history variables *)
(* record that one of the named causes has let a date pass or has left a   *)
(* month out; the properties are that there is no other.                   *)
(***************************************************************************)
EXTENDS Billing

VARIABLES
  lapsed,   \* the date was let pass
  since,    \* the day the schedule of the row began with
  skipped   \* the months that the arithmetic of the dates left out

scheduleVars == <<today, clock, sub, invoices, cron, edit, started, lapsed, since, skipped>>

\* The handler of an installation has still to move the date.
Installing == edit.pc = "invoice" \/ (edit.pc = "save" /\ Before(sub.next, edit.copy.next))

\* The cron of that day is over and neither a run nor an installation will move the date.
Behind ==
  /\ sub.live /\ sub.next # NoDate /\ cron.pc = "idle" /\ ~Installing
  /\ Before(sub.next, today) \/ (sub.next = today /\ clock = 1)

-----------------------------------------------------------------------------
\* The server was down at seven on the billing day.
Down == Outage /\ sub.next = today

\* The customer was isolated, suspended or not yet installed on the billing day.
Inactive == CronRun /\ ~sub.active

\* The run could not create the invoice, because of an error or because the period has
\* one already, or could not move the date after it.
Unfinished ==
  /\ cron.pc # "idle" /\ cron'.pc = "idle"
  /\ started' # started \/ (cron.pc = "generate" /\ cron.copy.next \in invoices)

\* The installation could not create its invoice, or could not save the row after it.
\* The comment there has the cron cover this; once the cron of the day is over, it does not.
Uncovered ==
  /\ Installing /\ edit'.pc = "idle"
  /\ started' # started \/ (edit.pc = "invoice" /\ edit.copy.next \in invoices)

\* The subscription became active on a day whose cron was over.
LateStart == clock = 1 /\ sub.next = NoDate /\ UpdateStatus(TRUE)

\* An update saved the whole row from a copy with an older date, or over a row that has
\* been deleted since.
StaleSave == SaveRow /\ (~sub.live \/ sub.next = NoDate \/ Before(sub'.next, sub.next))

Lapse == Down \/ Inactive \/ Unfinished \/ Uncovered \/ LateStart \/ StaleSave

-----------------------------------------------------------------------------
\* The schedule begins at an installation or at the first activation of a row that has
\* no date (or has lost it to a stale save).
Begins == sub'.next # NoDate /\ (sub.next = NoDate \/ \E b \in BillingDays : CompleteInstall(b))

\* The next month does not have the day of the period, and is run over.
RunsOver(period) == period.d > MonthLength(period.m + 1)

\* The period from which this step computes the next date.
Billed == IF CronAdvance THEN {cron.copy.next}
          ELSE IF FirstInvoice /\ edit'.pc = "save" THEN {edit.copy.next} ELSE {}

ScheduleInit == Init /\ lapsed = FALSE /\ since = NoDate /\ skipped = {}

ScheduleNext ==
  /\ Next
  /\ lapsed' = (Behind' /\ (lapsed \/ Lapse))
  /\ since' = IF Begins THEN sub'.next ELSE since
  /\ skipped' = skipped \cup {p.m + 1 : p \in {q \in Billed : RunsOver(q)}}

ScheduleSpec == ScheduleInit /\ [][ScheduleNext]_scheduleVars

-----------------------------------------------------------------------------
\* An active subscription whose billing date has gone by without an invoice run got
\* there by one of the causes above: the arithmetic of the dates, the order of cron
\* and requests and the length of the months never lose a billing day by themselves
\* (BillingCronJob.Run, CompleteInstall, UpdateStatus).
LapseExplained == sub.active /\ Behind => lapsed

\* Every month from begin and before x is billed or left out.
CoveredFrom(begin, x, left, billed) ==
  \A m \in begin.m..x.m : m = x.m \/ m \in left \/ \E i \in billed : i.m = m

\* Every month before x of this schedule has an invoice or was run over.
Covered(x) == CoveredFrom(since, x, skipped, invoices)

\* The date of a subscription moves over a month only when that month has an invoice, or
\* when it lacks the day of the period before it (an installation, an activation or a
\* billing on the 29th to the 31st): no stale save, late cron run, refused or failed
\* invoice makes the schedule skip one (BillingCronJob.Run, CompleteInstall, Update).
MonthsAreBilled == sub.live /\ sub.next # NoDate => Covered(sub.next)

\* What makes them inductive: what is under way is about today, so that the dates it
\* computes lie ahead, ...
UnderWay ==
  /\ cron.pc # "idle" => cron.copy.next = today /\ clock = 1
  /\ edit.pc = "invoice" => edit.copy.next = today
  /\ edit.pc = "save" /\ Before(sub.next, edit.copy.next) => Before(today, edit.copy.next)
  /\ edit.pc # "idle" /\ edit.copy.next # NoDate => sub.next # NoDate

\* ... and the dates that are about to be written cover the months before them.
Coverage ==
  /\ since \in Date \cup {NoDate}
  /\ sub.next # NoDate => Covered(sub.next)
  /\ cron.pc # "idle" => Covered(cron.copy.next)
  /\ cron.pc = "advance" => cron.copy.next \in invoices
  /\ edit.pc # "idle" /\ edit.copy.next # NoDate => Covered(edit.copy.next)

ScheduleInv == (Behind => lapsed) /\ UnderWay /\ Coverage
=============================================================================
