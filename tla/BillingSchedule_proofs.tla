----------------------- MODULE BillingSchedule_proofs -----------------------
(***************************************************************************)
(* LapseExplained and MonthsAreBilled hold for every calendar, every       *)
(* billing day and any number of requests, faults, outages and restarts.   *)
(*                                                                         *)
(* A date is behind only if a step made it so.  UnderWay adds that a run   *)
(* or a handler under way is about today, so that the date it writes lies  *)
(* ahead; Coverage follows the dates that are about to be written.         *)
(***************************************************************************)
EXTENDS BillingSchedule, TLAPS

(* Months have 28 to 31 days. *)
LEMMA MonthLengthType == ASSUME NEW m \in Nat PROVE MonthLength(m) \in 28..31
<1>1. (m % 12) + 1 \in 1..12
  OBVIOUS
<1> QED
  BY <1>1, BillingAssumption DEF MonthLength

(* The next date is a date in a later month. *)
LEMMA AdvanceType ==
  ASSUME NEW x \in Date, NEW b \in Nat
  PROVE  Advance(x, b) \in Date /\ Advance(x, b) # NoDate /\ Before(x, Advance(x, b))
<1>1. x.m \in Nat /\ AddMonth(x) \in Nat /\ AddMonth(x) > x.m
  BY DEF Date, AddMonth
<1>2. clampDay(b) \in 1..28
  BY DEF clampDay
<1>3. MonthLength(AddMonth(x)) \in 28..31
  BY <1>1, MonthLengthType
<1>4. Advance(x, b).m = AddMonth(x) /\ Advance(x, b).d = clampDay(b)
  BY DEF Advance
<1>5. Advance(x, b) \in [m : Nat, d : 1..31]
  BY <1>1, <1>2 DEF Advance
<1>6. Advance(x, b) \in Date
  BY <1>2, <1>3, <1>4, <1>5 DEF Date
<1>7. Advance(x, b) # NoDate
  BY <1>2, <1>4 DEF NoDate
<1> QED
  BY <1>1, <1>4, <1>6, <1>7 DEF Before

(* Nothing lies between a day and the day after it. *)
LEMMA DayAfterType ==
  ASSUME NEW x \in Date
  PROVE  /\ DayAfter(x) \in Date
         /\ \A y \in Date : Before(y, DayAfter(x)) => Before(y, x) \/ y = x
         /\ ~Before(DayAfter(x), x)
<1>1. x \in [m : Nat, d : 1..31] /\ x.d <= MonthLength(x.m) /\ MonthLength(x.m) \in 28..31
  BY MonthLengthType DEF Date
<1>2. MonthLength(x.m + 1) \in 28..31
  BY <1>1, MonthLengthType
<1>3. CASE x.d < MonthLength(x.m)
  <2>1. DayAfter(x) = [m |-> x.m, d |-> x.d + 1]
    BY <1>1, <1>3 DEF DayAfter
  <2>2. DayAfter(x) \in Date
    BY <1>1, <1>3, <2>1 DEF Date
  <2>3. ASSUME NEW y \in Date, Before(y, DayAfter(x)) PROVE Before(y, x) \/ y = x
    <3>1. y.m < x.m \/ (y.m = x.m /\ y.d < x.d + 1)
      BY <2>1, <2>3 DEF Before
    <3>2. y \in [m : Nat, d : 1..31]
      BY DEF Date
    <3>3. y.m < x.m \/ (y.m = x.m /\ y.d < x.d) \/ (y.m = x.m /\ y.d = x.d)
      BY <1>1, <3>1, <3>2
    <3>4. y.m = x.m /\ y.d = x.d => y = x
      BY <1>1, <3>2
    <3> QED
      BY <3>3, <3>4 DEF Before
  <2> QED
    BY <1>1, <2>1, <2>2, <2>3 DEF Before
<1>4. CASE ~(x.d < MonthLength(x.m))
  <2>1. DayAfter(x) = [m |-> x.m + 1, d |-> 1]
    BY <1>4 DEF DayAfter
  <2>2. DayAfter(x) \in Date
    BY <1>1, <1>2, <2>1 DEF Date
  <2>3. ASSUME NEW y \in Date, Before(y, DayAfter(x)) PROVE Before(y, x) \/ y = x
    <3>1. y.m < x.m + 1 \/ (y.m = x.m + 1 /\ y.d < 1)
      BY <2>1, <2>3 DEF Before
    <3>2. y \in [m : Nat, d : 1..31] /\ y.d <= MonthLength(y.m)
      BY DEF Date
    <3>3. y.m < x.m \/ (y.m = x.m /\ y.d < x.d) \/ (y.m = x.m /\ y.d = x.d)
      BY <1>1, <1>4, <3>1, <3>2
    <3>4. y.m = x.m /\ y.d = x.d => y = x
      BY <1>1, <3>2
    <3> QED
      BY <3>3, <3>4 DEF Before
  <2> QED
    BY <1>1, <2>1, <2>2, <2>3 DEF Before
<1> QED
  BY <1>3, <1>4

(* Dates are totally ordered. *)
LEMMA BeforeOrder ==
  ASSUME NEW x \in Date, NEW y \in Date, NEW z \in Date
  PROVE  /\ x = y \/ Before(x, y) \/ Before(y, x)
         /\ Before(x, y) /\ Before(y, z) => Before(x, z)
<1>1. x \in [m : Nat, d : 1..31] /\ y \in [m : Nat, d : 1..31] /\ z \in [m : Nat, d : 1..31]
  BY DEF Date
<1>2. x.m = y.m /\ x.d = y.d => x = y
  BY <1>1
<1>3. (x.m = y.m /\ x.d = y.d) \/ Before(x, y) \/ Before(y, x)
  BY <1>1 DEF Before
<1>4. Before(x, y) /\ Before(y, z) => Before(x, z)
  BY <1>1 DEF Before
<1> QED
  BY <1>2, <1>3, <1>4

(* The first row, and what it means that a date is not NULL. *)
LEMMA NoSubType == NoSub \in Sub /\ NoDate \notin Date
<1>1. NoDate \notin Date
  BY DEF NoDate, Date
<1>2. (CHOOSE b \in BillingDays : TRUE) \in BillingDays
  BY BillingAssumption
<1> QED
  BY <1>1, <1>2 DEF NoSub, Sub

-----------------------------------------------------------------------------
(* The row, the invoices, the run and the request keep their types. *)
LEMMA BillingInitType == Init => TypeOK
  BY NoSubType, BillingAssumption DEF Init, TypeOK, Idle

\* Every step of the billing keeps the types.
LEMMA BillingNextType == TypeOK /\ [Next]_vars => TypeOK'
<1> SUFFICES ASSUME TypeOK, [Next]_vars PROVE TypeOK'
  OBVIOUS
<1> USE DEF TypeOK
<1>a. Idle \in [pc : {"idle"}, copy : Sub]
  BY NoSubType DEF Idle
<1>b. MaxOps \in Nat /\ (started < MaxOps /\ started' = started + 1 => started' \in 0..MaxOps)
  BY BillingAssumption
<1>1. ASSUME NEW b \in BillingDays, CompleteInstall(b) PROVE TypeOK'
  <2>1. sub' \in Sub /\ sub'.next \in Date
    BY <1>1 DEF CompleteInstall, Sub
  <2> QED
    BY <1>1, <1>b, <2>1 DEF CompleteInstall, Call
<1>2. ASSUME NEW b \in BillingDays, Create(b) PROVE TypeOK'
  <2>1. sub' \in Sub
    BY <1>2 DEF Create, Sub
  <2> QED
    BY <1>2, <1>b, <2>1 DEF Create, Call
<1>3. ASSUME NEW b \in BillingDays, Update(b) PROVE TypeOK'
  <2>1. [sub EXCEPT !.billingDay = b] \in Sub
    BY DEF Sub
  <2> QED
    BY <1>3, <1>b, <2>1 DEF Update, Call
<1>4. CASE FirstInvoice
  <2> DEFINE c == edit.copy
  <2>1. c \in Sub /\ c.billingDay \in Nat /\ c.next \in Date
    BY <1>4, BillingAssumption DEF FirstInvoice, Sub
  <2>2. [c EXCEPT !.next = Advance(c.next, c.billingDay)] \in Sub
    BY <2>1, AdvanceType DEF Sub
  <2>3. edit' \in [pc : {"idle", "save"}, copy : Sub]
    BY <1>4, <1>a, <2>2 DEF FirstInvoice
  <2> QED
    BY <1>4, <1>b, <2>1, <2>3 DEF FirstInvoice, Fault
<1>5. ASSUME NEW active \in BOOLEAN, UpdateStatus(active) PROVE TypeOK'
  <2>1. sub' \in Sub
    BY <1>5 DEF UpdateStatus, Sub
  <2> QED
    BY <1>5, <1>b, <2>1 DEF UpdateStatus, Call
<1>6. CASE SaveRow
  BY <1>6, <1>a, <1>b DEF SaveRow, Fault
<1>7. CASE Delete
  <2>1. sub' \in Sub
    BY <1>7 DEF Delete, Sub
  <2> QED
    BY <1>7, <1>b, <2>1 DEF Delete, Call
<1>8. ASSUME NEW period, Generate(period) PROVE TypeOK'
  BY <1>8, <1>b DEF Generate, Call
<1>9. CASE CronRun
  <2>1. cron' \in [pc : {"idle", "generate"}, copy : Sub] /\ (cron'.pc # "idle" => cron'.copy.next \in Date)
    BY <1>9, <1>a DEF CronRun
  <2> QED
    BY <1>9, <2>1 DEF CronRun
<1>10. CASE CronGenerate
  BY <1>10, <1>a, <1>b DEF CronGenerate, Fault
<1>11. CASE CronAdvance
  <2> DEFINE c == cron.copy
  <2>1. c \in Sub /\ c.billingDay \in Nat /\ c.next \in Date
    BY <1>11, BillingAssumption DEF CronAdvance, Sub
  <2>2. [sub EXCEPT !.next = Advance(c.next, c.billingDay)] \in Sub
    BY <2>1, AdvanceType DEF Sub
  <2>3. sub' \in Sub /\ cron' \in [pc : {"idle"}, copy : Sub]
    BY <1>11, <1>a, <2>2 DEF CronAdvance
  <2> QED
    BY <1>11, <1>b, <2>3 DEF CronAdvance, Fault
<1>12. CASE Outage \/ Restart
  BY <1>12, <1>a, <1>b DEF Outage, Restart, Call
<1>13. CASE Tick
  BY <1>13, DayAfterType DEF Tick
<1>14. CASE UNCHANGED vars
  BY <1>14 DEF vars
<1> QED
  BY <1>1, <1>2, <1>3, <1>4, <1>5, <1>6, <1>7, <1>8, <1>9, <1>10, <1>11, <1>12, <1>13, <1>14 DEF Next

-----------------------------------------------------------------------------
(* What is under way stays about today: a run takes its copy when the row is  *)
(* due, an installation begins today, and the day does not end before them.   *)
LEMMA UnderWayStep ==
  ASSUME TypeOK, TypeOK', Next, UnderWay
  PROVE  UnderWay'
<1> USE DEF UnderWay
<1>a. \A x \in Date \cup {NoDate} : ~Before(x, x) /\ ~Before(x, NoDate)
  BY DEF Before, Date, NoDate
<1>b. NoDate \notin Date /\ sub.next \in Date \cup {NoDate} /\ edit.copy.next \in Date \cup {NoDate} /\ today \in Date
  BY NoSubType DEF TypeOK, Sub
<1>1. ASSUME NEW b \in BillingDays, CompleteInstall(b) PROVE UnderWay'
  BY <1>1, <1>b DEF CompleteInstall, Another
<1>2. ASSUME NEW b \in BillingDays, Create(b) PROVE UnderWay'
  BY <1>2 DEF Create, Another
<1>3. ASSUME NEW b \in BillingDays, Update(b) PROVE UnderWay'
  <2>1. edit'.copy.next = sub.next /\ edit'.pc = "save" /\ sub' = sub
    BY <1>3 DEF Update, TypeOK, Sub
  <2> QED
    BY <1>3, <2>1, <1>a, <1>b DEF Update
<1>4. CASE FirstInvoice
  <2> DEFINE c == edit.copy
             n == Advance(c.next, c.billingDay)
  <2>1. CASE edit' = Idle
    BY <1>4, <2>1 DEF FirstInvoice, Idle
  <2>2. CASE edit' = [pc |-> "save", copy |-> [c EXCEPT !.next = n]]
    <3>1. c \in Sub /\ c.billingDay \in Nat /\ c.next \in Date /\ c.next = today
      BY <1>4, BillingAssumption DEF FirstInvoice, Sub, TypeOK
    <3>2. n \in Date /\ Before(today, n)
      BY <3>1, AdvanceType
    <3>3. edit'.copy.next = n /\ edit'.pc = "save" /\ sub.next # NoDate
      BY <1>4, <2>2, <3>1, <1>b DEF FirstInvoice, Sub
    <3> QED
      BY <1>4, <3>2, <3>3 DEF FirstInvoice
  <2> QED
    BY <1>4, <2>1, <2>2 DEF FirstInvoice
<1>5. ASSUME NEW active \in BOOLEAN, UpdateStatus(active) PROVE UnderWay'
  <2>1. sub'.next = sub.next \/ (sub.next = NoDate /\ sub'.next = today)
    BY <1>5 DEF UpdateStatus, TypeOK, Sub
  <2>2. UNCHANGED <<today, clock, cron, edit>>
    BY <1>5 DEF UpdateStatus
  <2>3. CASE sub'.next = sub.next
    BY <2>2, <2>3
  <2>4. CASE sub.next = NoDate /\ sub'.next = today
    BY <2>2, <2>4, <1>a, <1>b
  <2> QED
    BY <2>1, <2>3, <2>4
<1>6. CASE SaveRow
  BY <1>6 DEF SaveRow, Idle
<1>7. CASE Delete \/ \E period \in {today, sub.next} : Generate(period)
  <2>1. sub'.next = sub.next /\ UNCHANGED <<today, clock, cron, edit>>
    BY <1>7 DEF Delete, Generate, TypeOK, Sub
  <2> QED
    BY <2>1
<1>8. CASE CronRun
  BY <1>8 DEF CronRun, Idle
<1>9. CASE CronGenerate
  <2>1. cron' = Idle \/ (cron'.copy = cron.copy /\ cron.pc # "idle")
    BY <1>9 DEF CronGenerate, TypeOK
  <2> QED
    BY <1>9, <2>1 DEF CronGenerate, Idle
<1>10. CASE CronAdvance
  <2> DEFINE n == Advance(cron.copy.next, cron.copy.billingDay)
  <2>1. n \in Date /\ Before(today, n)
    BY <1>10, AdvanceType, BillingAssumption DEF CronAdvance, TypeOK, Sub
  <2>2. sub' = sub \/ sub'.next = n
    BY <1>10 DEF CronAdvance, TypeOK, Sub
  <2>3. UNCHANGED <<today, clock, edit>> /\ cron'.pc = "idle"
    BY <1>10 DEF CronAdvance, Idle
  <2>4. CASE sub' = sub
    BY <2>3, <2>4
  <2>5. CASE sub'.next = n
    <3>1. Before(n, edit.copy.next) => Before(today, edit.copy.next)
      <4>1. CASE edit.copy.next = NoDate
        BY <2>1, <4>1, <1>a
      <4>2. CASE edit.copy.next \in Date
        BY <2>1, <4>2, <1>b, BeforeOrder
      <4> QED
        BY <4>1, <4>2, <1>b
    <3> QED
      BY <2>1, <2>3, <2>5, <3>1, <1>b
  <2> QED
    BY <2>2, <2>4, <2>5
<1>11. CASE Outage
  BY <1>11 DEF Outage, TypeOK, Idle
<1>12. CASE Restart
  BY <1>12 DEF Restart, Idle
<1>13. CASE Tick
  BY <1>13 DEF Tick
<1> QED
  BY <1>1, <1>2, <1>3, <1>4, <1>5, <1>6, <1>7, <1>8, <1>9, <1>10, <1>11, <1>12, <1>13 DEF Next

(* Every step that lets the date pass is one of the causes. *)
LEMMA OnlyLapses ==
  ASSUME TypeOK, TypeOK', Next, UnderWay, Behind', ~Behind
  PROVE  Lapse
<1> USE DEF Behind
<1>a. started \in Nat /\ (Fault => started' # started) /\ (\A op : Call(op) => started' # started)
  BY DEF TypeOK, Fault, Call
<1>1. ASSUME NEW b \in BillingDays, CompleteInstall(b) PROVE Lapse
  BY <1>1 DEF CompleteInstall, Installing
<1>2. ASSUME NEW b \in BillingDays, Create(b) PROVE Lapse
  BY <1>2 DEF Create
<1>3. ASSUME NEW b \in BillingDays, Update(b) PROVE Lapse
  BY <1>3 DEF Update, Installing
<1>4. CASE FirstInvoice
  <2>1. edit.pc = "invoice" /\ sub' = sub /\ cron' = cron /\ UNCHANGED <<today, clock>>
    BY <1>4 DEF FirstInvoice
  <2>2. CASE edit' = Idle
    <3>1. started' # started \/ edit.copy.next \in invoices
      BY <1>4, <2>2, <1>a DEF FirstInvoice, Idle
    <3> QED
      BY <2>1, <2>2, <3>1 DEF Idle, Lapse, Uncovered, Installing
  <2>3. CASE edit' # Idle
    <3> DEFINE n == Advance(edit.copy.next, edit.copy.billingDay)
    <3>1. edit'.pc = "save" /\ edit'.copy.next = n
      BY <1>4, <2>3 DEF FirstInvoice, TypeOK, Sub
    <3>2. n \in Date /\ Before(today, n)
      BY <2>1, AdvanceType, BillingAssumption DEF TypeOK, Sub, UnderWay
    <3>3. ~Before(sub.next, n)
      BY <2>1, <3>1 DEF Installing
    <3>4. sub.next \in Date /\ today \in Date
      BY <2>1 DEF TypeOK, Sub
    <3>5. ~Before(sub.next, today) /\ sub.next # today
      BY <3>2, <3>3, <3>4, BeforeOrder
    <3> QED
      BY <2>1, <3>5
  <2> QED
    BY <2>2, <2>3
<1>5. ASSUME NEW active \in BOOLEAN, UpdateStatus(active) PROVE Lapse
  <2>1. ~Before(today, today)
    BY DEF Before, TypeOK, Date
  <2>2. active = TRUE /\ sub.next = NoDate /\ sub'.next = today
    BY <1>5 DEF UpdateStatus, TypeOK, Sub, Installing
  <2>3. clock = 1
    BY <1>5, <2>1, <2>2 DEF UpdateStatus
  <2> QED
    BY <1>5, <2>2, <2>3 DEF Lapse, LateStart
<1>6. CASE SaveRow
  <2>1. UNCHANGED <<today, clock, cron>> /\ edit' = Idle /\ edit.pc = "save"
    BY <1>6 DEF SaveRow
  <2>2. SUFFICES ASSUME sub.live, sub.next # NoDate, ~Before(sub'.next, sub.next), ~Uncovered PROVE FALSE
    BY <1>6 DEF Lapse, StaleSave
  <2>3. sub.next \in Date /\ sub'.next \in Date /\ today \in Date
    BY <2>2 DEF TypeOK, Sub
  <2>4. sub' = edit.copy \/ (sub' = sub /\ started' # started)
    BY <1>6, <1>a DEF SaveRow
  <2>5. sub.next = sub'.next \/ Before(sub.next, sub'.next)
    BY <2>2, <2>3, BeforeOrder
  <2>6. Before(sub.next, today) \/ (sub.next = today /\ clock = 1)
    BY <2>1, <2>3, <2>5, BeforeOrder
  <2>7. Before(sub.next, edit.copy.next)
    BY <2>1, <2>2, <2>6 DEF Installing
  <2>8. sub' = edit.copy
    BY <2>1, <2>2, <2>4, <2>7 DEF Uncovered, Installing, Idle
  <2>9. Before(today, sub'.next)
    BY <2>1, <2>7, <2>8 DEF UnderWay
  <2>10. ~Before(sub'.next, today) /\ sub'.next # today
    BY <2>3, <2>9 DEF Before, Date
  <2> QED
    BY <2>1, <2>10
<1>7. CASE Delete \/ \E period \in {today, sub.next} : Generate(period)
  BY <1>7 DEF Delete, Generate, TypeOK, Sub, Installing
<1>8. CASE CronRun
  <2>1. ~sub.active
    BY <1>8 DEF CronRun, Installing, UnderWay
  <2> QED
    BY <1>8, <2>1 DEF Lapse, Inactive
<1>9. CASE CronGenerate
  <2>1. cron' = Idle /\ (cron.copy.next \in invoices \/ Fault)
    BY <1>9 DEF CronGenerate, TypeOK
  <2>2. cron.copy.next \in invoices \/ started' # started
    BY <2>1, <1>a
  <2> QED
    BY <1>9, <2>1, <2>2 DEF CronGenerate, Idle, Lapse, Unfinished
<1>10. CASE CronAdvance
  <2> DEFINE n == Advance(cron.copy.next, cron.copy.billingDay)
  <2>1. cron.copy.next = today /\ clock = 1 /\ today \in Date /\ cron.copy.billingDay \in Nat
    BY <1>10, BillingAssumption DEF CronAdvance, TypeOK, Sub, UnderWay
  <2>2. n \in Date /\ Before(today, n)
    BY <2>1, AdvanceType
  <2>3. ~Before(n, today) /\ n # today
    BY <2>1, <2>2 DEF Before, Date
  <2>4. sub'.next # n
    BY <1>10, <2>3 DEF CronAdvance
  <2>5. sub' = sub
    BY <1>10, <2>4 DEF CronAdvance, TypeOK, Sub
  <2>6. started' # started
    BY <1>10, <1>a, <2>4, <2>5 DEF CronAdvance, TypeOK, Sub
  <2> QED
    BY <1>10, <2>6 DEF CronAdvance, Idle, Lapse, Unfinished
<1>11. CASE Outage
  <2>1. CASE Installing
    BY <1>11, <1>a, <2>1 DEF Outage, Idle, Lapse, Uncovered
  <2>2. CASE ~Installing
    BY <1>11, <2>2 DEF Outage, Lapse, Down
  <2> QED
    BY <2>1, <2>2
<1>12. CASE Restart
  <2>1. started' # started
    BY <1>12, <1>a DEF Restart
  <2>2. cron.pc # "idle" \/ Installing
    BY <1>12 DEF Restart
  <2> QED
    BY <1>12, <2>1, <2>2 DEF Restart, Idle, Lapse, Unfinished, Uncovered
<1>13. CASE Tick
  <2>1. sub.next \in Date /\ today \in Date
    BY <1>13 DEF Tick, TypeOK, Sub
  <2>2. Before(sub.next, DayAfter(today))
    BY <1>13 DEF Tick
  <2>3. Before(sub.next, today) \/ sub.next = today
    BY <2>1, <2>2, DayAfterType
  <2> QED
    BY <1>13, <2>3 DEF Tick, Installing
<1> QED
  BY <1>1, <1>2, <1>3, <1>4, <1>5, <1>6, <1>7, <1>8, <1>9, <1>10, <1>11, <1>12, <1>13 DEF Next

-----------------------------------------------------------------------------
(* The next date leaves out no month but one it runs over. *)
LEMMA AdvanceCovers ==
  ASSUME NEW x \in Date, NEW b \in Nat, NEW m \in Nat, x.m < m, m < Advance(x, b).m
  PROVE  m = x.m + 1 /\ RunsOver(x)
<1>1. x.m \in Nat /\ x.d \in 1..31 /\ MonthLength(x.m + 1) \in 28..31
  BY MonthLengthType DEF Date
<1> QED
  BY <1>1 DEF Advance, AddMonth, RunsOver

(* The months the schedule has covered stay covered while it is the same      *)
(* schedule, and a schedule that begins has none to cover.                    *)
LEMMA CoverageStep ==
  ASSUME TypeOK, TypeOK', ScheduleNext, UnderWay, UnderWay', Coverage
  PROVE  Coverage'
<1> USE DEF Coverage, Covered
<1> DEFINE C(x) == CoveredFrom(since', x, skipped', invoices')
<1>a. since' = IF Begins THEN sub'.next ELSE since
  BY DEF ScheduleNext
<1>b. skipped \subseteq skipped'
  BY DEF ScheduleNext
<1>c. /\ NoDate \notin Date /\ today \in Date
      /\ sub.next \in Date \cup {NoDate} /\ sub'.next \in Date \cup {NoDate}
      /\ edit.copy.next \in Date \cup {NoDate} /\ cron.copy.next \in Date \cup {NoDate}
  BY NoSubType DEF TypeOK, Sub
<1>d. since' \in Date \cup {NoDate}
  BY <1>a, <1>c DEF Begins
<1>e. \A x \in Date \cup {NoDate} : x.m \in Nat
  BY DEF Date, NoDate
<1>f. ASSUME NEW x \in Date, x = since' PROVE C(x)
  BY <1>f, <1>e DEF CoveredFrom
<1>g. ASSUME NEW x \in Date \cup {NoDate}, Covered(x), since' = since, invoices \subseteq invoices'
      PROVE  C(x)
  BY <1>g, <1>b DEF CoveredFrom
<1>h. ASSUME NEW x \in Date, NEW b \in Nat, Covered(x), since' = since, invoices \subseteq invoices', x \in invoices',
             RunsOver(x) => x.m + 1 \in skipped'
      PROVE  C(Advance(x, b))
  <2> DEFINE n == Advance(x, b)
  <2>1. n \in Date /\ n.m \in Nat /\ x.m \in Nat /\ since.m \in Nat
    BY <1>e, AdvanceType
  <2>2. SUFFICES ASSUME NEW m \in since.m..n.m, m # n.m PROVE m \in skipped' \/ \E i \in invoices' : i.m = m
    BY <1>h DEF CoveredFrom
  <2>3. CASE m < x.m
    <3>1. m \in since.m..x.m /\ m # x.m
      BY <2>1, <2>3
    <3> QED
      BY <1>b, <1>h, <3>1 DEF CoveredFrom
  <2>4. CASE m = x.m
    BY <1>h, <2>4
  <2>5. CASE x.m < m
    <3>1. m \in Nat /\ m < Advance(x, b).m
      BY <2>1, <2>2
    <3>2. m = x.m + 1 /\ RunsOver(x)
      BY <2>5, <3>1, AdvanceCovers
    <3> QED
      BY <1>h, <3>2
  <2> QED
    BY <2>1, <2>3, <2>4, <2>5
<1>i. ASSUME NEW x, x \in Billed, RunsOver(x) PROVE x.m + 1 \in skipped'
  BY <1>i DEF ScheduleNext
<1>1. ASSUME NEW b \in BillingDays, CompleteInstall(b) PROVE Coverage'
  <2>1. sub'.next = today /\ edit'.copy.next = today /\ cron'.pc = "idle"
    BY <1>1 DEF CompleteInstall, Another
  <2>2. since' = today
    BY <1>1, <1>a, <1>c, <2>1 DEF Begins
  <2>3. C(today)
    BY <2>2, <1>c, <1>f DEF CompleteInstall
  <2> QED
    BY <1>1, <1>d, <2>1, <2>3 DEF CompleteInstall, Covered
<1>2. ASSUME NEW b \in BillingDays, Create(b) PROVE Coverage'
  BY <1>2, <1>d DEF Create, Another
<1>3. CASE /\ ~\E b \in BillingDays : CompleteInstall(b) \/ Create(b)
           /\ Next
  <2>1. invoices \subseteq invoices'
    BY <1>3 DEF Next, Update, FirstInvoice, SaveRow, Delete, UpdateStatus, Generate, CronRun, CronGenerate,
                CronAdvance, Outage, Restart, Tick
  <2>2. CASE \E active \in BOOLEAN : UpdateStatus(active)
    <3>1. UNCHANGED <<cron, edit, invoices, today>>
      BY <2>2 DEF UpdateStatus
    <3>2. CASE sub'.next = sub.next
      <4>1. since' = since
        BY <1>3, <1>a, <3>2 DEF Begins
      <4> QED
        BY <2>1, <3>1, <3>2, <4>1, <1>c, <1>d, <1>g DEF CoveredFrom
    <3>3. CASE sub.next = NoDate /\ sub'.next = today
      <4>1. since' = today
        BY <3>3, <1>a, <1>c DEF Begins
      <4>2. C(today)
        BY <4>1, <1>c, <1>f
      <4>3. edit.pc # "idle" => edit.copy.next = NoDate
        BY <3>3 DEF UnderWay
      <4>4. cron.pc # "idle" => cron.copy.next = today
        BY DEF UnderWay
      <4> QED
        BY <3>1, <3>3, <4>2, <4>3, <4>4, <1>d DEF CoveredFrom
    <3> QED
      BY <2>2, <3>2, <3>3 DEF UpdateStatus, TypeOK, Sub
  <2>3. CASE SaveRow
    <3>1. sub' = edit.copy \/ sub' = sub
      BY <2>3 DEF SaveRow
    <3>2. UNCHANGED <<cron, invoices, today>> /\ edit'.pc = "idle" /\ edit.pc # "idle"
      BY <2>3 DEF SaveRow, Idle
    <3>3. since' = since
      BY <1>3, <1>a, <3>1, <3>2 DEF Begins, UnderWay
    <3> QED
      BY <2>1, <3>1, <3>2, <3>3, <1>c, <1>d, <1>g DEF CoveredFrom
  <2>4. CASE CronAdvance
    <3> DEFINE x == cron.copy.next
               n == Advance(x, cron.copy.billingDay)
    <3>1. x \in Date /\ x = today /\ cron.copy.billingDay \in Nat /\ x \in invoices /\ invoices' = invoices
      BY <2>4, BillingAssumption DEF CronAdvance, TypeOK, Sub, UnderWay
    <3>2. UNCHANGED <<edit, invoices, today>> /\ cron'.pc = "idle"
      BY <2>4 DEF CronAdvance, Idle
    <3>3. sub' = sub \/ sub'.next = n
      BY <2>4 DEF CronAdvance, TypeOK, Sub
    <3>4. x \in Billed
      BY <2>4 DEF Billed
    <3>5. CASE sub' = sub
      <4>1. since' = since
        BY <1>3, <1>a, <3>5 DEF Begins
      <4> QED
        BY <2>1, <3>2, <3>5, <4>1, <1>c, <1>d, <1>g DEF CoveredFrom
    <3>6. CASE sub'.next = n /\ sub.next # NoDate
      <4>1. since' = since
        BY <1>3, <1>a, <3>6 DEF Begins
      <4>2. Covered(x)
        BY <2>4 DEF CronAdvance
      <4>3. C(n)
        BY <3>1, <3>4, <4>1, <4>2, <1>h, <1>i
      <4>4. edit.pc # "idle" /\ edit.copy.next # NoDate => C(edit.copy.next)
        BY <2>1, <4>1, <1>c, <1>g
      <4> QED
        BY <3>2, <3>6, <4>3, <4>4, <1>d DEF CoveredFrom
    <3>7. CASE sub'.next = n /\ sub.next = NoDate
      <4>1. n \in Date /\ n # NoDate
        BY <3>1, AdvanceType
      <4>2. since' = n
        BY <1>a, <3>7, <4>1 DEF Begins
      <4>3. C(n)
        BY <4>1, <4>2, <1>f
      <4> QED
        BY <3>2, <3>7, <4>3, <1>d DEF CoveredFrom, UnderWay
    <3> QED
      BY <3>3, <3>5, <3>6, <3>7
  <2>5. CASE FirstInvoice
    <3> DEFINE x == edit.copy.next
               n == Advance(x, edit.copy.billingDay)
    <3>1. UNCHANGED <<sub, cron, today>> /\ edit.pc = "invoice"
      BY <2>5 DEF FirstInvoice
    <3>2. since' = since
      BY <1>3, <1>a, <3>1 DEF Begins
    <3>3. /\ sub.next # NoDate => C(sub.next)
          /\ cron.pc # "idle" => C(cron.copy.next)
      BY <2>1, <3>2, <1>c, <1>g
    <3>4. CASE edit'.pc = "idle"
      BY <2>1, <3>1, <3>3, <3>4, <1>d DEF CoveredFrom
    <3>5. CASE edit'.pc # "idle"
      <4>1. edit'.pc = "save" /\ edit'.copy.next = n /\ x \in invoices'
        BY <2>5, <3>5 DEF FirstInvoice, Idle, TypeOK, Sub
      <4>2. x \in Date /\ edit.copy.billingDay \in Nat /\ x # NoDate
        BY <3>1, <1>c, BillingAssumption DEF TypeOK, Sub
      <4>3. x \in Billed
        BY <2>5, <3>1, <4>1 DEF Billed, CronAdvance
      <4>4. C(n)
        BY <2>1, <3>1, <3>2, <4>1, <4>2, <4>3, <1>h, <1>i
      <4> QED
        BY <2>1, <3>1, <3>3, <4>1, <4>4, <1>d DEF CoveredFrom
    <3> QED
      BY <3>4, <3>5
  <2>6. CASE \/ \E b \in BillingDays : Update(b)
             \/ Delete \/ \E period \in {today, sub.next} : Generate(period)
             \/ CronRun \/ CronGenerate \/ Outage \/ Restart \/ Tick
    <3>1. sub'.next = sub.next
      BY <2>6 DEF Update, Delete, Generate, CronRun, CronGenerate, Outage, Restart, Tick, TypeOK, Sub
    <3>2. since' = since
      BY <1>3, <1>a, <3>1 DEF Begins
    <3>3. edit'.pc = "idle" \/ edit' = edit \/ (edit'.copy.next = sub.next)
      BY <2>6 DEF Update, Delete, Generate, CronRun, CronGenerate, Outage, Restart, Tick, TypeOK, Sub, Idle
    <3>4. \/ cron'.pc = "idle" \/ cron' = cron
          \/ cron'.pc = "generate" /\ cron'.copy.next = sub.next /\ sub.next # NoDate
          \/ cron'.pc = "advance" /\ cron'.copy.next = cron.copy.next /\ cron.pc # "idle" /\ cron.copy.next \in invoices'
      BY <2>6, <1>c DEF Update, Delete, Generate, CronRun, CronGenerate, Outage, Restart, Tick, TypeOK, Idle
    <3>5. /\ sub.next # NoDate => C(sub.next)
          /\ cron.pc # "idle" => C(cron.copy.next)
          /\ edit.pc # "idle" /\ edit.copy.next # NoDate => C(edit.copy.next)
      BY <2>1, <3>2, <1>c, <1>g
    <3>6. sub'.next # NoDate => C(sub'.next)
      BY <3>1, <3>5
    <3>7. cron'.pc # "idle" => C(cron'.copy.next)
      BY <3>4, <3>5
    <3>8. cron'.pc = "advance" => cron'.copy.next \in invoices'
      BY <2>1, <3>4
    <3>9. edit'.pc # "idle" /\ edit'.copy.next # NoDate => C(edit'.copy.next)
      BY <3>3, <3>5
    <3> QED
      BY <3>6, <3>7, <3>8, <3>9, <1>d DEF CoveredFrom
  <2> QED
    BY <1>3, <2>2, <2>3, <2>4, <2>5, <2>6 DEF Next
<1> QED
  BY <1>1, <1>2, <1>3 DEF ScheduleNext

\* Every step keeps ScheduleInv.
LEMMA ScheduleInvStep == TypeOK /\ TypeOK' /\ ScheduleInv /\ [ScheduleNext]_scheduleVars => ScheduleInv'
<1> SUFFICES ASSUME TypeOK, TypeOK', ScheduleInv, [ScheduleNext]_scheduleVars PROVE ScheduleInv'
  OBVIOUS
<1>1. CASE UNCHANGED scheduleVars
  BY <1>1 DEF scheduleVars, ScheduleInv, Behind, Installing, UnderWay, Coverage, Covered, CoveredFrom
<1>2. CASE ScheduleNext
  <2>1. Next /\ UnderWay /\ Coverage
    BY <1>2 DEF ScheduleNext, ScheduleInv
  <2>2. UnderWay'
    BY <2>1, UnderWayStep
  <2>3. Coverage'
    BY <1>2, <2>1, <2>2, CoverageStep
  <2>4. Behind' => lapsed \/ Lapse
    BY <2>1, OnlyLapses DEF ScheduleInv
  <2>5. Behind' => lapsed'
    BY <1>2, <2>4 DEF ScheduleNext
  <2> QED
    BY <2>2, <2>3, <2>5 DEF ScheduleInv
<1> QED
  BY <1>1, <1>2

\* Nothing is scheduled at first.
LEMMA ScheduleInvInit == ScheduleInit => ScheduleInv
  BY DEF ScheduleInit, Init, ScheduleInv, Behind, UnderWay, Coverage, NoSub, Idle

(* The state of the billing schedule keeps its types: the dates it computes   *)
(* are days that their month has (Advance, the clamped billing day).          *)
THEOREM ScheduleType == ScheduleSpec => []TypeOK
<1>1. ScheduleInit => TypeOK
  BY BillingInitType DEF ScheduleInit
<1>2. TypeOK /\ [ScheduleNext]_scheduleVars => TypeOK'
  BY BillingNextType DEF ScheduleNext, scheduleVars, vars
<1> QED
  BY <1>1, <1>2, PTL DEF ScheduleSpec

(* No subscription that is active falls behind the billing schedule but for   *)
(* one of the named causes, on any calendar (BillingCronJob.Run,              *)
(* CompleteInstall, UpdateStatus).                                            *)
THEOREM LapseIsExplained == ScheduleSpec => []LapseExplained
<1>1. ScheduleInv => LapseExplained
  BY DEF ScheduleInv, LapseExplained
<1> QED
  BY <1>1, ScheduleInvInit, ScheduleInvStep, ScheduleType, PTL DEF ScheduleSpec

(* The schedule of a subscription moves over a month only with an invoice or  *)
(* where the month lacks the day, on any calendar (BillingCronJob.Run,        *)
(* CompleteInstall, Update).                                                  *)
THEOREM MonthsBilled == ScheduleSpec => []MonthsAreBilled
<1>1. ScheduleInv => MonthsAreBilled
  BY DEF ScheduleInv, Coverage, MonthsAreBilled
<1> QED
  BY <1>1, ScheduleInvInit, ScheduleInvStep, ScheduleType, PTL DEF ScheduleSpec
=============================================================================
