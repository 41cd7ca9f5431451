------------------------------- MODULE Tables -------------------------------
(***************************************************************************)
(* The tables of the web client (TanStack Table, components/data-table and *)
(* the tables of src/web/src/features).  A behaviour is about one table:   *)
(* its rows are fetched again and again, with rows added, gone or in       *)
(* another order, while the user filters, pages, goes back and forth in    *)
(* the browser's history, ticks rows and acts on the ticked ones.  No      *)
(* table passes getRowId: a tick belongs to a place in the data.  The      *)
(* confirmations are in Dialogs.                                           *)
(***************************************************************************)
EXTENDS Naturals, Sequences, FiniteSets

CONSTANTS
  AllTables,        \* the tables, as Ui's Table describes them
  Records,          \* records of the server
  Matching,         \* the records that pass the filter, when it is on
  PageSize,
  MaxHistory        \* bound on the addresses of the table in the history

ASSUME TablesAssumption ==
  /\ IsFiniteSet(Records) /\ Records # {}
  /\ Matching \subseteq Records
  /\ PageSize \in Nat \ {0}
  /\ MaxHistory \in Nat \ {0}

VARIABLES
  table,            \* the table; it never changes
  data,             \* the rows as fetched last
  ticks,            \* rowSelection: places in the data
  chosen,           \* the records the user ticked and did not act upon yet
  moved,            \* another record has come to a ticked place
  filter,           \* whether the filter is on
  page,
  history, at,      \* the table's addresses in the history, and the one shown
  calls             \* bulk deletes that are not answered

vars == <<table, data, ticks, chosen, moved, filter, page, history, at, calls>>
selection == <<ticks, chosen, moved>>
address == <<history, at>>

Lists == {s \in UNION {[1..n -> Records] : n \in 0..Cardinality(Records)} :
            \A i, j \in DOMAIN s : s[i] = s[j] => i = j}
Address == [page : Nat \ {0}, filter : BOOLEAN]
Home == [page |-> 1, filter |-> FALSE]

TypeOK ==
  /\ table \in AllTables
  /\ data \in Lists
  /\ ticks \subseteq 1..Cardinality(Records)
  /\ chosen \subseteq Records
  /\ moved \in BOOLEAN
  /\ filter \in BOOLEAN
  /\ page \in 1..Cardinality(Records)
  /\ history \in Seq(Address) /\ Len(history) <= MaxHistory
  /\ at \in 1..Len(history)
  /\ calls \in Nat

Init ==
  /\ table \in AllTables
  /\ data \in Lists
  /\ ticks = {}
  /\ chosen = {}
  /\ moved = FALSE
  /\ filter = FALSE
  /\ page = 1
  /\ history = <<Home>>
  /\ at = 1
  /\ calls = 0

-----------------------------------------------------------------------------
Passes(record, on) == on => record \in Matching

(* getFilteredRowModel, as places in the data; and its pages. *)
Filtered(rows, on) == {i \in DOMAIN rows : Passes(rows[i], on)}
Rank(rows, on, i) == Cardinality({j \in Filtered(rows, on) : j <= i})
PageOf(rows, on, i) == (Rank(rows, on, i) - 1) \div PageSize + 1
PageCount(rows, on) == (Cardinality(Filtered(rows, on)) + PageSize - 1) \div PageSize

Visible(rows, on, p) ==
  {i \in Filtered(rows, on) : table.paging = "one" \/ PageOf(rows, on, i) = p}

OnPage(i) == i \in Visible(data, filter, page)

(* getFilteredSelectedRowModel. *)
Selected == {data[i] : i \in ticks \cap Filtered(data, filter)}

(* navigate, which drops the entries ahead of the new one, and adds none for *)
(* the address on display.                                                   *)
Navigate(to) ==
  IF to = history[at] THEN UNCHANGED address
  ELSE history' = Append(SubSeq(history, 1, at), to) /\ at' = at + 1
CanNavigate == table.paging = "url" => at < MaxHistory

(* The table shows page p of what passes the filter, at the address `to`. *)
GoTo(p, on, to) ==
  /\ page' = p
  /\ filter' = on
  /\ IF table.paging = "url" THEN Navigate(to) ELSE UNCHANGED address

(* A faulty form: the index of the first page instead of its number. *)
ResetPageIndex == IF table.paging \in {"local", "url"} THEN 0 ELSE page

(* A change of the rows brings the table back to page one                    *)
(* (autoResetPageIndex); the server's pages stay where they are.             *)
ResetPage == IF table.paging \in {"local", "url"} THEN 1 ELSE page

-----------------------------------------------------------------------------
(* New rows. *)
Refetch(rows) ==
  /\ rows # data
  /\ CanNavigate
  /\ data' = rows
  /\ moved' = (moved \/ \E i \in ticks \cap DOMAIN rows : i \notin DOMAIN data \/ rows[i] # data[i])
  /\ GoTo(ResetPage, filter, [history[at] EXCEPT !.page = 1])
  /\ UNCHANGED <<table, ticks, chosen, calls>>

(* The filter is set or cleared; sales/index.tsx goes back to page 1 itself. *)
SetFilter(on) ==
  /\ table.filters # {}
  /\ on # filter
  /\ CanNavigate
  /\ GoTo(1, on, [page |-> 1, filter |-> on])
  /\ UNCHANGED <<table, data, selection, calls>>

(* A page of the table.  The search parameters it leaves alone are those of  *)
(* the address, whatever the filter is.                                      *)
TurnPage(p) ==
  /\ table.paging # "one"
  /\ p \in 1..PageCount(data, filter)
  /\ CanNavigate
  /\ GoTo(p, filter, [history[at] EXCEPT !.page = p])
  /\ UNCHANGED <<table, data, selection, calls>>

(* A faulty form: the effect is missing. *)
AnyPage(p, on) == p

(* ensurePageInRange, an effect of the next render. *)
InRange(p, on) ==
  LET count == PageCount(data, on)
  IN IF table.inRange /\ count > 0 /\ p > count THEN 1 ELSE p

(* The table shows entry k of the history, of which the effect may replace   *)
(* the page.                                                                 *)
Arrive(k, on) ==
  /\ at' = k
  /\ page' = InRange(history[k].page, on)
  /\ history' = [history EXCEPT ![k] = [history[k] EXCEPT !.page = InRange(history[k].page, on)]]

(* The browser's Back and Forward.  The page follows the address; the        *)
(* filters were read from it once, when the table was mounted.               *)
Back ==
  /\ table.paging = "url"
  /\ at > 1
  /\ Arrive(at - 1, filter)
  /\ UNCHANGED <<table, data, selection, filter, calls>>

Forward ==
  /\ table.paging = "url"
  /\ at < Len(history)
  /\ Arrive(at + 1, filter)
  /\ UNCHANGED <<table, data, selection, filter, calls>>

(* The sidebar's link to the page on display, which has no search: page one, *)
(* and the filter stays on although the address has none.                    *)
SameLink ==
  /\ table.paging = "url"
  /\ CanNavigate
  /\ GoTo(1, filter, Home)
  /\ UNCHANGED <<table, data, selection, calls>>

(* resetRowSelection. *)
ClearTicks == ticks' = {} /\ chosen' = {} /\ moved' = FALSE

(* The user leaves the page and comes back to the address: the table is      *)
(* mounted anew, reads the filter there, and has no ticks.                   *)
Remount ==
  /\ filter' = (table.paging = "url" /\ history[at].filter)
  /\ IF table.paging = "url" THEN Arrive(at, history[at].filter)
                             ELSE page' = 1 /\ UNCHANGED address
  /\ ClearTicks
  /\ calls' = 0
  /\ UNCHANGED <<table, data>>

-----------------------------------------------------------------------------
HasTicks == table.bulk # "no"

(* A faulty form: a row is known by its place among the filtered rows. *)
TickByRank(i) ==
  /\ HasTicks
  /\ OnPage(i)
  /\ i \notin ticks
  /\ ticks' = ticks \cup {Rank(data, filter, i)}
  /\ chosen' = chosen \cup {data[i]}
  /\ UNCHANGED <<table, data, moved, filter, page, address, calls>>

Tick(i) ==
  /\ HasTicks
  /\ OnPage(i)
  /\ i \notin ticks
  /\ ticks' = ticks \cup {i}
  /\ chosen' = chosen \cup {data[i]}
  /\ UNCHANGED <<table, data, moved, filter, page, address, calls>>

Untick(i) ==
  /\ i \in ticks
  /\ OnPage(i)
  /\ ticks' = ticks \ {i}
  /\ chosen' = chosen \ {data[i]}
  /\ UNCHANGED <<table, data, moved, filter, page, address, calls>>

(* handleClearSelection, the X of the toolbar or Escape. *)
ClearSelection ==
  /\ HasTicks
  /\ Selected # {}
  /\ ClearTicks
  /\ UNCHANGED <<table, data, filter, page, address, calls>>

(* The bulk button of a table that takes the rows at once.  It clears the    *)
(* ticks or keeps them.                                                      *)
BulkClick ==
  /\ table.bulk = "click"
  /\ Selected # {}
  /\ IF table.clears THEN ClearTicks ELSE chosen' = {} /\ UNCHANGED <<ticks, moved>>
  /\ UNCHANGED <<table, data, filter, page, address, calls>>

(* Bound: bulk deletes in flight. *)
MaxCalls == 1

(* The confirmation of a bulk delete that reads the ticked rows itself. *)
BulkConfirm ==
  /\ table.bulk = "confirm"
  /\ Selected # {}
  /\ calls < MaxCalls
  /\ calls' = calls + 1
  /\ UNCHANGED <<table, data, selection, filter, page, address>>

(* await mutateAsync(ids); table.resetRowSelection() -- not after a failure. *)
BulkAnswer(ok) ==
  /\ calls > 0
  /\ calls' = calls - 1
  /\ IF ok THEN ClearTicks ELSE UNCHANGED selection
  /\ UNCHANGED <<table, data, filter, page, address>>

Next ==
  \/ \E rows \in Lists : Refetch(rows)
  \/ \E on \in BOOLEAN : SetFilter(on)
  \/ \E p \in 1..Cardinality(Records) : TurnPage(p)
  \/ Back
  \/ Forward
  \/ SameLink
  \/ Remount
  \/ \E i \in 1..Cardinality(Records) : Tick(i) \/ Untick(i)
  \/ ClearSelection
  \/ BulkClick
  \/ BulkConfirm
  \/ \E ok \in BOOLEAN : BulkAnswer(ok)

Spec == Init /\ [][Next]_vars
=============================================================================
