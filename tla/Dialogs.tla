------------------------------ MODULE Dialogs -------------------------------
(***************************************************************************)
(* The dialogs of the web client (src/web/src/features/*/dialogs and       *)
(* components).  A behaviour is about one dialog, opened again and again   *)
(* for records of its page, and about any other dialog of the same host:   *)
(* the user opens, dismisses and confirms, polls move the rows, and the    *)
(* answers of the requests come later, in any order, as a success or as a  *)
(* failure.                                                                *)
(***************************************************************************)
EXTENDS Naturals, FiniteSets

CONSTANTS
  AllDialogs,       \* the dialogs, as Ui's Dialog describes them
  Rows,             \* records on the page
  Places,           \* rows of the table, by their number
  MaxOpens,         \* bounds on the openings,
  MaxSends,         \* the confirmations
  MaxPolls          \* and the polls that move rows, of a behaviour

ASSUME DialogsAssumption ==
  "page" \notin Places /\ {MaxOpens, MaxSends, MaxPolls} \subseteq Nat

VARIABLES
  dialog,           \* the dialog; it never changes
  current,          \* what the host has open: number of the opening, this dialog or another
                    \* one of the host, the records it was opened for (none: a new one), where
                    \* its switch is, whether a clearing was due when it was opened, and
                    \* whether a poll has moved the rows under it since
  opened,           \* openings so far
  target,           \* the records the host holds for its dialogs
  timers,           \* clearings of the record that are due (providers)
  life,             \* which instance of the dialog's component is mounted at each place
  calls,            \* requests in flight: the confirmation, opening, records, place and instance
                    \* they are from, the records the user meant, whether the rows had moved,
                    \* and whether the request was the last of its confirmation
  sent,             \* confirmations so far
  polls

vars == <<dialog, current, opened, target, timers, life, calls, sent, polls>>

Sites == Places \cup {"page"}
Shut == [no |-> 0, this |-> FALSE, rows |-> {}, place |-> "page", early |-> FALSE,
         moved |-> FALSE]
Opened == [no : 1..MaxOpens, this : BOOLEAN, rows : SUBSET Rows, place : Sites,
           early : BOOLEAN, moved : BOOLEAN]
Call == [no : 1..MaxSends, by : 1..MaxOpens, rows : SUBSET Rows, place : Sites, life : Nat,
         meant : SUBSET Rows, moved : BOOLEAN, last : BOOLEAN]

TypeOK ==
  /\ dialog \in AllDialogs
  /\ opened \in 0..MaxOpens
  /\ current \in {Shut} \cup Opened
  /\ target \in SUBSET Rows
  /\ timers \in Nat
  /\ life \in [Sites -> Nat]
  /\ calls \subseteq Call
  /\ sent \in 0..MaxSends
  /\ polls \in 0..MaxPolls

Init ==
  /\ dialog \in AllDialogs
  /\ current = Shut
  /\ opened = 0
  /\ target = {}
  /\ timers = 0
  /\ life = [s \in Sites |-> 0]
  /\ calls = {}
  /\ sent = 0
  /\ polls = 0

-----------------------------------------------------------------------------
InRows == dialog.host.kind = "row"

(* The component that sends is there. *)
Mounted ==
  CASE dialog.mounted = "always" -> TRUE
    [] dialog.mounted = "open" -> current.this
    [] dialog.mounted = "row" -> target # {}

(* A request sent by the instance that is there now, to which the callbacks  *)
(* of mutate are delivered.                                                  *)
SameInstance(c) ==
  /\ Mounted
  /\ c.life = life[c.place]
  /\ InRows => c.place = current.place

(* isPending follows the request the hook has sent last.  A hook of the tab  *)
(* is shared by the rows.                                                    *)
Pending == \E c \in calls : c.last /\ (dialog.guard = "tab" \/ SameInstance(c))

(* What a dialog can be opened for: nothing yet, one record, the ticked ones. *)
OpenedFor(d) ==
  {rows \in SUBSET Rows :
     \/ rows = {} /\ "new" \in d.for
     \/ Cardinality(rows) = 1 /\ "one" \in d.for
     \/ rows # {} /\ "many" \in d.for}

(* Another dialog can share the switch: every host but one kept in a row. *)
Others(rows) ==
  \E d \in AllDialogs \ {dialog} : d.host = dialog.host /\ rows \in OpenedFor(d)

(* A faulty form: a record that is there is not replaced. *)
TakenFirst(rows) == IF target = {} THEN rows ELSE target

(* setOpen('add') of a provider leaves the record as it is. *)
Taken(rows) == IF dialog.host.kind = "provider" /\ rows = {} THEN target ELSE rows

(* Nothing else can be clicked while a dialog is open.  Opening mounts the   *)
(* components that live while their dialog is open, or while there is a      *)
(* record.                                                                   *)
Open(this, rows, place) ==
  /\ current = Shut
  /\ opened < MaxOpens
  /\ IF this THEN rows \in OpenedFor(dialog) ELSE Others(rows)
  /\ InRows <=> place # "page"
  /\ opened' = opened + 1
  /\ current' = [no |-> opened + 1, this |-> this, rows |-> rows, place |-> place,
                 early |-> timers > 0, moved |-> FALSE]
  /\ target' = Taken(rows)
  /\ life' = IF \/ dialog.mounted = "open" /\ this
                \/ dialog.mounted = "row" /\ target = {}
               THEN [life EXCEPT ![place] = @ + 1] ELSE life
  /\ UNCHANGED <<dialog, timers, calls, sent, polls>>

(* A faulty form: every host clears the record by a timer. *)
CloseHostTimed ==
  /\ current' = Shut
  /\ timers' = timers + 1
  /\ UNCHANGED target

(* close() of a store, setOpen(null) and the timer of a provider, or a       *)
(* boolean of the page or of the row.                                        *)
CloseHost ==
  /\ current' = Shut
  /\ IF dialog.host.kind = "provider"
       THEN timers' = timers + 1 /\ UNCHANGED target
       ELSE target' = {} /\ UNCHANGED timers

(* Escape, the overlay or the cancel button. *)
Dismiss ==
  /\ current # Shut
  /\ ~(current.this /\ dialog.held /\ Pending)
  /\ CloseHost
  /\ UNCHANGED <<dialog, opened, life, calls, sent, polls>>

(* A faulty form: the record is cleared without a timer. *)
ClearRowAnyTime ==
  /\ opened > 0
  /\ timers' = timers - 1
  /\ target' = {}
  /\ UNCHANGED <<dialog, current, opened, life, calls, sent, polls>>

(* setTimeout(() => setCurrentRow(null), 500).  A form whose key is the      *)
(* record is mounted anew.                                                   *)
ClearRow ==
  /\ timers > 0
  /\ timers' = timers - 1
  /\ target' = {}
  /\ life' = IF dialog.mounted = "open" /\ current.this /\ target # {}
               THEN [life EXCEPT !["page"] = @ + 1] ELSE life
  /\ UNCHANGED <<dialog, current, opened, calls, sent, polls>>

-----------------------------------------------------------------------------
(* A poll brings the rows in another order, or fewer of them.  A dialog in a *)
(* row and the ticks of a table keep their places, which now hold other      *)
(* records.                                                                  *)
RowsMove(rows) ==
  /\ dialog.host.kind \in {"row", "ticks"}
  /\ current.this
  /\ polls < MaxPolls
  /\ polls' = polls + 1
  /\ rows # target
  /\ Cardinality(rows) <= Cardinality(current.rows)
  /\ InRows => rows # {}
  /\ target' = rows
  /\ current' = [current EXCEPT !.moved = TRUE]
  /\ UNCHANGED <<dialog, opened, timers, life, calls, sent>>

(* The table is shorter now: the row is gone, and its dialog with it. *)
RowVanishes(place) ==
  /\ InRows
  /\ polls < MaxPolls
  /\ polls' = polls + 1
  /\ life' = [life EXCEPT ![place] = @ + 1]
  /\ IF current.place = place
       THEN current' = Shut /\ target' = {}
       ELSE UNCHANGED <<current, target>>
  /\ UNCHANGED <<dialog, opened, timers, calls, sent>>

-----------------------------------------------------------------------------
(* The requests of a confirmation: a new record, one request for each of the *)
(* records (of which one is the last), or one for all of them.               *)
Request(rows, last) ==
  [no |-> sent + 1, by |-> current.no, rows |-> rows, place |-> current.place,
   life |-> life[current.place], meant |-> current.rows, moved |-> current.moved, last |-> last]

Requests(final) ==
  IF dialog.how = "fanout" THEN {Request({r}, r = final) : r \in target}
  ELSE {Request(IF current.rows = {} THEN {} ELSE target, TRUE)}

(* A faulty form: the button stays enabled. *)
EnabledAlways == TRUE

Enabled == dialog.guard = "none" \/ ~Pending

(* The confirm or submit button.  Without its record the handler returns at  *)
(* once.                                                                     *)
Confirm(final) ==
  /\ current.this /\ Mounted
  /\ current.rows = {} \/ target # {}
  /\ dialog.how = "fanout" => final \in target
  /\ Enabled
  /\ sent < MaxSends
  /\ sent' = sent + 1
  /\ calls' = calls \cup Requests(final)
  /\ IF dialog.atClick \/ dialog.closes = "before"
       THEN CloseHost
       ELSE UNCHANGED <<current, target, timers>>
  /\ UNCHANGED <<dialog, opened, life, polls>>

(* A faulty form: the callback runs although its component is gone. *)
HandledAlways(c) == TRUE

(* What runs when the answer is there: the code after an await in any case,  *)
(* a callback of mutate when its instance is still mounted.                  *)
Handled(c) == dialog.how # "callback" \/ SameInstance(c)

(* allSettled waits for the other requests of the confirmation. *)
Settled(c) == \A d \in calls \ {c} : d.no # c.no

Wanted(ok) == dialog.closes = "settled" \/ (dialog.closes = "success" /\ ok)

(* A switch kept in the row belongs to that row's dialog alone. *)
Reaches(c) == InRows => current.place \in {c.place, "page"} /\ c.life = life[c.place]

Answer(c, ok) ==
  /\ calls' = calls \ {c}
  /\ IF Handled(c) /\ Settled(c) /\ Wanted(ok) /\ Reaches(c)
       THEN CloseHost
       ELSE UNCHANGED <<current, target, timers>>
  /\ UNCHANGED <<dialog, opened, life, sent, polls>>

Next ==
  \/ \E this \in BOOLEAN, rows \in SUBSET Rows, place \in Sites : Open(this, rows, place)
  \/ Dismiss
  \/ ClearRow
  \/ \E rows \in SUBSET Rows : RowsMove(rows)
  \/ \E place \in Places : RowVanishes(place)
  \/ \E final \in Rows : Confirm(final)
  \/ \E c \in calls, ok \in BOOLEAN : Answer(c, ok)

Spec == Init /\ [][Next]_vars
=============================================================================
