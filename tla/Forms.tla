------------------------------- MODULE Forms --------------------------------
(***************************************************************************)
(* The forms of the web client that edit a record, from the row they are   *)
(* opened on, through the endpoint, to the record after the save.  A       *)
(* behaviour is about one field of one form; the other fields are `rest`,  *)
(* where they travel in requests of their own.  Meanwhile other users edit *)
(* the record and the client fetches it again.                             *)
(***************************************************************************)
EXTENDS Naturals, FiniteSets

CONSTANTS
  AllForms,                \* the forms, as Ui's Form describes them
  Filled,                  \* values of a field that are neither empty nor junk
  Preset,                  \* the one of them the form falls back to
  Blank, Junk,             \* empty, text that is no positive number
  Zero                     \* the number zero, a switch that is off

ASSUME FormsAssumption ==
  /\ Blank # Junk /\ Blank # Zero /\ Junk # Zero
  /\ Filled \cap {Blank, Junk, Zero} = {}
  /\ Preset \in Filled

Value == Filled \cup {Blank, Junk, Zero}

VARIABLES
  form, field,             \* the form and the field; they never change
  last,                    \* whether the field's request is the last one sent
  record,                  \* the field on the server
  cached,                  \* the field as the client fetched it last
  opened,                  \* the form is on display
  target,                  \* ... and holds the row it was opened on
  due,                     \* a timer is set that clears the current row
  base,                    \* the value the form compares with
  shown, typed,            \* what the input shows, and whether the user put it there
  mine,                    \* the request that carries the field
  rest,                    \* the requests of the other fields, if they are others
  told                     \* the success message of the last save has been shown

subject == <<form, field, last>>
input == <<base, shown, typed>>
formVars == <<form, field, last, record, cached, opened, target, due, base, shown, typed,
              mine, rest, told>>

(* The rule of a part of the form that governs the field. *)
Under(part, rule, x) == rule \in DOMAIN part /\ x \in part[rule]
Fields(f) == UNION {f.payload[r] : r \in DOMAIN f.payload}
Row == Under(form.defaults, "row", field)

(* at: the request is under way until it is "ok" or has "failed"; the        *)
(* endpoint has "read" the row, has "applied" it; want, typed, base: the     *)
(* input when it was sent; left: the record as the endpoint left it; closed: *)
(* the component that sent it is gone.                                       *)
Idle == [at |-> "idle", sends |-> {}, want |-> Blank, typed |-> FALSE, base |-> Blank,
         row |-> Blank, left |-> Blank, closed |-> FALSE]

(* A request has at most one value for the field. *)
FormTypeOK ==
  /\ form \in AllForms
  /\ field \in Fields(form)
  /\ last \in BOOLEAN
  /\ opened \in BOOLEAN
  /\ target \in BOOLEAN
  /\ due \in BOOLEAN
  /\ typed \in BOOLEAN
  /\ told \in BOOLEAN
  /\ {record, cached, base, shown} \subseteq Value
  /\ mine \in [at : {"idle", "sent", "read", "applied", "ok", "failed"}, sends : SUBSET Value,
               want : Value, typed : BOOLEAN, base : Value, row : Value, left : Value,
               closed : BOOLEAN]
  /\ \A v, w \in mine.sends : v = w
  /\ rest \in {"idle", "sent", "ok", "failed"}

-----------------------------------------------------------------------------
(* What the record can hold, whoever writes it. *)
Storable(f, x) ==
  IF Under(f.inputs, "required", x) \/ Under(f.inputs, "locked", x) THEN Filled
  ELSE IF Under(f.inputs, "number", x) THEN Filled \cup {Zero}
  ELSE IF Under(f.inputs, "derived", x) \/ Under(f.defaults, "orZero", x)
    THEN Filled \cup {Blank, Zero}
  ELSE IF Under(f.inputs, "switch", x) THEN Filled \cup {Zero}
  ELSE Filled \cup {Blank}

(* What the input may show of a row whose value is c. *)
Starts(f, x, c) ==
  CASE Under(f.defaults, "row", x) -> {c}
    [] Under(f.defaults, "blank", x) -> {Blank}
    [] Under(f.defaults, "constant", x) -> {Preset}
    [] Under(f.defaults, "off", x) -> {Zero}
    [] Under(f.defaults, "orPreset", x) -> {IF c \in {Blank, Zero} THEN Preset ELSE c}
    [] Under(f.defaults, "orZero", x) -> {IF c = Blank THEN Zero ELSE c}
    [] Under(f.defaults, "noZero", x) -> {IF c = Zero THEN Blank ELSE c}
    [] Under(f.defaults, "copied", x) -> Filled \cup {Zero}
    [] OTHER -> {Blank}

Typable(f, x) ==
  IF Under(f.inputs, "choice", x) THEN Filled
  ELSE IF Under(f.inputs, "switch", x) THEN Filled \cup {Zero}
  ELSE IF Under(f.inputs, "number", x) THEN Value
  ELSE IF Under(f.inputs, "free", x) \/ Under(f.inputs, "required", x) THEN Filled \cup {Blank}
  ELSE {}

(* A faulty form: an object with the old and the new value. *)
PayloadWithOld(f, x, v, b) == {v, b}

(* A faulty form: every field is sent as it is shown. *)
PayloadAlways(f, x, v, b) == {v}

(* What the submit handler puts into the request for an input that shows v,  *)
(* on a row with b.                                                          *)
Payload(f, x, v, b) ==
  CASE Under(f.payload, "always", x) -> {v}
    [] Under(f.payload, "filled", x) -> {v} \ {Blank}
    [] Under(f.payload, "number", x) -> {IF v \in {Blank, Junk} THEN Zero ELSE v}
    [] Under(f.payload, "preset", x) -> {IF v \in {Blank, Junk, Zero} THEN Preset ELSE v}
    [] Under(f.payload, "changed", x) -> {v} \ {b}
    [] Under(f.payload, "edited", x) -> {v} \ {b, Blank}
    [] Under(f.payload, "wiped", x) -> {Blank}
    [] OTHER -> {}

(* What the endpoint leaves in the record, which is `now`, of a request that *)
(* carries `sends`, when it has read `row`.                                  *)
Stored(f, x, sends, row, now) ==
  LET kept == \/ sends = {}
              \/ Under(f.stores, "dropped", x)
              \/ Under(f.stores, "nonempty", x) /\ sends = {Blank}
      new == IF ~kept THEN sends ELSE IF f.writes = "row" THEN {row} ELSE {now}
  IN IF Under(f.stores, "nonzero", x) /\ new \subseteq {Blank, Zero} THEN {now} ELSE new

Refused(f, x, sends) == ~f.bound \/ (Under(f.stores, "refused", x) /\ sends = {Blank})

-----------------------------------------------------------------------------
FormInit ==
  /\ form \in AllForms
  /\ field \in Fields(form)
  /\ last \in IF form.saves = "each" THEN BOOLEAN ELSE {TRUE}
  /\ record \in Storable(form, field)
  /\ cached = record
  /\ base = Blank
  /\ shown = Blank
  /\ mine = Idle
  /\ rest = "idle"
  /\ opened = FALSE
  /\ target = FALSE
  /\ due = FALSE
  /\ typed = FALSE
  /\ told = FALSE

(* The drawer or the page is opened; the form starts from the row at hand. *)
Open ==
  /\ ~opened
  /\ opened' = TRUE
  /\ target' = TRUE
  /\ base' = cached
  /\ shown' \in Starts(form, field, cached)
  /\ typed' = FALSE
  /\ UNCHANGED <<subject, record, cached, due, mine, rest, told>>

(* The user dismisses the form or leaves the page, or submits a form without *)
(* a change, which closes it: the component goes, and with it the callbacks  *)
(* of the request under way.                                                 *)
Close ==
  /\ opened
  /\ opened' = FALSE
  /\ target' = FALSE
  /\ due' = (due \/ form.timed)
  /\ base' = Blank
  /\ shown' = Blank
  /\ typed' = FALSE
  /\ mine' = [mine EXCEPT !.closed = TRUE]
  /\ UNCHANGED <<subject, record, cached, rest, told>>

(* The timer of a drawer that was closed.  One that is open again gets       *)
(* another key: it is mounted anew, with empty inputs and no row to save.    *)
ClearRow ==
  /\ due
  /\ due' = FALSE
  /\ IF opened THEN /\ target' = FALSE
                    /\ shown' = Blank
                    /\ typed' = FALSE
                    /\ mine' = [mine EXCEPT !.closed = TRUE]
     ELSE UNCHANGED <<target, shown, typed, mine>>
  /\ UNCHANGED <<subject, record, cached, opened, base, rest, told>>

(* Bound: one save at a time.  A request that a form left behind when it was *)
(* closed writes its fields like another user (OthersWrite).                 *)
Saving == mine.at \in {"sent", "read", "applied"} \/ rest = "sent"

Type(v) ==
  /\ opened
  /\ v \in Typable(form, field)
  /\ field \in form.frozen => mine.closed \/ ~Saving
  /\ shown' = v
  /\ typed' = TRUE
  /\ UNCHANGED <<subject, record, cached, opened, target, due, base, mine, rest, told>>

(* The user changes another input, and a handler sets this one. *)
Derive(v) ==
  /\ opened
  /\ Under(form.inputs, "derived", field)
  /\ v \in Filled \cup {Zero}
  /\ shown' = v
  /\ UNCHANGED <<subject, record, cached, opened, target, due, base, typed, mine, rest, told>>

(* Another user, or another page, edits the record. *)
OthersWrite(v) ==
  /\ v \in Storable(form, field)
  /\ record' = v
  /\ UNCHANGED <<subject, cached, opened, target, due, input, mine, rest, told>>

(* The record arrives again, with this field or another one changed, and a   *)
(* form that follows it is reset as far as it does (useEffect).              *)
Refetched ==
  LET resets == \/ form.follows = "data"
                \/ form.follows = "rows" /\ Row /\ record # base
                \/ form.follows = "untouched" /\ ~typed
  IN /\ cached' = record
     /\ base' = IF opened /\ form.follows # "never" THEN record ELSE base
     /\ IF opened /\ resets
          THEN shown' \in Starts(form, field, record) /\ typed' = FALSE
          ELSE UNCHANGED <<shown, typed>>
     /\ UNCHANGED <<subject, record, opened, target, due, mine, rest, told>>

-----------------------------------------------------------------------------
(* A form that saves one by one sends nothing for a field without a value;   *)
(* the joined ones stop when there is no request at all.                     *)
Submit ==
  LET sends == Payload(form, field, shown, base)
      silent == form.saves # "once" /\ sends = {}
  IN /\ opened
     /\ target
     /\ ~Saving
     /\ Under(form.inputs, "required", field) => shown # Blank
     /\ rest' \in CASE form.saves = "once" -> {"idle"}
                    [] form.saves = "each" -> {"sent"}
                    [] form.saves = "all" -> {"sent"} \cup (IF silent THEN {} ELSE {"idle"})
     /\ mine' = [at |-> IF silent THEN "idle" ELSE "sent", sends |-> sends, want |-> shown,
                 typed |-> typed, base |-> base, row |-> Blank, left |-> record,
                 closed |-> FALSE]
     /\ told' = FALSE
     /\ UNCHANGED <<subject, record, cached, opened, target, due, input>>

(* The endpoint reads the row it will write back. *)
Read ==
  /\ mine.at = "sent"
  /\ form.writes = "row"
  /\ ~Refused(form, field, mine.sends)
  /\ mine' = [mine EXCEPT !.at = "read", !.row = record]
  /\ UNCHANGED <<subject, record, cached, opened, target, due, input, rest, told>>

Apply ==
  /\ mine.at = IF form.writes = "row" THEN "read" ELSE "sent"
  /\ ~Refused(form, field, mine.sends)
  /\ record' \in Stored(form, field, mine.sends, mine.row, record)
  /\ mine' = [mine EXCEPT !.at = "applied", !.row = Blank, !.left = record']
  /\ UNCHANGED <<subject, cached, opened, target, due, input, rest, told>>

(* The callbacks of mutate run while the component that sent is there. *)
Heard == opened /\ ~mine.closed

(* A faulty form: the callbacks of the last request instead of Promise.all. *)
TellsOfLast(m, r) == Heard /\ (IF last THEN m ELSE r) = "ok"

(* The success message, when the requests are at m and r.  A form of one     *)
(* request has it in the callback, Promise.all needs no component, and the   *)
(* settings forms count the callbacks that ran: of their two requests or     *)
(* more, of one hook, those of the last one do.                              *)
Tells(m, r) ==
  LET ofLast == IF last /\ m # "idle" THEN m ELSE r
      ran == IF Heard /\ ofLast = "ok" THEN 1 ELSE 0
  IN CASE form.saves = "once" -> Heard /\ m = "ok"
       [] form.saves = "all" -> {m, r} \subseteq {"idle", "ok"}
       [] form.saves = "each" -> ran = 2

(* What the success handler does to the form. *)
Finish(m, r) ==
  LET done == Heard /\ Tells(m, r)
      clears == form.after \in {"resets", "clears"} /\ ~Row
  IN /\ told' = Tells(m, r)
     /\ due' = (due \/ (done /\ form.timed))
     /\ IF done /\ form.after = "closes"
          THEN opened' = FALSE /\ target' = FALSE /\ base' = Blank
          ELSE UNCHANGED <<opened, target, base>>
     /\ CASE done /\ form.after = "resets" /\ Row ->
               /\ shown' \in (IF mine.sends = {} THEN {mine.base} ELSE mine.sends)
               /\ typed' = (mine.typed /\ mine.sends # {})
          [] done /\ (clears \/ form.after = "closes") -> shown' = Blank /\ typed' = FALSE
          [] done /\ form.after = "forgets" ->
               shown' \in Starts(form, field, base) /\ typed' = FALSE
          [] OTHER -> UNCHANGED <<shown, typed>>

Answer ==
  /\ mine.at = "applied"
  /\ mine' = [mine EXCEPT !.at = "ok", !.sends = {}]
  /\ Finish("ok", rest)
  /\ UNCHANGED <<subject, record, cached, rest>>

(* The endpoint refuses, or its answer is lost. *)
Fail ==
  /\ mine.at \in {"sent", "read", "applied"}
  /\ mine' = [Idle EXCEPT !.at = "failed", !.closed = mine.closed]
  /\ UNCHANGED <<subject, record, cached, opened, target, due, input, rest, told>>

RestAnswer(outcome) ==
  /\ rest = "sent"
  /\ rest' = outcome
  /\ Finish(mine.at, outcome)
  /\ UNCHANGED <<subject, record, cached, mine>>

FormNext ==
  \/ Open \/ Close \/ ClearRow \/ Refetched \/ Submit \/ Read \/ Apply \/ Answer \/ Fail
  \/ \E v \in Value : Type(v) \/ Derive(v) \/ OthersWrite(v)
  \/ \E outcome \in {"ok", "failed"} : RestAnswer(outcome)

FormSpec == FormInit /\ [][FormNext]_formVars
=============================================================================
