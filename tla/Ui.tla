--------------------------------- MODULE Ui ---------------------------------
(***************************************************************************)
(* The vocabulary of the web client's screens (src/web/src/features).  A   *)
(* feature is a set of screens, dialogs, forms and tables; the modules     *)
(* UiHotspot, UiPpp, UiVoucher, UiOffice, UiAdmin and UiPortal list them,  *)
(* and QueryCache, Dialogs, Forms and Tables give them their behaviour.    *)
(* Layout and wording are left out.                                        *)
(***************************************************************************)
EXTENDS Sequences, FiniteSets

(* A component that mounts query hooks and offers mutation hooks ... *)
Screen(name, uses, offers) ==
  [name |-> name, uses |-> uses, offers |-> offers, opens |-> {}]

(* ... and has buttons or menu entries that open dialogs. *)
Opening(screen, dialogs) == [screen EXCEPT !.opens = dialogs]

(***************************************************************************)
(* Dialogs.  The host is the switch that says which dialog is open: a      *)
(* context provider, a zustand store, the state of the page, or a state of *)
(* every row.  A provider also keeps the current row and clears it by a    *)
(* timer half a second after a dialog closed.                              *)
(***************************************************************************)
Provider(feature) == [kind |-> "provider", of |-> feature]
Store(feature) == [kind |-> "store", of |-> feature]
Local(feature) == [kind |-> "local", of |-> feature]
InRow(feature) == [kind |-> "row", of |-> feature]

(* The state of the page, and the ticks of its table. *)
Ticked(feature) == [kind |-> "ticks", of |-> feature]

(* mounted: the component that sends lives on when the dialog is closed    *)
(*   ("always"), goes with it ("open"), or lives while there is a current  *)
(*   row ("row");                                                          *)
(* how: the answer is met in a callback of mutate, which is dropped when   *)
(*   the component is gone ("callback"), or after an await, which runs in  *)
(*   any case ("await"); "fanout" awaits one request per ticked row;       *)
(* closes: on "success", when "settled" either way, "before" it sends, or  *)
(*   "never".                                                              *)
(* for: it is opened for "one" record, "many" ticked ones, or a "new" one; *)
(* guard: the button is disabled while the request last sent by the hook   *)
(*   of its component is "pending", or by that of the "tab", or not at all *)
(*   ("none").                                                             *)
Dialog(name, host, mounted, how, closes, sends) ==
  [name |-> name, host |-> host, mounted |-> mounted, how |-> how,
   closes |-> closes, sends |-> sends, held |-> FALSE, atClick |-> FALSE,
   for |-> {"one"}, guard |-> "pending"]

Adds(dialog) == [dialog EXCEPT !.for = {"new"}]
AddsOrEdits(dialog) == [dialog EXCEPT !.for = {"new", "one"}]
OneOrMany(dialog) == [dialog EXCEPT !.for = {"one", "many"}]
ForTicked(dialog) == [dialog EXCEPT !.for = {"many"}]

GuardedByTab(dialog) == [dialog EXCEPT !.guard = "tab"]
Unguarded(dialog) == [dialog EXCEPT !.guard = "none"]

(* The button is an AlertDialogAction, which also closes the dialog as soon *)
(* as it is clicked (components/ui/alert-dialog.tsx, Radix).                *)
AtClick(dialog) == [dialog EXCEPT !.atClick = TRUE]

(* The dialog cannot be dismissed while a request is pending. *)
Held(dialog) == [dialog EXCEPT !.held = TRUE]

(***************************************************************************)
(* Forms that edit a record.  Each part maps a rule to the fields that     *)
(* follow it.                                                              *)
(* defaults: what the input starts from: the "row"; "blank"; a "constant", *)
(*   or "off", whatever the row has; "orPreset" a preset where the row is  *)
(*   empty; "orZero" zero where it is empty; "noZero" empty where it is    *)
(*   zero; "copied" what another input shows;                              *)
(* payload: "always" sent as shown, "filled" left out when empty, "number" *)
(*   read as a number and anything else sent as zero, "preset" as a preset,*)
(*   "changed" sent when it differs from the record, "edited" when it also *)
(*   is not empty, "wiped" sent as a constant empty value, "fixed" not     *)
(*   sent by an edit;                                                      *)
(* inputs: "required" refused when empty, "free" anything, "number" text   *)
(*   meant as one, "choice" one of a list, "switch" on or off (zero),      *)
(*   "locked" disabled on an edit, "hidden" without an input, "derived"    *)
(*   written by a change of another input.                                 *)
(* stores: what the endpoint does with what it is sent: "dropped" it has   *)
(*   no such field, "nonempty" it skips an empty value, "nonzero" an empty *)
(*   value or a zero, "refused" it answers an empty one with an error;     *)
(*   a field under no such rule is stored.                                 *)
(* follows: when the record arrives again the form is reset ("data"), the  *)
(*   fields of the row are ("rows"), the fields not typed in follow it     *)
(*   ("untouched"), or nothing happens ("never").                          *)
(* writes: the endpoint writes the "field"s it is sent, or it reads the    *)
(*   "row", sets the fields and writes all of the row.                     *)
(* after: a success "closes" the form, "resets" it to what was sent,       *)
(*   "clears" the inputs that do not start from the row, "forgets" what    *)
(*   was typed, or it "stays".                                             *)
(* frozen: the inputs that are disabled while a request is pending.        *)
(***************************************************************************)
Form(name, defaults, payload, inputs, follows) ==
  [name |-> name, defaults |-> defaults, payload |-> payload, inputs |-> inputs,
   follows |-> follows, saves |-> "once", stores |-> [dropped |-> {}], writes |-> "field",
   after |-> "closes", bound |-> TRUE, timed |-> FALSE, frozen |-> {}]

(* One request per field, all of one mutation hook: the callbacks of mutate *)
(* belong to the request sent last.                                         *)
PerField(form) == [form EXCEPT !.saves = "each", !.after = "stays"]

(* One request per field, joined with Promise.all. *)
Joined(form) == [form EXCEPT !.saves = "all", !.after = "forgets"]

Resets(form) == [form EXCEPT !.after = "resets"]
Clears(form) == [form EXCEPT !.after = "clears"]

Stores(form, rules) == [form EXCEPT !.stores = rules]
WritesRow(form) == [form EXCEPT !.writes = "row"]

(* The body cannot be bound to the request type: every save is a 400. *)
Unbound(form) == [form EXCEPT !.bound = FALSE]

(* The drawer's provider clears the current row by a timer.  The form is    *)
(* keyed by the row, so when it is open again it starts anew, without one.  *)
Timed(form) == [form EXCEPT !.timed = TRUE]

Freezes(form, fields) == [form EXCEPT !.frozen = fields]

(* The rules of a form whose fields are rendered in two parts. *)
Both(a, b) ==
  [r \in DOMAIN a \union DOMAIN b |->
     (IF r \in DOMAIN a THEN a[r] ELSE {}) \union (IF r \in DOMAIN b THEN b[r] ELSE {})]

(***************************************************************************)
(* Tables.  No table passes getRowId, so a row, its tick and its React key *)
(* are the row's place in the data.                                        *)
(* paging: the page is kept in the "url", in "local" state, on the         *)
(*   "server", or there is one page ("one");                               *)
(* inRange: an effect calls ensurePageInRange;                             *)
(* bulk: the ticked rows are read at the "click" on the bulk action, at    *)
(*   the "confirm" of its dialog, or there is "no" bulk action;            *)
(* filters: the columns that can be filtered.                              *)
(***************************************************************************)
Table(name, paging, inRange, bulk, filters) ==
  [name |-> name, paging |-> paging, inRange |-> inRange, bulk |-> bulk,
   filters |-> filters, clears |-> TRUE]

(* The bulk action leaves the ticks as they are. *)
KeepsTicks(table) == [table EXCEPT !.clears = FALSE]
=============================================================================
