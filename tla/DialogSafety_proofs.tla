------------------------- MODULE DialogSafety_proofs ------------------------
(***************************************************************************)
(* The dialogs for any page, any number of openings and any catalogue that *)
(* keeps CatalogueAssumption: they keep their types, send what the user    *)
(* meant, send once, and are closed by their own answers.                  *)
(***************************************************************************)
EXTENDS DialogSafety, FiniteSetTheorems, TLAPS

(* A request is from a confirmation and an instance that were there, the     *)
(* requests of a confirmation from one instance; only a fan-out has requests *)
(* that are not its hook's last.                                             *)
Sent ==
  /\ \A c \in calls : c.no <= sent /\ c.life <= life[c.place]
  /\ \A c \in calls : InRows \/ c.place = "page"
  /\ \A c, d \in calls : c.no = d.no => c.place = d.place /\ c.life = d.life
  /\ dialog.how # "fanout" => \A c \in calls : c.last
  /\ dialog.mounted = "always" /\ ~InRows => life["page"] = 0
  /\ InRows \/ current.place = "page"

(* Where the records of the host come from: they outlive a dialog only while *)
(* a timer of a provider is due, and a dialog that finds one due was opened  *)
(* early.                                                                    *)
Kept ==
  /\ timers > 0 => dialog.host.kind = "provider"
  /\ current = Shut => target = {} \/ timers > 0
  /\ timers > 0 /\ current # Shut => current.early
  /\ current.moved => dialog.host.kind \in {"row", "ticks"}
  /\ current # Shut /\ current.rows # {} => target \subseteq current.rows \/ current.moved
  /\ current.this /\ current.rows = {} => "new" \in dialog.for

(* A component that goes with the dialog has sent only what this opening     *)
(* sent; a dialog that stays until the answer is there has one request.      *)
Owned ==
  /\ dialog.mounted = "open" /\ current.this =>
       \A c \in calls : c.life = life["page"] => c.by = current.no
  /\ Holds(dialog) /\ dialog.closes # "before" =>
       \A c \in calls : current.this /\ c.by = current.no /\ calls = {c}

Safe == TypeOK /\ Sent /\ Kept /\ Owned /\ SentAsMeant /\ LostIsEarly /\ SentOnce

-----------------------------------------------------------------------------
LEMMA ShutFields ==
  /\ Shut.no = 0 /\ Shut.this = FALSE /\ Shut.rows = {} /\ Shut.place = "page"
  /\ Shut.early = FALSE /\ Shut.moved = FALSE
  BY DEF Shut

(* The variables as numbers, and what the catalogue says of the dialog. *)
LEMMA Typed ==
  ASSUME TypeOK
  PROVE  /\ MaxOpens \in Nat /\ opened \in Nat /\ opened <= MaxOpens
         /\ MaxSends \in Nat /\ sent \in Nat /\ sent <= MaxSends
         /\ timers \in Nat /\ life \in [Sites -> Nat] /\ "page" \in Sites
         /\ target \subseteq Rows /\ life["page"] \in Nat
         /\ current.this \in BOOLEAN /\ current.moved \in BOOLEAN
         /\ current.place \in Sites /\ current.rows \subseteq Rows
         /\ \A c \in calls : /\ c.no \in Nat /\ c.by \in Nat /\ c.life \in Nat
                             /\ c.place \in Sites /\ life[c.place] \in Nat
                             /\ c.last \in BOOLEAN
         /\ dialog \in AllDialogs /\ dialog.mounted \in {"always", "open", "row"}
         /\ dialog.guard \in {"pending", "tab", "none"}
         /\ InRows => dialog.mounted = "always"
         /\ dialog.how = "fanout" => "new" \notin dialog.for
<1>1. MaxOpens \in Nat /\ MaxSends \in Nat /\ "page" \in Sites
    BY DialogsAssumption DEF Sites
<1>2. /\ opened \in Nat /\ opened <= MaxOpens /\ sent \in Nat /\ sent <= MaxSends
      /\ timers \in Nat /\ life \in [Sites -> Nat] /\ target \subseteq Rows
      /\ dialog \in AllDialogs
    BY <1>1 DEF TypeOK
<1>3. /\ current.this \in BOOLEAN /\ current.moved \in BOOLEAN
      /\ current.place \in Sites /\ current.rows \subseteq Rows
    BY <1>1, ShutFields DEF TypeOK, Opened
<1>4. \A c \in calls : /\ c.no \in Nat /\ c.by \in Nat /\ c.life \in Nat
                       /\ c.place \in Sites /\ c.last \in BOOLEAN
    BY <1>1 DEF TypeOK, Call
<1>5. /\ dialog.mounted \in {"always", "open", "row"}
      /\ dialog.guard \in {"pending", "tab", "none"}
      /\ InRows => dialog.mounted = "always"
      /\ dialog.how = "fanout" => "new" \notin dialog.for
    BY <1>2, CatalogueAssumption DEF InRows
<1> QED BY <1>1, <1>2, <1>3, <1>4, <1>5

LEMMA SafeInit == Init => Safe
<1> SUFFICES ASSUME Init PROVE Safe
    OBVIOUS
<1>1. TypeOK
    BY DialogsAssumption DEF Init, TypeOK
<1>2. Sent
    BY ShutFields, DialogsAssumption DEF Init, Sent, Sites
<1>3. Kept
    BY ShutFields DEF Init, Kept
<1>4. Owned /\ SentAsMeant /\ LostIsEarly /\ SentOnce
    BY DEF Init, Owned, SentAsMeant, LostIsEarly, SentOnce
<1> QED BY <1>1, <1>2, <1>3, <1>4 DEF Safe

(* A request of a component that is never unmounted is of its instance. *)
LEMMA AlwaysSame ==
  ASSUME Safe, dialog.mounted = "always", ~InRows, NEW c \in calls
  PROVE  SameInstance(c)
<1>1. c.place = "page" /\ c.life = life[c.place]
    BY Typed DEF Safe, Sent
<1>2. Mounted
    BY DEF Mounted
<1> QED BY <1>1, <1>2 DEF SameInstance

-----------------------------------------------------------------------------
LEMMA OpenKeepsSafe ==
  ASSUME Safe, NEW this \in BOOLEAN, NEW rows \in SUBSET Rows, NEW place \in Sites,
         Open(this, rows, place)
  PROVE  Safe'
<1> USE DEF Safe
<1>0. /\ current = Shut /\ opened < MaxOpens /\ opened' = opened + 1
      /\ current' = [no |-> opened + 1, this |-> this, rows |-> rows, place |-> place,
                     early |-> timers > 0, moved |-> FALSE]
      /\ target' = Taken(rows) /\ (InRows <=> place # "page")
      /\ UNCHANGED <<dialog, timers, calls, sent, polls>>
      /\ this => rows \in OpenedFor(dialog)
      /\ life' = life \/ life' = [life EXCEPT ![place] = @ + 1]
      /\ dialog.mounted = "open" /\ this => life' = [life EXCEPT ![place] = @ + 1]
      /\ dialog.mounted = "always" => life' = life
    BY DEF Open
<1>1. /\ current'.no = opened + 1 /\ current'.this = this /\ current'.rows = rows
      /\ current'.place = place /\ current'.early = (timers > 0) /\ current'.moved = FALSE
      /\ current' # Shut
    BY <1>0, Typed, ShutFields
<1>2. /\ target' \subseteq Rows /\ (rows # {} => target' = rows)
      /\ target' # rows => target # {}
    BY <1>0, Typed DEF Taken
<1>3. TypeOK'
  <2>1. current' \in Opened
      BY <1>0, Typed DEF Opened
  <2>2. opened' \in 0..MaxOpens /\ life' \in [Sites -> Nat]
      BY <1>0, Typed
  <2> QED BY <1>0, <1>2, <2>1, <2>2 DEF TypeOK
<1>4. Sent'
  <2>1. InRows' <=> InRows
      BY <1>0 DEF InRows
  <2>2. \A c \in calls : c.life <= life'[c.place]
      BY <1>0, Typed DEF Sent
  <2>3. dialog.mounted = "always" => life' = life
      BY <1>0
  <2> QED BY <1>0, <1>1, <2>1, <2>2, <2>3 DEF Sent
<1>5. Kept'
  <2>1. this /\ rows = {} => "new" \in dialog.for
    <3>1. Cardinality({}) = 0
        BY FS_EmptySet
    <3> QED BY <1>0, <3>1 DEF OpenedFor
  <2>2. timers > 0 => dialog.host.kind = "provider"
      BY DEF Kept
  <2> QED BY <1>0, <1>1, <1>2, <2>1, <2>2 DEF Kept
<1>6. Owned'
  <2>1. ASSUME dialog.mounted = "open", this PROVE \A c \in calls : c.life # life'["page"]
    <3>1. place = "page" /\ ~InRows
        BY <1>0, <2>1, Typed
    <3>2. life'["page"] = life["page"] + 1
        BY <1>0, <2>1, <3>1, Typed
    <3> QED BY <3>1, <3>2, Typed DEF Sent
  <2>2. Holds(dialog) /\ dialog.closes # "before" => calls = {}
      BY <1>0, ShutFields DEF Owned
  <2> QED BY <1>0, <1>1, <2>1, <2>2 DEF Owned
<1>7. LostIsEarly'
  <2>1. target' # rows => dialog.host.kind = "provider" /\ timers > 0
      BY <1>0, <1>2 DEF Kept
  <2> QED BY <1>0, <1>1, <2>1 DEF LostIsEarly
<1>8. SentAsMeant' /\ SentOnce'
    BY <1>0 DEF SentAsMeant, SentOnce
<1> QED BY <1>3, <1>4, <1>5, <1>6, <1>7, <1>8

(* CloseHost with the requests that are left. *)
LEMMA CloseKeepsSafe ==
  ASSUME Safe, CloseHost, UNCHANGED <<dialog, opened, life, polls>>,
         calls' \subseteq Call, sent' \in 0..MaxSends,
         \A c \in calls' : c.no <= sent' /\ c.life <= life[c.place],
         \A c \in calls' : InRows \/ c.place = "page",
         \A c, d \in calls' : c.no = d.no => c.place = d.place /\ c.life = d.life,
         dialog.how # "fanout" => \A c \in calls' : c.last,
         Holds(dialog) /\ dialog.closes # "before" => calls' = {},
         SentAsMeant', SentOnce'
  PROVE  Safe'
<1> USE DEF Safe
<1>0. /\ current' = Shut /\ timers' \in {timers, timers + 1}
      /\ dialog.host.kind = "provider" => timers' = timers + 1 /\ target' = target
      /\ dialog.host.kind # "provider" => timers' = timers /\ target' = {}
    BY DEF CloseHost
<1>1. TypeOK'
  <2>1. timers' \in Nat /\ target' \subseteq Rows
      BY <1>0, Typed
  <2> QED BY <1>0, <2>1 DEF TypeOK
<1>2. Sent'
  <2>1. InRows' <=> InRows
      BY DEF InRows
  <2> QED BY <1>0, <2>1, ShutFields DEF Sent
<1>3. Kept'
  <2>1. timers' > 0 => dialog.host.kind = "provider"
      BY <1>0 DEF Kept
  <2>2. target' = {} \/ timers' > 0
      BY <1>0, Typed
  <2> QED BY <1>0, <2>1, <2>2, ShutFields DEF Kept
<1>4. Owned' /\ LostIsEarly'
    BY <1>0, ShutFields DEF Owned, LostIsEarly
<1> QED BY <1>1, <1>2, <1>3, <1>4

LEMMA DismissKeepsSafe ==
  ASSUME Safe, Dismiss
  PROVE  Safe'
<1> USE DEF Safe
<1>0. /\ current # Shut /\ CloseHost /\ UNCHANGED <<dialog, opened, life, calls, sent, polls>>
      /\ ~(current.this /\ dialog.held /\ Pending)
    BY DEF Dismiss
<1>1. ASSUME NEW c \in calls, Holds(dialog), dialog.closes # "before" PROVE FALSE
  <2>1. SameInstance(c)
      BY <1>1, AlwaysSame DEF Holds, InRows
  <2>2. c.last /\ current.this /\ dialog.held
      BY <1>1 DEF Sent, Owned, Holds
  <2> QED BY <1>0, <2>1, <2>2 DEF Pending
<1>2. SentAsMeant' /\ SentOnce'
    BY <1>0 DEF SentAsMeant, SentOnce
<1> QED BY <1>0, <1>1, <1>2, CloseKeepsSafe DEF Sent, TypeOK

LEMMA ClearRowKeepsSafe ==
  ASSUME Safe, ClearRow
  PROVE  Safe'
<1> USE DEF Safe
<1>0. /\ timers > 0 /\ timers' = timers - 1 /\ target' = {}
      /\ UNCHANGED <<dialog, current, opened, calls, sent, polls>>
      /\ life' = life \/ (dialog.mounted = "open" /\ life' = [life EXCEPT !["page"] = @ + 1])
    BY DEF ClearRow
<1>1. timers' \in Nat /\ life' \in [Sites -> Nat]
    BY <1>0, Typed
<1>2. TypeOK'
    BY <1>0, <1>1 DEF TypeOK
<1>3. Sent'
  <2>1. \A c \in calls : c.life <= life'[c.place]
      BY <1>0, Typed DEF Sent
  <2>2. InRows' <=> InRows
      BY <1>0 DEF InRows
  <2> QED BY <1>0, <2>1, <2>2 DEF Sent
<1>4. Kept'
  <2>1. timers' > 0 => timers > 0
      BY <1>0, Typed
  <2> QED BY <1>0, <2>1 DEF Kept
<1>5. Owned'
  <2>1. \A c \in calls : c.life = life'["page"] /\ dialog.mounted = "open" => life' = life
    <3>1. dialog.mounted = "open" => ~InRows
        BY Typed
    <3> QED BY <1>0, <3>1, Typed DEF Sent
  <2> QED BY <1>0, <2>1 DEF Owned
<1>6. LostIsEarly'
    BY <1>0 DEF Kept, LostIsEarly
<1>7. SentAsMeant' /\ SentOnce'
    BY <1>0 DEF SentAsMeant, SentOnce
<1> QED BY <1>2, <1>3, <1>4, <1>5, <1>6, <1>7

LEMMA RowsMoveKeepsSafe ==
  ASSUME Safe, NEW rows \in SUBSET Rows, RowsMove(rows)
  PROVE  Safe'
<1> USE DEF Safe
<1>0. /\ dialog.host.kind \in {"row", "ticks"} /\ current.this /\ polls' = polls + 1
      /\ polls < MaxPolls /\ target' = rows /\ current' = [current EXCEPT !.moved = TRUE]
      /\ UNCHANGED <<dialog, opened, timers, life, calls, sent>>
    BY DEF RowsMove
<1>1. current # Shut /\ current \in Opened
    BY <1>0, ShutFields DEF TypeOK
<1>2. /\ current'.no = current.no /\ current'.this = current.this
      /\ current'.rows = current.rows /\ current'.place = current.place
      /\ current'.early = current.early /\ current'.moved = TRUE /\ current' \in Opened
    BY <1>0, <1>1 DEF Opened
<1>3. current' # Shut
    BY <1>2, ShutFields
<1>4. TypeOK'
  <2>1. polls' \in 0..MaxPolls
      BY <1>0, DialogsAssumption DEF TypeOK
  <2> QED BY <1>0, <1>2, <2>1 DEF TypeOK
<1>5. Sent'
  <2>1. InRows' <=> InRows
      BY <1>0 DEF InRows
  <2> QED BY <1>0, <1>2, <2>1 DEF Sent
<1>6. Kept' /\ LostIsEarly'
    BY <1>0, <1>1, <1>2, <1>3 DEF Kept, LostIsEarly
<1>7. Owned' /\ SentAsMeant' /\ SentOnce'
    BY <1>0, <1>2 DEF Owned, SentAsMeant, SentOnce
<1> QED BY <1>4, <1>5, <1>6, <1>7

LEMMA RowVanishesKeepsSafe ==
  ASSUME Safe, NEW place \in Places, RowVanishes(place)
  PROVE  Safe'
<1> USE DEF Safe
<1>0. /\ InRows /\ polls' = polls + 1 /\ polls < MaxPolls
      /\ life' = [life EXCEPT ![place] = @ + 1]
      /\ (current' = Shut /\ target' = {}) \/ UNCHANGED <<current, target>>
      /\ UNCHANGED <<dialog, opened, timers, calls, sent>>
    BY DEF RowVanishes
<1>1. TypeOK'
  <2>1. polls' \in 0..MaxPolls /\ life' \in [Sites -> Nat]
      BY <1>0, Typed, DialogsAssumption DEF TypeOK, Sites
  <2>2. current' \in {Shut} \cup Opened /\ target' \in SUBSET Rows
      BY <1>0 DEF TypeOK
  <2> QED BY <1>0, <2>1, <2>2 DEF TypeOK
<1>2. Sent'
  <2>1. InRows'
      BY <1>0 DEF InRows
  <2>2. \A c \in calls : c.life <= life'[c.place]
      BY <1>0, Typed DEF Sent
  <2> QED BY <1>0, <2>1, <2>2 DEF Sent
<1>3. Kept' /\ LostIsEarly'
    BY <1>0, ShutFields DEF Kept, LostIsEarly
<1>4. Owned'
  <2>1. dialog.mounted # "open" /\ ~Holds(dialog)
      BY <1>0, Typed DEF Holds, InRows
  <2> QED BY <1>0, <2>1 DEF Owned
<1>5. SentAsMeant' /\ SentOnce'
    BY <1>0 DEF SentAsMeant, SentOnce
<1> QED BY <1>1, <1>2, <1>3, <1>4, <1>5

-----------------------------------------------------------------------------
(* What the requests of a confirmation have in common. *)
LEMMA RequestFields ==
  ASSUME Safe, NEW final \in Rows, Confirm(final), NEW c \in Requests(final)
  PROVE  /\ c \in Call /\ c.no = sent + 1 /\ c.by = current.no /\ c.place = current.place
         /\ c.life = life[current.place] /\ c.meant = current.rows /\ c.moved = current.moved
         /\ dialog.how # "fanout" => c.last
         /\ (c.rows \subseteq c.meant /\ (c.rows = {} => c.meant = {}))
              \/ (c.moved /\ dialog.host.kind \in {"row", "ticks"})
<1> USE DEF Safe
<1>1. /\ current.this /\ (current.rows = {} \/ target # {}) /\ sent < MaxSends
    BY DEF Confirm
<1>2. current # Shut /\ current \in Opened
    BY <1>1, ShutFields DEF TypeOK
<1>3. /\ current.no \in 1..MaxOpens /\ sent + 1 \in 1..MaxSends
      /\ life[current.place] \in Nat
    BY <1>1, <1>2, Typed DEF Opened
<1>4. PICK rows \in SUBSET Rows, last \in BOOLEAN :
        /\ c = Request(rows, last)
        /\ dialog.how = "fanout" => \E r \in target : rows = {r}
        /\ dialog.how # "fanout" => last /\ rows = (IF current.rows = {} THEN {} ELSE target)
  <2>1. CASE dialog.how = "fanout"
    <3>1. PICK r \in target : c = Request({r}, r = final)
        BY <2>1 DEF Requests
    <3>2. {r} \in SUBSET Rows /\ (r = final) \in BOOLEAN
        BY Typed
    <3> QED BY <2>1, <3>1, <3>2
  <2>2. CASE dialog.how # "fanout"
    <3>1. c = Request(IF current.rows = {} THEN {} ELSE target, TRUE)
        BY <2>2 DEF Requests
    <3>2. (IF current.rows = {} THEN {} ELSE target) \in SUBSET Rows
        BY Typed
    <3> QED BY <2>2, <3>1, <3>2
  <2> QED BY <2>1, <2>2
<1>5. /\ c.no = sent + 1 /\ c.by = current.no /\ c.place = current.place /\ c.rows = rows
      /\ c.life = life[current.place] /\ c.meant = current.rows /\ c.moved = current.moved
      /\ c.last = last
    BY <1>4 DEF Request
<1>6. c \in Call
    BY <1>3, <1>4, Typed DEF Request, Call
<1>7. CASE current.rows = {}
  <2>1. dialog.how # "fanout"
      BY <1>1, <1>7, Typed DEF Kept
  <2> QED BY <1>4, <1>5, <1>6, <1>7, <2>1
<1>8. CASE current.rows # {}
  <2>1. rows # {} /\ rows \subseteq target
      BY <1>1, <1>4, <1>8
  <2>2. target \subseteq current.rows \/ current.moved
      BY <1>2, <1>8 DEF Kept
  <2>3. current.moved => dialog.host.kind \in {"row", "ticks"}
      BY DEF Kept
  <2> QED BY <1>4, <1>5, <1>6, <2>1, <2>2, <2>3
<1> QED BY <1>7, <1>8

(* What is known of earlier requests when the button can be clicked. *)
LEMMA ConfirmFirst ==
  ASSUME Safe, NEW final \in Rows, Confirm(final), NEW c \in calls, dialog.guard # "none"
  PROVE  \/ dialog.guard = "pending" /\ <<c.place, c.life>> # <<current.place, life[current.place]>>
         \/ dialog.how = "fanout" /\ ~\E e \in calls : e.no = c.no /\ e.last
<1> USE DEF Safe
<1>1. Mounted /\ ~Pending
    BY DEF Confirm, Enabled
<1>2. CASE dialog.guard = "tab"
  <2>1. \A e \in calls : ~e.last
      BY <1>1, <1>2, Typed DEF Pending
  <2> QED BY <2>1 DEF Sent
<1>3. CASE dialog.guard = "pending" /\ c.place = current.place /\ c.life = life[current.place]
  <2>1. ASSUME NEW e \in calls, e.no = c.no, e.last PROVE FALSE
    <3>1. e.place = c.place /\ e.life = c.life
        BY <2>1 DEF Sent
    <3>2. SameInstance(e)
        BY <1>1, <1>3, <3>1 DEF SameInstance
    <3> QED BY <1>1, <2>1, <3>2 DEF Pending
  <2>2. dialog.how # "fanout" => c.last
      BY DEF Sent
  <2> QED BY <2>1, <2>2
<1> QED BY <1>2, <1>3, Typed

LEMMA ConfirmKeepsSafe ==
  ASSUME Safe, NEW final \in Rows, Confirm(final)
  PROVE  Safe'
<1> USE DEF Safe
<1>0. /\ current.this /\ sent < MaxSends /\ sent' = sent + 1
      /\ calls' = calls \cup Requests(final)
      /\ UNCHANGED <<dialog, opened, life, polls>>
      /\ IF dialog.atClick \/ dialog.closes = "before"
           THEN CloseHost ELSE UNCHANGED <<current, target, timers>>
    BY DEF Confirm
<1>1. sent' \in 0..MaxSends /\ calls' \subseteq Call
    BY <1>0, RequestFields, Typed DEF TypeOK
<1>2. \A c \in calls' : c.no <= sent' /\ c.life <= life[c.place]
  <2>1. \A c \in calls : c.no <= sent' /\ c.life <= life[c.place]
      BY <1>0, Typed DEF Sent
  <2>2. \A c \in Requests(final) : c.no <= sent' /\ c.life <= life[c.place]
      BY <1>0, RequestFields, Typed
  <2> QED BY <1>0, <2>1, <2>2
<1>3. \A c \in calls' : InRows \/ c.place = "page"
    BY <1>0, RequestFields DEF Sent
<1>4. \A c, d \in calls' : c.no = d.no => c.place = d.place /\ c.life = d.life
  <2>1. \A c \in calls : c.no # sent + 1
      BY Typed DEF Sent
  <2> QED BY <1>0, <2>1, RequestFields DEF Sent
<1>5. dialog.how # "fanout" => \A c \in calls' : c.last
    BY <1>0, RequestFields DEF Sent
<1>6. SentAsMeant'
  <2>1. ASSUME NEW c \in calls'
        PROVE  \/ c.rows \subseteq c.meant /\ (c.rows = {} => c.meant = {})
               \/ c.moved /\ dialog.host.kind \in {"row", "ticks"}
      BY <1>0, RequestFields DEF SentAsMeant
  <2> QED BY <1>0, <2>1 DEF SentAsMeant
<1>7. SentOnce'
  <2>1. ASSUME NEW c \in calls', NEW d \in calls', c.no < d.no,
               c.rows \cap d.rows # {} \/ c.rows = d.rows, dialog.guard # "none"
        PROVE  \/ dialog.guard = "pending" /\ <<c.place, c.life>> # <<d.place, d.life>>
               \/ dialog.how = "fanout" /\ ~\E e \in calls' : e.no = c.no /\ e.last
    <3>1. c \in calls
      <4>1. d.no <= sent + 1 /\ d.no \in Nat
          BY <1>0, <1>2, <1>1, Typed DEF Call
      <4>2. c \in Requests(final) => c.no = sent + 1
          BY RequestFields
      <4> QED BY <1>0, <2>1, <4>1, <4>2, Typed
    <3>2. ASSUME NEW e \in calls', e.no = c.no PROVE e \in calls
      <4>1. c.no # sent + 1
          BY <3>1, Typed DEF Sent
      <4> QED BY <1>0, <3>2, <4>1, RequestFields
    <3>3. CASE d \in calls
        BY <2>1, <3>1, <3>2, <3>3 DEF SentOnce
    <3>4. CASE d \in Requests(final)
      <4>1. d.place = current.place /\ d.life = life[current.place]
          BY <3>4, RequestFields
      <4> QED BY <2>1, <3>1, <3>2, <4>1, ConfirmFirst
    <3> QED BY <1>0, <3>3, <3>4
  <2> QED BY <1>0, <2>1 DEF SentOnce
<1>8. CASE dialog.atClick \/ dialog.closes = "before"
  <2>1. CloseHost /\ ~(Holds(dialog) /\ dialog.closes # "before")
      BY <1>0, <1>8 DEF Holds
  <2> QED BY <1>0, <1>1, <1>2, <1>3, <1>4, <1>5, <1>6, <1>7, <2>1, CloseKeepsSafe
<1>9. CASE ~(dialog.atClick \/ dialog.closes = "before")
  <2>0. UNCHANGED <<dialog, opened, life, polls, current, target, timers>>
      BY <1>0, <1>9
  <2>1. TypeOK'
      BY <1>1, <2>0 DEF TypeOK
  <2>2. InRows' <=> InRows
      BY <2>0 DEF InRows
  <2>3. Sent'
      BY <1>2, <1>3, <1>4, <1>5, <2>0, <2>2 DEF Sent
  <2>4. Kept' /\ LostIsEarly'
      BY <2>0 DEF Kept, LostIsEarly
  <2>5. Owned'
    <3>1. dialog.mounted = "open" =>
            \A c \in calls' : c.life = life["page"] => c.by = current.no
        BY <1>0, RequestFields DEF Owned
    <3>2. ASSUME Holds(dialog), dialog.closes # "before", NEW c \in calls'
          PROVE  c.by = current.no /\ calls' = {c}
      <4>1. calls = {}
        <5>1. ASSUME NEW e \in calls PROVE FALSE
          <6>1. dialog.guard # "none" /\ dialog.how = "callback" /\ e.last /\ SameInstance(e)
              BY <3>2, AlwaysSame DEF Holds, Sent, InRows
          <6>2. ~Pending
              BY <6>1 DEF Confirm, Enabled
          <6> QED BY <6>1, <6>2 DEF Pending
        <5> QED BY <5>1
      <4>2. \A a, b \in Requests(final) : a = b
          BY <3>2 DEF Requests, Holds
      <4> QED BY <1>0, <4>1, <4>2, RequestFields
    <3> QED BY <1>0, <2>0, <3>1, <3>2 DEF Owned
  <2> QED BY <1>6, <1>7, <2>1, <2>3, <2>4, <2>5
<1> QED BY <1>8, <1>9

LEMMA AnswerKeepsSafe ==
  ASSUME Safe, NEW c \in calls, NEW ok \in BOOLEAN, Answer(c, ok)
  PROVE  Safe'
<1> USE DEF Safe
<1>0. /\ calls' = calls \ {c} /\ UNCHANGED <<dialog, opened, life, sent, polls>>
      /\ CloseHost \/ UNCHANGED <<current, target, timers>>
    BY DEF Answer
<1>1. /\ calls' \subseteq Call /\ sent' \in 0..MaxSends
      /\ \A d \in calls' : d.no <= sent' /\ d.life <= life[d.place]
      /\ \A d \in calls' : InRows \/ d.place = "page"
      /\ \A d, e \in calls' : d.no = e.no => d.place = e.place /\ d.life = e.life
      /\ dialog.how # "fanout" => \A d \in calls' : d.last
    BY <1>0 DEF Sent, TypeOK
<1>2. SentAsMeant'
    BY <1>0 DEF SentAsMeant
<1>3. SentOnce'
    BY <1>0 DEF SentOnce
<1>4. CASE CloseHost
  <2>1. Holds(dialog) /\ dialog.closes # "before" => calls' = {}
      BY <1>0 DEF Owned
  <2> QED BY <1>0, <1>1, <1>2, <1>3, <1>4, <2>1, CloseKeepsSafe
<1>5. CASE UNCHANGED <<current, target, timers>>
  <2>1. InRows' <=> InRows
      BY <1>0 DEF InRows
  <2>2. TypeOK' /\ Sent'
      BY <1>0, <1>1, <1>5, <2>1 DEF TypeOK, Sent
  <2>3. Kept' /\ LostIsEarly'
      BY <1>0, <1>5 DEF Kept, LostIsEarly
  <2>4. Owned'
      BY <1>0, <1>5 DEF Owned
  <2> QED BY <1>2, <1>3, <2>2, <2>3, <2>4
<1> QED BY <1>0, <1>4, <1>5

LEMMA SafeStep == Safe /\ [Next]_vars => Safe'
<1> SUFFICES ASSUME Safe, [Next]_vars PROVE Safe'
    OBVIOUS
<1>1. CASE UNCHANGED vars
  <2> USE <1>1 DEF vars
  <2>1. TypeOK' /\ Sent'
      BY DEF Safe, TypeOK, Sent, InRows
  <2>2. Kept' /\ Owned' /\ LostIsEarly'
      BY DEF Safe, Kept, Owned, LostIsEarly
  <2>3. SentAsMeant' /\ SentOnce'
      BY DEF Safe, SentAsMeant, SentOnce
  <2> QED BY <2>1, <2>2, <2>3 DEF Safe
<1> QED BY <1>1, OpenKeepsSafe, DismissKeepsSafe, ClearRowKeepsSafe, RowsMoveKeepsSafe,
           RowVanishesKeepsSafe, ConfirmKeepsSafe, AnswerKeepsSafe DEF Next

LEMMA DialogsSafe == Spec => []Safe
  BY SafeInit, SafeStep, PTL DEF Spec

-----------------------------------------------------------------------------
(* The types of the dialog's state, its timers, instances and requests.      *)
THEOREM DialogsTypeOK == Spec => []TypeOK
<1>1. Safe => TypeOK
    BY DEF Safe
<1> QED BY <1>1, DialogsSafe, PTL

(* A request goes to the records its dialog was opened for, unless a poll    *)
(* moved the rows under a dialog kept by the number of a row.                *)
THEOREM DialogSendsAsMeant == Spec => []SentAsMeant
<1>1. Safe => SentAsMeant
    BY DEF Safe
<1> QED BY <1>1, DialogsSafe, PTL

(* A dialog loses its records only under a provider, to the timer of a       *)
(* closing that was due when it was opened.                                  *)
THEOREM DialogLossIsEarly == Spec => []LostIsEarly
<1>1. Safe => LostIsEarly
    BY DEF Safe
<1> QED BY <1>1, DialogsSafe, PTL

(* Two confirmations are in flight for a record only from two instances,     *)
(* after the last request of a fan-out was answered, or without a guard.     *)
THEOREM DialogSendsOnce == Spec => []SentOnce
<1>1. Safe => SentOnce
    BY DEF Safe
<1> QED BY <1>1, DialogsSafe, PTL

(* The step that AnswerClosesOwn allows. *)
ClosedByOwn ==
  \A c \in calls \ calls' :
    current # Shut /\ current' = Shut
      => c.by = current.no \/ dialog.name \in LateClosers

(* An answer that closes a dialog outside LateClosers is from its opening.   *)
LEMMA AnswerIsOwn ==
  ASSUME Safe, NEW c \in calls, NEW ok \in BOOLEAN, Answer(c, ok),
         current # Shut, current' = Shut, dialog.name \notin LateClosers
  PROVE  c.by = current.no
<1>1. Handled(c) /\ Wanted(ok)
    BY DEF Answer
<1>2. ClosesOwn(dialog)
    BY Typed, CatalogueAssumption DEF Safe
<1>3. dialog.closes \notin {"before", "never"}
    BY <1>1 DEF Wanted
<1>4. SameInstance(c) /\ (dialog.mounted = "open" \/ Holds(dialog))
    BY <1>1, <1>2, <1>3 DEF Handled, ClosesOwn
<1>5. CASE dialog.mounted = "open"
  <2>1. c.place = "page" /\ current.this /\ c.life = life[c.place]
      BY <1>4, <1>5, Typed DEF SameInstance, Mounted, Safe, Sent
  <2> QED BY <1>5, <2>1 DEF Safe, Owned
<1>6. CASE Holds(dialog)
    BY <1>3, <1>6 DEF Safe, Owned
<1> QED BY <1>4, <1>5, <1>6

LEMMA ClosedByOwnStep == Safe /\ [Next]_vars => ClosedByOwn
<1> SUFFICES ASSUME Safe, [Next]_vars, NEW c \in calls \ calls',
                    current # Shut, current' = Shut, dialog.name \notin LateClosers
             PROVE  c.by = current.no
    BY DEF ClosedByOwn
<1>1. ASSUME NEW d \in calls, NEW ok \in BOOLEAN, Answer(d, ok) PROVE c.by = current.no
  <2>1. c = d
      BY <1>1 DEF Answer
  <2> QED BY <1>1, <2>1, AnswerIsOwn
<1>2. CASE \E this \in BOOLEAN, rows \in SUBSET Rows, place \in Sites : Open(this, rows, place)
    BY <1>2 DEF Open
<1>3. CASE (\E rows \in SUBSET Rows : RowsMove(rows)) \/ \E place \in Places : RowVanishes(place)
    BY <1>3 DEF RowsMove, RowVanishes
<1>4. CASE Dismiss \/ ClearRow \/ (\E final \in Rows : Confirm(final)) \/ UNCHANGED vars
    BY <1>4 DEF Dismiss, ClearRow, Confirm, vars
<1> QED BY <1>1, <1>2, <1>3, <1>4 DEF Next

(* An answer closes the dialog its request was sent from and no other one,   *)
(* unless the dialog is in LateClosers.                                      *)
THEOREM AnswerClosesItsOwn == Spec => AnswerClosesOwn
<1>1. Safe /\ [Next]_vars => [ClosedByOwn]_vars
    BY ClosedByOwnStep
<1>2. Spec => [][ClosedByOwn]_vars
    BY <1>1, DialogsSafe, PTL DEF Spec
<1> QED BY <1>2, PTL DEF AnswerClosesOwn, ClosedByOwn
=============================================================================
