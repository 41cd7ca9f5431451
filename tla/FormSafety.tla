----------------------------- MODULE FormSafety -----------------------------
(* What a save does to the record, and what its success message promises.    *)
EXTENDS Forms

(* The forms that send only what the user changed.  The others send every    *)
(* field of the form, and so put back what it was when the form was opened.  *)
PartialForms ==
  {"RouterForm", "AdminUserForm", "AccountForm", "OwnProfileForm",
   "WaSettingsCard", "TelegramConfigCard"}

(* Saved over by a form whose user did not touch the field: presetToApi      *)
(* sends '' for a comment the drawer does not know, and a change of profile  *)
(* sets validity and prices; the hotspot profile form shows every lock as    *)
(* off and sends the price as the monthly price; the account form goes back, *)
(* after a success, to the e-mail it had when it was submitted.              *)
Overwritten ==
  ({"PresetForm"} \X {"comment", "validity", "price", "sellingPrice"})
  \cup ({"HotspotProfileForm"} \X {"lock_user", "price_monthly"})
  \cup {<<"AccountForm", "email">>}

(* An empty value, or one the form does not know, is saved as the preset the *)
(* form shows for it.                                                        *)
Completed ==
  ({"PresetForm"} \X {"server", "userMode", "userLength", "charSet", "timeLimit", "dataLimit",
                      "lockUser"})
  \cup ({"HotspotProfileForm"} \X {"expire_mode"})
  \cup ({"HsDbProfileForm"} \X {"shared_users", "status_autorefresh", "expiry_mode"})

(* An empty secret means that the secret stays. *)
Secrets ==
  {"password", "mikrotik_password", "new_password",
   "xendit_secret_key", "xendit_webhook_token", "telegram_bot_token"}

(* Left out by the form when empty, or skipped by the endpoint: the user can *)
(* change them, never clear them, nor switch use_tls off.                    *)
Unclearable ==
  ({"HotspotProfileForm"} \X {"rate_limit", "validity"})
  \cup ({"PPPProfileForm"} \X {"comment", "rate_limit", "parent_queue",
                               "session_timeout", "idle_timeout"})
  \cup ({"PPPSecretForm"} \X {"profile", "local_address", "remote_address"})
  \cup ({"SubscriptionForm"} \X {"billing_day"})
  \cup ({"AccountForm"} \X {"email"})
  \cup ({"RouterForm"} \X {"use_tls"})

(* Sent as Number(value) || 0, and as a preset where it is no number. *)
Zeroed ==
  ({"HotspotProfileForm"} \X {"price", "selling_price"})
  \cup ({"HsDbProfileForm"} \X {"price", "price_monthly", "sell_price"})
  \cup ({"PPPDbProfileForm"} \X {"price_monthly"})

Refilled == {"HsDbProfileForm"} \X {"shared_users", "status_autorefresh"}

(* Offered by the form and told as saved, but never stored: the request has  *)
(* no such field, or the endpoint has none.                                  *)
Dropped ==
  ({"HotspotProfileForm"} \X {"role", "lock_server"})
  \cup ({"PPPSecretForm"} \X {"comment"})
  \cup ({"PPPProfileForm"} \X {"disabled"})
  \cup ({"AdminUserForm", "OwnProfileForm"} \X {"username"})

-----------------------------------------------------------------------------
(* What the properties rest on, read off the form's description: the rules   *)
(* a field is under, and not what they compute.                              *)
Sending == {"always", "filled", "number", "preset", "changed", "edited", "wiped", "fixed"}
Starting == {"row", "blank", "constant", "off", "orPreset", "orZero", "noZero", "copied"}
Taking == {"required", "free", "number", "choice", "switch", "locked", "hidden", "derived"}

OneRule(part, rules, x) ==
  \E r \in rules : Under(part, r, x) /\ \A s \in rules \ {r} : ~Under(part, s, x)

SafeUntouched(f, x) ==
  LET sent(rules) == \E r \in rules : Under(f.payload, r, x)
      starts(rules) == \E r \in rules : Under(f.defaults, r, x)
  IN \/ ~f.bound
     \/ <<f.name, x>> \in Overwritten
     \/ Under(f.stores, "dropped", x)
     \/ sent({"fixed"})
     \/ sent({"changed", "edited"}) /\ starts({"row"})
     \/ sent({"filled"}) /\ starts({"blank"})
     \/ /\ f.name \notin PartialForms
        /\ \/ starts({"row"}) /\ sent({"always", "filled", "number"})
           \/ starts({"noZero"}) /\ sent({"number"})
           \/ /\ <<f.name, x>> \in Completed
              /\ starts({"row", "orPreset", "orZero"}) /\ sent({"always", "filled", "preset"})

SafeTyped(f, x) ==
  LET sent(rules) == \E r \in rules : Under(f.payload, r, x)
      takes(rules) == \E r \in rules : Under(f.inputs, r, x)
      stores(rules) == \E r \in rules : Under(f.stores, r, x)
      cleared == (x \in Secrets /\ takes({"free"})) \/ <<f.name, x>> \in Unclearable
  IN \/ ~f.bound
     \/ <<f.name, x>> \in Dropped
     \/ takes({"locked", "hidden", "derived"})
     \/ /\ ~stores({"dropped"})
        /\ \/ /\ sent({"always", "changed", "filled", "edited"})
              /\ sent({"filled", "edited"}) \/ stores({"nonempty", "nonzero"}) =>
                   takes({"required", "choice"}) \/ cleared
                   \/ (takes({"switch"}) /\ ~stores({"nonzero"}))
           \/ ~stores({"nonempty", "nonzero"}) /\ sent({"number"}) /\ <<f.name, x>> \in Zeroed
           \/ ~stores({"nonempty", "nonzero"}) /\ sent({"preset"}) /\ <<f.name, x>> \in Refilled

ASSUME FormCatalogueAssumption ==
  \A f \in AllForms :
    /\ f.saves \in {"once", "each", "all"} /\ f.follows \in {"data", "rows", "untouched", "never"}
    /\ f.after \in {"closes", "resets", "clears", "forgets", "stays"}
    /\ f.after = "forgets" <=> f.saves = "all"
    /\ f.after = "stays" <=> f.saves = "each"
    /\ f.saves # "once" => f.bound
    /\ f.bound \in BOOLEAN /\ f.timed \in BOOLEAN /\ f.writes \in {"field", "row"}
    /\ \A x \in Fields(f) :
         /\ OneRule(f.payload, Sending, x)
         /\ OneRule(f.defaults, Starting, x)
         /\ OneRule(f.inputs, Taking, x)
         /\ Under(f.payload, "number", x) => Under(f.inputs, "number", x)
         /\ f.after = "resets" /\ Under(f.defaults, "row", x) =>
              Under(f.payload, "edited", x) /\ <<f.name, x>> \in Overwritten
         /\ f.after \in {"resets", "clears"} \/ f.follows = "rows" =>
              Under(f.defaults, "row", x) \/ Under(f.defaults, "blank", x)
         /\ Under(f.inputs, "derived", x) => <<f.name, x>> \in Overwritten
         /\ SafeUntouched(f, x)
         /\ SafeTyped(f, x)

-----------------------------------------------------------------------------
Saved == mine.at # "applied" /\ mine'.at = "applied"

(* A save leaves alone a field the user did not touch.  Only a form that     *)
(* sends every field may put back what the form was opened on, and only an   *)
(* endpoint that writes the whole row what it had read, undoing what another *)
(* user stored in between; the fields of Completed are filled in where they  *)
(* were empty, and those of Overwritten are the ones the code saves over.    *)
UntouchedStays ==
  [][Saved /\ ~mine.typed /\ record' # record =>
       \/ <<form.name, field>> \in Overwritten
       \/ <<form.name, field>> \in Completed /\ mine.base \in {Blank, Zero}
       \/ form.writes = "row" /\ record' = mine.row
       \/ form.name \notin PartialForms /\ record' = mine.base]_formVars

(* Stored as typed, or the form or the endpoint makes something else of it:  *)
(* an empty secret or a field of Unclearable stays, text that is no number   *)
(* becomes zero or a preset, a field typed back to its old value may not be  *)
(* sent, and Dropped is nowhere stored.                                      *)
StoredAsTyped ==
  \/ mine.left = mine.want
  \/ mine.want = Blank /\ field \in Secrets
  \/ mine.want \in {Blank, Zero} /\ <<form.name, field>> \in Unclearable
  \/ mine.want \in {Blank, Junk} /\ mine.left = Zero /\ <<form.name, field>> \in Zeroed
  \/ mine.want \in {Blank, Junk, Zero} /\ mine.left = Preset /\ <<form.name, field>> \in Refilled
  \/ mine.want = mine.base
  \/ <<form.name, field>> \in Dropped

(* The success message of a save is true: every request of the save has been *)
(* answered, and the endpoint left in the record what the user had typed,    *)
(* but for the fields StoredAsTyped names.                                   *)
ToldIsStored ==
  told => /\ mine.at \in {"idle", "ok"} /\ rest \in {"idle", "ok"}
          /\ mine.typed => StoredAsTyped
=============================================================================
