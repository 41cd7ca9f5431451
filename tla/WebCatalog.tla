----------------------------- MODULE WebCatalog -----------------------------
(* The hooks, screens, dialogs, forms and tables of the whole web client. *)
EXTENDS WebApiRouter, WebApiOffice, UiHotspot, UiPpp, UiVoucher, UiOffice, UiAdmin, UiPortal

WebQueries == RouterQueries \cup OfficeQueries
WebMutations == RouterMutations \cup OfficeMutations

StaffScreens ==
  HotspotScreens \cup PPPScreens \cup VoucherScreens \cup OfficeScreens \cup AdminScreens
StaffDialogs ==
  HotspotDialogs \cup PPPDialogs \cup VoucherDialogs \cup OfficeDialogs \cup AdminDialogs
WebDialogs == StaffDialogs \cup PortalDialogs
WebForms == HotspotForms \cup PPPForms \cup VoucherForms \cup OfficeForms \cup AdminForms
WebTables == HotspotTables \cup PPPTables \cup VoucherTables \cup OfficeTables \cup AdminTables

(* A dialog offers what it sends. *)
DialogScreens(dialogs) == {Screen(d.name, {}, d.sends) : d \in dialogs}

WebSites ==
  {StaffScreens \cup DialogScreens(StaffDialogs), PortalScreens \cup DialogScreens(PortalDialogs)}

(* Every hook a screen or dialog names is one of the hooks, and every dialog *)
(* a screen opens is one of the dialogs.                                     *)
ASSUME NamesExist ==
  \A site \in WebSites :
    /\ UNION {s.uses : s \in site} \subseteq {q.name : q \in WebQueries}
    /\ UNION {s.offers : s \in site} \subseteq {m.name : m \in WebMutations}
    /\ UNION {s.opens : s \in site} \subseteq {s.name : s \in site}
=============================================================================
