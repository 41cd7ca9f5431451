---------------------------- MODULE TableSafety -----------------------------
(* Which records a bulk action of a table is for, and which rows it shows. *)
EXTENDS Tables

(* What the properties need to know of the catalogue: who keeps the page in  *)
(* the address also keeps it in range, only the sales report leaves it to    *)
(* the server, and only the PPP secrets keep their ticks.                    *)
ASSUME TableCatalogueAssumption ==
  \A t \in AllTables :
    /\ t.paging \in {"one", "local", "url", "server"}
    /\ t.paging = "url" => t.inRange
    /\ t.paging = "server" => t.name = "sales"
    /\ t.bulk = "click" /\ ~t.clears => t.name = "ppp-secrets"

(* A bulk action is offered for records the user ticked since the last one,  *)
(* as long as the rows keep their places.  The PPP secrets keep their ticks  *)
(* after a bulk delete, which the rows that follow inherit.                  *)
SelectedIsChosen ==
  Selected \subseteq chosen \/ moved \/ table.name = "ppp-secrets"

(* The page on display has rows when any row passes the filter.  The sales   *)
(* report stays on a page the server no longer has.                          *)
PageHasRows ==
  Filtered(data, filter) # {} =>
    (\E i \in DOMAIN data : OnPage(i)) \/ table.name = "sales"
=============================================================================
