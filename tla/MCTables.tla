------------------------------ MODULE MCTables ------------------------------
(* TableSafety on the tables of the whole web client. *)
EXTENDS TableSafety, WebCatalog
=============================================================================
