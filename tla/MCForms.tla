------------------------------- MODULE MCForms ------------------------------
(* FormSafety on the forms of the whole web client. *)
EXTENDS FormSafety, WebCatalog
=============================================================================
