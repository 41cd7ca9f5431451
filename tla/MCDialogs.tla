------------------------------ MODULE MCDialogs -----------------------------
(* DialogSafety on the dialogs of the whole web client. *)
EXTENDS DialogSafety, WebCatalog
=============================================================================
