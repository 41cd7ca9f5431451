----------------------------- MODULE MCBilling -----------------------------
(* Instances of BillingSchedule for TLC. *)
EXTENDS BillingSchedule, Sequences

Gregorian == <<31, 28, 31, 30, 31, 30, 31, 31, 30, 31, 30, 31>>
EndOfJanuary == {[m |-> 0, d |-> 27], [m |-> 0, d |-> 31]}
AllOps == OpNames
=============================================================================
