----------------------------- MODULE MCPayments -----------------------------
(* An instance of PaymentSettlement for TLC; settlement.cfg gives the rest. *)
EXTENDS PaymentSettlement, TLC

CONSTANTS i1, w1, w2

OneInvoice == {i1}
TwoWorkers == {w1, w2}
AllOps == OpNames

\* Two workers are exchangeable; no temporal property is checked with it.
WorkerSymmetry == Permutations(TwoWorkers)
=============================================================================
