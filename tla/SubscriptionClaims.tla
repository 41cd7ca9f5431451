------------------------- MODULE SubscriptionClaims -------------------------
(***************************************************************************)
(* What the repository says of the synchronisation of subscriptions, and   *)
(* the progress it makes under the fairness of its tickers.                *)
(***************************************************************************)
EXTENDS SubscriptionDrift

\* The outbox ticks every 10 seconds and a handler or job that is under way runs on:
\* their steps are taken when they stay possible.  Nothing else has to happen.
Progress ==
  /\ WF_driftVars(OutboxStep /\ DriftNext)
  /\ \A w \in Workers : WF_driftVars(WorkStep(w) /\ DriftNext)

FairSpec == DriftSpec /\ Progress

-----------------------------------------------------------------------------
\* Every row ends up applied, given up on, deleted or with a named cause of drift:
\* retries on a failing device end, a batch that is smaller than the backlog starves
\* no row, and no interleaving loses the intent silently (OutboxJob.Run, escalate).
Converges ==
  \A s \in Subs :
    row[s].live ~> \/ ~row[s].live \/ excused[s] \/ row[s].sync = "error"
                   \/ row[s].sync = "synced" /\ Agrees(row[s], secret[s])

-----------------------------------------------------------------------------
\* "Tetap konsisten walau router offline": a row that is synced and that nobody is
\* working on is what the router has (docs/ARCHITECTURE.md, the outbox principle).
SyncedMeansApplied ==
  \A s \in Subs : row[s].live /\ row[s].sync = "synced" /\ Quiet(s) => Agrees(row[s], secret[s])
=============================================================================
