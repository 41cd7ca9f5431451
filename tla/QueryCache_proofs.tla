-------------------------- MODULE QueryCache_proofs -------------------------
(***************************************************************************)
(* TypeOK and OwnWritesShown for every set of hooks, every layout and      *)
(* every number of writes.                                                 *)
(***************************************************************************)
EXTENDS WebFreshness, TLAPS

Covered == Invalidates(mutation, query)

(* The server's version is at least what the client has been told. *)
ToldIsWritten ==
  /\ acked <= db
  /\ call.at = "applied" => call.ver <= db

(* An answer on its way that no invalidation has overtaken is new enough. *)
AnswerIsNew ==
  Covered /\ fetch.at = "read" /\ ~fetch.late => fetch.ver >= acked

(* An entry that is not marked is new enough, and a marked one on display    *)
(* has a request that will replace it.                                       *)
UnmarkedIsNew ==
  Covered /\ entry.has /\ entry.why = "none" /\ (~entry.stale \/ (mounted /\ fetch.at = "none"))
    => entry.ver >= acked

IInv == TypeOK /\ ToldIsWritten /\ AnswerIsNew /\ UnmarkedIsNew

-----------------------------------------------------------------------------
(* The first state: no entry, no request, nothing told. *)
LEMMA CacheInit == Init => IInv
<1> SUFFICES ASSUME Init PROVE IInv
    OBVIOUS
<1>1. 0 \in Version
    BY MaxWritesAssumption DEF Version
<1>2. Empty \in Entry /\ ~Empty.has
    BY <1>1 DEF Empty, Entry, Cause
<1>3. TypeOK
    BY <1>1, <1>2 DEF Init, TypeOK, NoFetch, NoCall
<1>4. ToldIsWritten /\ AnswerIsNew /\ UnmarkedIsNew
    BY <1>2 DEF Init, ToldIsWritten, AnswerIsNew, UnmarkedIsNew, NoFetch, NoCall
<1> QED BY <1>3, <1>4 DEF IInv

(* A success marks the entry, and fetches it when it is on display. *)
LEMMA SucceededKeeps == IInv /\ Succeeded => IInv'
<1> SUFFICES ASSUME IInv, Succeeded PROVE IInv'
    OBVIOUS
<1> USE MaxWritesAssumption
<1>1. Seeded \in Entry
    BY DEF IInv, TypeOK, Seeded, Fresh, Empty, Entry, Cause, Version
<1>a. fetch' \in [at : {"none", "asked", "read"}, ver : Version, late : BOOLEAN]
  <2>1. Asked \in [at : {"none", "asked", "read"}, ver : Version, late : BOOLEAN]
      BY DEF Asked, Version
  <2>2. \A b \in BOOLEAN : [fetch EXCEPT !.late = b]
                               \in [at : {"none", "asked", "read"}, ver : Version, late : BOOLEAN]
      BY DEF IInv, TypeOK
  <2>3. (fetch.at = "read") \in BOOLEAN
      OBVIOUS
  <2> QED BY <2>1, <2>2, <2>3 DEF IInv, TypeOK, Succeeded, Invalidate
<1>b. entry' \in Entry
  <2>1. [Seeded EXCEPT !.stale = TRUE] \in Entry
      BY <1>1 DEF Entry
  <2> QED BY <1>1, <2>1 DEF Succeeded, Invalidate
<1>2. TypeOK'
    BY <1>a, <1>b DEF IInv, TypeOK, Succeeded, Version, NoCall, hooks
<1>3. ToldIsWritten'
    BY DEF IInv, TypeOK, ToldIsWritten, Succeeded, NoCall, Version
<1>4. Covered' = Covered
    BY DEF Covered, Succeeded, hooks
<1>5. ASSUME Covered PROVE AnswerIsNew'
  <2>1. fetch' = Asked \/ fetch' = [fetch EXCEPT !.late = (fetch.at = "read")]
      BY <1>5 DEF Covered, Succeeded, Invalidate
  <2>2. CASE fetch' = Asked
      BY <2>2 DEF AnswerIsNew, Asked
  <2>3. CASE fetch' = [fetch EXCEPT !.late = (fetch.at = "read")]
    <3>1. fetch'.at = fetch.at /\ fetch'.late = (fetch.at = "read")
        BY <2>3 DEF IInv, TypeOK
    <3> QED BY <3>1 DEF AnswerIsNew
  <2> QED BY <2>1, <2>2, <2>3
<1>6. ASSUME Covered PROVE UnmarkedIsNew'
    BY <1>6, <1>1 DEF Covered, IInv, TypeOK, UnmarkedIsNew, Succeeded, Invalidate, Asked, Entry
<1>7. CASE ~Covered
    BY <1>2, <1>3, <1>4, <1>7 DEF IInv, AnswerIsNew, UnmarkedIsNew
<1> QED BY <1>2, <1>3, <1>5, <1>6, <1>7 DEF IInv

(* Screens, timers and the focus. *)
LEMMA ScreenKeeps == IInv /\ (Mount \/ Unmount \/ Age \/ Focus \/ Poll \/ Collect) => IInv'
<1> SUFFICES ASSUME IInv, Mount \/ Unmount \/ Age \/ Focus \/ Poll \/ Collect PROVE IInv'
    OBVIOUS
<1> USE MaxWritesAssumption
        DEF IInv, TypeOK, ToldIsWritten, AnswerIsNew, UnmarkedIsNew, Covered, hooks, cacheVars,
            StartFetch, Asked, Version
<1>1. CASE Mount
  <2>1. fetch' = fetch \/ fetch' = Asked
      BY <1>1 DEF Mount
  <2>2. TypeOK'
    <3>1. mounted' \in BOOLEAN /\ UNCHANGED <<mutation, query, db, entry, call, acked>>
        BY <1>1 DEF Mount
    <3>2. Asked \in [at : {"none", "asked", "read"}, ver : Version, late : BOOLEAN]
        OBVIOUS
    <3> QED BY <2>1, <3>1, <3>2
  <2>3. AnswerIsNew' /\ ToldIsWritten'
      BY <1>1, <2>1 DEF Mount
  <2>4. UnmarkedIsNew'
    <3>1. CASE entry.has /\ ~entry.stale
        BY <1>1, <3>1 DEF Mount
    <3>2. CASE ~(entry.has /\ ~entry.stale)
      <4>1. fetch'.at # "none"
          BY <1>1, <3>2 DEF Mount
      <4> QED BY <1>1, <3>2, <4>1 DEF Mount
    <3> QED BY <3>1, <3>2
  <2> QED BY <2>2, <2>3, <2>4
<1>2. CASE Unmount
    BY <1>2 DEF Unmount
<1>3. CASE Age
    BY <1>3 DEF Age, Entry
<1>4. CASE Focus
    BY <1>4 DEF Focus
<1>5. CASE Poll
    BY <1>5 DEF Poll
<1>6. CASE Collect
    BY <1>6 DEF Collect, Empty, Entry, Cause
<1> QED BY <1>1, <1>2, <1>3, <1>4, <1>5, <1>6

(* The request of the query. *)
LEMMA FetchKeeps == IInv /\ (ServerRead \/ FetchAnswered \/ FetchFailed) => IInv'
<1> SUFFICES ASSUME IInv, ServerRead \/ FetchAnswered \/ FetchFailed PROVE IInv'
    OBVIOUS
<1> USE MaxWritesAssumption
        DEF IInv, TypeOK, ToldIsWritten, AnswerIsNew, UnmarkedIsNew, Covered, hooks, cacheVars,
            NoFetch, Version
<1>1. CASE ServerRead
    BY <1>1 DEF ServerRead
<1>2. CASE FetchAnswered
  <2>1. \A w \in Cause : Fresh(fetch.ver, w) \in Entry
      BY DEF Fresh, Entry
  <2>2. TypeOK'
      BY <1>2, <2>1 DEF FetchAnswered, Cause
  <2>3. /\ fetch'.at = "none"
        /\ entry'.ver = fetch.ver
        /\ entry'.why = "none" => ~fetch.late
      BY <1>2 DEF FetchAnswered, Fresh
  <2>4. UnmarkedIsNew'
      BY <1>2, <2>3 DEF FetchAnswered
  <2>5. ToldIsWritten' /\ AnswerIsNew'
      BY <1>2, <2>3 DEF FetchAnswered
  <2> QED BY <2>2, <2>4, <2>5
<1>3. CASE FetchFailed
  <2>1. [entry EXCEPT !.stale = TRUE, !.why = "failed"] \in Entry
      BY DEF Entry, Cause
  <2>2. TypeOK'
      BY <1>3, <2>1 DEF FetchFailed
  <2>3. ToldIsWritten' /\ AnswerIsNew'
      BY <1>3 DEF FetchFailed
  <2>4. entry'.has => entry'.why = "failed"
      BY <1>3 DEF FetchFailed, Entry
  <2> QED BY <2>2, <2>3, <2>4
<1> QED BY <1>1, <1>2, <1>3

(* Writes, the user's own and those of others. *)
LEMMA WriteKeeps == IInv /\ (OthersWrite \/ Send \/ Applied \/ MutationFailed) => IInv'
<1> SUFFICES ASSUME IInv, OthersWrite \/ Send \/ Applied \/ MutationFailed PROVE IInv'
    OBVIOUS
<1> USE MaxWritesAssumption
        DEF IInv, TypeOK, ToldIsWritten, AnswerIsNew, UnmarkedIsNew, Covered, hooks, cacheVars,
            NoCall, Version
<1>1. CASE OthersWrite
    BY <1>1 DEF OthersWrite
<1>2. CASE Send
    BY <1>2 DEF Send
<1>3. CASE Applied
    BY <1>3 DEF Applied
<1>4. CASE MutationFailed
    BY <1>4 DEF MutationFailed
<1> QED BY <1>1, <1>2, <1>3, <1>4

LEMMA CacheInductive == Spec => []IInv
<1>1. IInv /\ UNCHANGED vars => IInv'
    BY DEF IInv, TypeOK, ToldIsWritten, AnswerIsNew, UnmarkedIsNew, Covered, vars
<1>2. IInv /\ [Next]_vars => IInv'
    BY <1>1, SucceededKeeps, ScreenKeeps, FetchKeeps, WriteKeeps DEF Next
<1> QED BY CacheInit, <1>2, PTL DEF Spec

-----------------------------------------------------------------------------
(* Entries, requests and versions keep their types; no request is applied    *)
(* twice.                                                                    *)
THEOREM CacheType == Spec => []TypeOK
<1>1. IInv => TypeOK
    BY DEF IInv
<1> QED BY CacheInductive, <1>1, PTL

(* Every screen at rest shows the writes its user was told of, wherever the  *)
(* hook invalidates the query's key: useMutation's onSuccess and Query.fetch *)
(* leave no order of answers, mounts, timers and failures in which it does   *)
(* not, but the two that entry.why names.                                    *)
THEOREM OwnWritesAreShown == Spec => []OwnWritesShown
<1>1. IInv => OwnWritesShown
    BY DEF IInv, UnmarkedIsNew, OwnWritesShown, Settled, Covered
<1> QED BY CacheInductive, <1>1, PTL

(* The hooks of a behaviour meet on a site, and stay. *)
LEMMA HooksMeet == Spec => []Overlap(mutation, query)
<1>1. Init => Overlap(mutation, query)
    BY DEF Init
<1>2. [Next]_vars => UNCHANGED hooks
    BY DEF Next, Mount, Unmount, Age, Focus, Poll, Collect, ServerRead, FetchAnswered,
           FetchFailed, OthersWrite, Send, Applied, MutationFailed, Succeeded, vars, hooks
<1>3. Overlap(mutation, query) /\ [Next]_vars => Overlap(mutation, query)'
    BY <1>2 DEF hooks, Overlap, Uses, Offers
<1> QED BY <1>1, <1>3, PTL DEF Spec

(* Stale screens come from missing invalidations alone: with hooks that      *)
(* invalidate every query they change but for KnownGaps, no interleaving     *)
(* leaves another screen at rest on data older than its user's write.        *)
THEOREM StaleInGapsOnly ==
  ASSUME GapsAreListed
  PROVE  Spec => []StaleOnlyInGaps
<1>1. ASSUME IInv, Overlap(mutation, query)
      PROVE  StaleOnlyInGaps
  <2>1. OwnWritesShown
      BY <1>1 DEF IInv, UnmarkedIsNew, OwnWritesShown, Settled, Covered
  <2>2. mutation \in Mutations /\ query \in Queries
      BY <1>1 DEF IInv, TypeOK
  <2>3. entry.ver < acked => ~(entry.ver >= acked)
      BY <1>1 DEF IInv, TypeOK, Entry, Version
  <2>4. Invalidates(mutation, query) \/ <<mutation.name, query.name>> \in KnownGaps
      BY <1>1, <2>2, GapsAreListed DEF GapsAreListed
  <2> QED BY <2>1, <2>3, <2>4 DEF StaleOnlyInGaps, OwnWritesShown
<1> QED BY CacheInductive, HooksMeet, <1>1, PTL
=============================================================================
