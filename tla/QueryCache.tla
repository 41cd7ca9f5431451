----------------------------- MODULE QueryCache -----------------------------
(***************************************************************************)
(* What the web client shows of the server's data (TanStack Query, set up  *)
(* in src/web/src/main.tsx, and the hooks of src/web/src/features).        *)
(* A behaviour is about one mutation hook and one query hook of the same   *)
(* site whose tables overlap: the user sends the mutation, other users     *)
(* write the same tables, the query is mounted and unmounted as the user   *)
(* moves between screens, and requests are answered late, fail or get      *)
(* lost.  The server's rows are a version number.                          *)
(***************************************************************************)
EXTENDS Naturals, Sequences

CONSTANTS
  Queries, Mutations,   \* the hooks, as WebApi's Query and Mutation describe them
  Sites,                \* sets of screens one session can visit
  Layout,               \* names of the queries every screen of a site mounts
  MaxWrites             \* bound on the writes of a behaviour

ASSUME MaxWritesAssumption == MaxWrites \in Nat

VARIABLES
  mutation, query,      \* the two hooks; they never change
  db,                   \* version of the server's rows
  entry,                \* the cache entry: has data, its version, invalidated or too old
  mounted,              \* a component observes the entry
  fetch,                \* the request that fills the entry
  call,                 \* the mutation's request
  acked                 \* the newest write whose success the user was told

hooks == <<mutation, query>>
cacheVars == <<entry, fetch>>
vars == <<mutation, query, db, entry, mounted, fetch, call, acked>>

Version == 0..MaxWrites
Cause == {"none", "overtaken", "failed"}

(* why: how the entry came to be older than a write it was told of. *)
Entry == [has : BOOLEAN, ver : Version, stale : BOOLEAN, why : Cause]
Empty == [has |-> FALSE, ver |-> 0, stale |-> FALSE, why |-> "none"]
Fresh(v, cause) == [has |-> TRUE, ver |-> v, stale |-> FALSE, why |-> cause]
NoFetch == [at |-> "none", ver |-> 0, late |-> FALSE]
Asked == [at |-> "asked", ver |-> 0, late |-> FALSE]
NoCall == [at |-> "none", ver |-> 0]

(* partialMatchKey: a key names every query it is a prefix of. *)
Matches(prefix, key) ==
  Len(prefix) <= Len(key) /\ SubSeq(key, 1, Len(prefix)) = prefix

Invalidates(m, q) == \E key \in m.keys : Matches(key, q.key)

(* The pairs worth following: same site, overlapping tables. *)
Uses(site) == Layout \cup UNION {s.uses : s \in site}
Offers(site) == UNION {s.offers : s \in site}
Overlap(m, q) ==
  /\ m.writes \cap q.reads # {}
  /\ \E site \in Sites : m.name \in Offers(site) /\ q.name \in Uses(site)

TypeOK ==
  /\ mutation \in Mutations
  /\ query \in Queries
  /\ db \in Version
  /\ entry \in Entry
  /\ mounted \in BOOLEAN
  /\ fetch \in [at : {"none", "asked", "read"}, ver : Version, late : BOOLEAN]
  /\ call \in [at : {"none", "sent", "applied"}, ver : Version]
  /\ acked \in Version

Init ==
  /\ mutation \in Mutations
  /\ query \in {q \in Queries : Overlap(mutation, q)}
  /\ db = 0
  /\ entry = Empty
  /\ mounted = FALSE
  /\ fetch = NoFetch
  /\ call = NoCall
  /\ acked = 0

-----------------------------------------------------------------------------
(* A request in flight is joined, never doubled. *)
StartFetch == fetch' = IF fetch.at = "none" THEN Asked ELSE fetch

(* A screen with the hook is opened: the entry is fetched when it is missing *)
(* or stale (staleTime, refetchOnMount).                                     *)
Mount ==
  /\ ~mounted
  /\ mounted' = TRUE
  /\ IF entry.has /\ ~entry.stale THEN UNCHANGED fetch ELSE StartFetch
  /\ UNCHANGED <<hooks, db, entry, call, acked>>

(* The last component with the hook goes; its request runs on. *)
Unmount ==
  /\ mounted
  /\ query.name \notin Layout
  /\ mounted' = FALSE
  /\ UNCHANGED <<hooks, db, cacheVars, call, acked>>

(* staleTime (10 s, or what the hook says) has passed. *)
Age ==
  /\ entry.has /\ ~entry.stale
  /\ entry' = [entry EXCEPT !.stale = TRUE]
  /\ UNCHANGED <<hooks, db, mounted, fetch, call, acked>>

(* The window gets the focus: stale entries on display are fetched. *)
Focus ==
  /\ mounted
  /\ entry.stale
  /\ StartFetch
  /\ UNCHANGED <<hooks, db, entry, mounted, call, acked>>

(* A faulty form: the timer fetches what is too old, and keeps it until then. *)
PollWhenStale ==
  /\ query.poll
  /\ mounted
  /\ entry.stale
  /\ StartFetch
  /\ UNCHANGED <<hooks, db, entry, mounted, call, acked>>

(* refetchInterval. *)
Poll ==
  /\ query.poll
  /\ mounted
  /\ StartFetch
  /\ UNCHANGED <<hooks, db, entry, mounted, call, acked>>

(* The entry of an unmounted query is collected after gcTime. *)
Collect ==
  /\ ~mounted
  /\ entry.has
  /\ fetch.at = "none"
  /\ entry' = Empty
  /\ UNCHANGED <<hooks, db, mounted, fetch, call, acked>>

-----------------------------------------------------------------------------
ServerRead ==
  /\ fetch.at = "asked"
  /\ fetch' = [fetch EXCEPT !.at = "read", !.ver = db]
  /\ UNCHANGED <<hooks, db, entry, mounted, call, acked>>

FetchAnswered ==
  /\ fetch.at = "read"
  /\ entry' = Fresh(fetch.ver, IF fetch.late THEN "overtaken" ELSE "none")
  /\ fetch' = NoFetch
  /\ UNCHANGED <<hooks, db, mounted, call, acked>>

(* All retries failed.  Data that is there stays, marked as invalidated. *)
FetchFailed ==
  /\ fetch.at # "none"
  /\ fetch' = NoFetch
  /\ entry' = IF entry.has THEN [entry EXCEPT !.stale = TRUE, !.why = "failed"] ELSE entry
  /\ UNCHANGED <<hooks, db, mounted, call, acked>>

(* Somebody else writes the tables. *)
OthersWrite ==
  /\ db < MaxWrites
  /\ db' = db + 1
  /\ UNCHANGED <<hooks, cacheVars, mounted, call, acked>>

-----------------------------------------------------------------------------
(* The submit button is disabled while a request is pending. *)
Send ==
  /\ call.at = "none"
  /\ call' = [at |-> "sent", ver |-> 0]
  /\ UNCHANGED <<hooks, db, cacheVars, mounted, acked>>

(* A faulty form: a request repeated by the transport is applied twice. *)
AppliedTwice ==
  /\ call.at = "sent"
  /\ db < MaxWrites
  /\ db' = db + 2
  /\ call' = [at |-> "applied", ver |-> db + 2]
  /\ UNCHANGED <<hooks, cacheVars, mounted, acked>>

Applied ==
  /\ call.at = "sent"
  /\ db < MaxWrites
  /\ db' = db + 1
  /\ call' = [at |-> "applied", ver |-> db + 1]
  /\ UNCHANGED <<hooks, cacheVars, mounted, acked>>

(* The server refuses, or the client gives up after its timeout of 30 s,     *)
(* whether or not the write was applied: nothing is invalidated.  A write    *)
(* applied after that is one of OthersWrite.                                 *)
MutationFailed ==
  /\ call.at # "none"
  /\ call' = NoCall
  /\ UNCHANGED <<hooks, db, cacheVars, mounted, acked>>

(* setQueryData and removeQueries of the hook's onSuccess. *)
Seeded ==
  IF query.key \in mutation.sets
    THEN Fresh(call.ver, "none")
    ELSE IF query.key \in mutation.drops THEN Empty ELSE entry

(* A faulty form: an entry on display is marked and not fetched (refetchType none). *)
InvalidateMarkOnly(e) ==
  /\ entry' = [e EXCEPT !.stale = TRUE]
  /\ fetch' = fetch

(* invalidateQueries marks the entry.  On display it is fetched at once: a   *)
(* request in flight is cancelled if the entry has data, and joined if it    *)
(* has none.  Off display a request in flight runs on.  What such a request  *)
(* has read already is older than the write.                                 *)
Invalidate(e) ==
  /\ entry' = [e EXCEPT !.stale = TRUE]
  /\ fetch' = IF mounted /\ (e.has \/ fetch.at = "none")
                THEN Asked
                ELSE [fetch EXCEPT !.late = (fetch.at = "read")]

Succeeded ==
  /\ call.at = "applied"
  /\ acked' = call.ver
  /\ call' = NoCall
  /\ IF Invalidates(mutation, query)
       THEN Invalidate(Seeded)
       ELSE entry' = Seeded /\ UNCHANGED fetch
  /\ UNCHANGED <<hooks, db, mounted>>

Next ==
  \/ Mount \/ Unmount \/ Age \/ Focus \/ Poll \/ Collect
  \/ ServerRead \/ FetchAnswered \/ FetchFailed \/ OthersWrite
  \/ Send \/ Applied \/ MutationFailed \/ Succeeded

(* A timer runs while its component is mounted, and the server answers again *)
(* and again; a single request may fail.                                     *)
Fairness == WF_vars(Poll) /\ SF_vars(ServerRead) /\ SF_vars(FetchAnswered)

Spec == Init /\ [][Next]_vars /\ Fairness
=============================================================================
