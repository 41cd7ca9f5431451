------------------------------ MODULE EventFeed -----------------------------
(***************************************************************************)
(* What a topic of the SSE hub promises: one stream to the router while    *)
(* somebody watches, and every watcher is shown entries of the router,     *)
(* each at most once, only entries that stream read, and those of one      *)
(* stream in the order the router wrote them.  It does not promise every   *)
(* entry.  src/api/sse and src/web/src/lib/api/sse.ts implement it, see    *)
(* StreamSafety.                                                           *)
(***************************************************************************)
EXTENDS Naturals, Sequences

CONSTANT Channels

VARIABLES
  watching,   \* channels that are subscribed
  on,         \* the router's stream runs
  run,        \* how many times it was started
  era,        \* for each entry, the run that read it; 0: none did
  shown       \* entries shown through each channel

feedVars == <<watching, on, run, era, shown>>

Init ==
  /\ watching = {}
  /\ on = FALSE
  /\ run = 0
  /\ era = << >>
  /\ shown = [c \in Channels |-> {}]

(* The first watcher starts the stream. *)
Join(c) ==
  /\ c \notin watching
  /\ watching' = watching \cup {c}
  /\ on' = TRUE
  /\ run' = IF on THEN run ELSE run + 1
  /\ UNCHANGED <<era, shown>>

(* The last one stops it. *)
Leave(c) ==
  /\ c \in watching
  /\ watching' = watching \ {c}
  /\ on' = (watching' # {})
  /\ shown' = [shown EXCEPT ![c] = {}]
  /\ UNCHANGED <<run, era>>

(* The router writes an entry; the stream may miss it. *)
Write ==
  /\ \E r \in IF on THEN {0, run} ELSE {0} : era' = Append(era, r)
  /\ UNCHANGED <<watching, on, run, shown>>

Show(c, e) ==
  /\ c \in watching
  /\ era[e] # 0
  /\ e \notin shown[c]
  /\ \A f \in shown[c] : era[f] = era[e] => f < e
  /\ shown' = [shown EXCEPT ![c] = @ \cup {e}]
  /\ UNCHANGED <<watching, on, run, era>>

Next ==
  \/ Write
  \/ \E c \in Channels :
       Join(c) \/ Leave(c) \/ (\E e \in DOMAIN era : Show(c, e))

Spec == Init /\ [][Next]_feedVars
=============================================================================
