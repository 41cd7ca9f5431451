---------------------------- MODULE StreamSafety ----------------------------
(* What a live stream promises to the pages that follow it. *)
EXTENDS LiveStream

(* The broker and useSSE as an EventFeed. *)
Feed == INSTANCE EventFeed WITH
  watching <- subs,
  on <- broker.running,
  run <- broker.run,
  era <- [e \in 1..written |-> pub[e].run]

(* The broker and useSSE implement EventFeed: one stream to the router while *)
(* a connection is subscribed, however connections come and go, and a        *)
(* connection gets an entry at most once and those of one stream in order,   *)
(* although Publish sends outside the lock.                                  *)
ImplementsFeed == Feed!Spec

(* An entry is on its way to channel c. *)
Underway(c, e) ==
  pub[e].at = "read" \/ c \in pub[e].to \/ e \in ToSet(queue[c])

(* An entry written while a page is subscribed reaches the page, unless the  *)
(* channel was full (Publish drops it without a word), the link to the       *)
(* router was down or an update had closed the client the stream runs on.    *)
MissingIsExplained ==
  \A c \in subs, e \in Entries :
    since[c] < e /\ e <= written /\ ~Gone(c) =>
      e \in shown[c] \/ Underway(c, e) \/ e \in dropped[c] \/ e \in unheard

-----------------------------------------------------------------------------
Hears(p) == page[p].at = "open" /\ page[p].ch \in subs /\ Hearing

(* The broker keeps the client of the first request: once an update of the   *)
(* router has closed it, nothing starts the stream again.                    *)
Severed == device.cur = None \/ broker.bound \notin alive \cup {None}

(* Streams of other topics have taken what the router's cap has left. *)
Crowded == others > 0 /\ Cardinality(held) + others >= MaxPerDevice

(* A page that stays open hears the router in the end, through lost          *)
(* connections, starts that fail, refusals over the cap and the reservations *)
(* of connections that are gone, unless the router is gone or the broker's   *)
(* client is, other streams keep filling the cap of the router, or the       *)
(* stored token is past its time whenever the page looks.                    *)
ComesBack ==
  \A p \in Pages :
    <>[](page[p].at # "away") =>
      <>[]Hears(p) \/ <>[]Severed \/ []<>Crowded \/ []<>(p \in stale)
=============================================================================
