----------------------------- MODULE LiveStream -----------------------------
(***************************************************************************)
(* One topic of the SSE hub, as the log of one router, from the device     *)
(* manager to the pages that follow it: service/devmgr keeps the router's  *)
(* client, api/sse the reservations, the broker and the channels,          *)
(* api/handler/stream.go serves a connection, and lib/api/sse.ts (useSSE)  *)
(* holds one connection per page and opens the next one when it is lost.   *)
(* An entry the router writes is its number.                               *)
(***************************************************************************)
EXTENDS Naturals, Sequences, FiniteSets

CONSTANTS
  Pages,
  MaxChannels,    \* connections there can be at one time
  QueueSize,      \* the buffer of a channel (32)
  MaxPerTopic,    \* the caps of Reserve, for the topic
  MaxPerDevice,   \* and for all topics of the router
  MaxWritten,     \* bound on the entries the router writes
  MaxUpsets       \* bound on what disturbs: lost connections, pages left, updates of the
                  \* router, starts that fail, tokens that expire, streams of other topics

ASSUME StreamAssumption ==
  /\ {MaxChannels, QueueSize, MaxPerTopic, MaxPerDevice} \subseteq Nat \ {0}
  /\ {MaxWritten, MaxUpsets} \subseteq Nat

VARIABLES
  written,        \* entries the router has written
  device,         \* the device manager: the client in its map, clients made, dials under way
  alive,          \* clients that are not closed
  broker,         \* bound: the client of startFn; started; running: the stream is registered
  subs, held,     \* subs of the broker and the reservations, as sets of channels
  queue,          \* what is in each channel
  pub,            \* the callback of each entry: the run that read it, whom it sends to
  conn,           \* the handler that serves each channel
  page,           \* useSSE of each page
  shown,          \* entries that reached a page through each channel
  since,          \* entries there were when the channel was subscribed
  dropped,        \* entries the full channel has lost
  unheard,        \* entries the stream missed: the link was down or the client closed
  stale,          \* pages whose stored access token is past its time
  others,         \* reservations of other topics of the router
  upsets

router == <<written, device, alive, stale, others>>
vars == <<written, device, alive, stale, others, broker, subs, held, queue, pub, conn, page, shown,
          since, dropped, unheard, upsets>>

Entries == 1..MaxWritten
Channels == 1..MaxChannels
MaxClients == MaxUpsets + 1
None == 0

ToSet(q) == {q[i] : i \in DOMAIN q}

Unread == [at |-> "none", run |-> 0, to |-> {}]
Unused == [at |-> "free", client |-> None]

Device == [cur : 0..MaxClients, made : 1..MaxClients, dialing : 0..MaxUpsets]
Broker == [bound : 0..MaxClients, started : BOOLEAN, running : BOOLEAN, run : Nat]
Callback == [at : {"none", "read", "sending", "done"}, run : Nat, to : SUBSET Channels]
Handler == [at : {"free", "denied", "asked", "reserved", "open"}, client : 0..MaxClients]
PageState == [at : {"away", "connecting", "open", "waiting"}, ch : Channels \cup {None}]

TypeOK ==
  /\ written \in 0..MaxWritten
  /\ device \in Device
  /\ alive \subseteq 1..MaxClients
  /\ broker \in Broker
  /\ subs \subseteq held
  /\ held \subseteq Channels
  /\ Cardinality(held) <= MaxPerTopic
  /\ Cardinality(held) + others <= MaxPerDevice
  /\ stale \subseteq Pages
  /\ others \in Nat
  /\ queue \in [Channels -> Seq(Entries)]
  /\ \A c \in Channels : Len(queue[c]) <= QueueSize
  /\ pub \in [Entries -> Callback]
  /\ conn \in [Channels -> Handler]
  /\ page \in [Pages -> PageState]
  /\ shown \in [Channels -> SUBSET Entries]
  /\ since \in [Channels -> 0..MaxWritten]
  /\ dropped \in [Channels -> SUBSET Entries]
  /\ unheard \subseteq Entries
  /\ upsets \in 0..MaxUpsets

(* The server is up and connected to the router; no page is open. *)
Init ==
  /\ written = 0
  /\ device = [cur |-> 1, made |-> 1, dialing |-> 0]
  /\ alive = {1}
  /\ broker = [bound |-> None, started |-> FALSE, running |-> FALSE, run |-> 0]
  /\ subs = {}
  /\ held = {}
  /\ queue = [c \in Channels |-> << >>]
  /\ pub = [e \in Entries |-> Unread]
  /\ conn = [c \in Channels |-> Unused]
  /\ page = [p \in Pages |-> [at |-> "away", ch |-> None]]
  /\ shown = [c \in Channels |-> {}]
  /\ since = [c \in Channels |-> 0]
  /\ dropped = [c \in Channels |-> {}]
  /\ unheard = {}
  /\ stale = {}
  /\ others = 0
  /\ upsets = 0

Upset == upsets < MaxUpsets /\ upsets' = upsets + 1

-----------------------------------------------------------------------------
(* The router and the device manager. *)

Hearing == broker.running /\ broker.bound \in alive

(* The stream is follow-only: it reads an entry when it is written, or never, *)
(* when the link to the router is down at that moment.                        *)
RouterWrites ==
  /\ written < MaxWritten
  /\ written' = written + 1
  /\ \/ /\ Hearing
        /\ pub' = [pub EXCEPT ![written'].at = "read", ![written'].run = broker.run]
        /\ UNCHANGED unheard
     \/ /\ unheard' = IF broker.running THEN unheard \cup {written'} ELSE unheard
        /\ UNCHANGED pub
  /\ UNCHANGED <<device, alive, stale, others, broker, subs, held, queue, conn, page, shown, since, dropped,
                 upsets>>

(* Devices.Update: RemoveAndWait takes the client out of the map and closes  *)
(* it, then connect dials, without the lock; two updates can overlap.        *)
UpdateDevice ==
  /\ Upset
  /\ device' = [device EXCEPT !.cur = None, !.dialing = @ + 1]
  /\ alive' = alive \ {device.cur}
  /\ UNCHANGED <<written, stale, others, broker, subs, held, queue, pub, conn, page, shown, since,
                 dropped, unheard>>

Dialled ==
  /\ device.dialing > 0
  /\ device' = [cur |-> device.made + 1, made |-> device.made + 1,
                dialing |-> device.dialing - 1]
  /\ alive' = alive \cup {device.made + 1}
  /\ UNCHANGED <<written, stale, others, broker, subs, held, queue, pub, conn, page, shown, since,
                 dropped, unheard, upsets>>

(* The update is answered with a warning; the router has no client. *)
DialFailed ==
  /\ device.dialing > 0
  /\ device' = [device EXCEPT !.dialing = @ - 1]
  /\ UNCHANGED <<written, alive, stale, others, broker, subs, held, queue, pub, conn, page, shown,
                 since, dropped, unheard, upsets>>

-----------------------------------------------------------------------------
(* Around the stream: the tokens of the pages and the other topics. *)

Around == <<written, device, alive, broker, subs, held, queue, pub, conn, page, shown, since,
            dropped, unheard>>

(* The access token in the store passes its time.  Only a request through    *)
(* apiClient replaces it, and a page that only streams makes none.           *)
TokenExpires(p) ==
  /\ Upset
  /\ stale' = stale \cup {p}
  /\ UNCHANGED <<Around, others>>

TokenReplaced(p) ==
  /\ p \in stale
  /\ stale' = stale \ {p}
  /\ UNCHANGED <<Around, others, upsets>>

(* Reserve and release for another topic of the router. *)
OtherReserves ==
  /\ Upset
  /\ Cardinality(held) + others < MaxPerDevice
  /\ others' = others + 1
  /\ UNCHANGED <<Around, stale>>

OtherReleases ==
  /\ others > 0
  /\ others' = others - 1
  /\ UNCHANGED <<Around, stale, upsets>>

-----------------------------------------------------------------------------
(* Broker.Publish, in the goroutine of one run of the stream, entry by entry. *)

(* The snapshot of the subscribers, under the lock. *)
PublishStarts(e) ==
  /\ pub[e].at = "read"
  /\ \A f \in 1..(e - 1) : pub[f].run = pub[e].run => pub[f].at = "done"
  /\ pub' = [pub EXCEPT ![e].at = IF subs = {} THEN "done" ELSE "sending", ![e].to = subs]
  /\ UNCHANGED <<router, broker, subs, held, queue, conn, page, shown, since, dropped,
                 unheard, upsets>>

(* A faulty form: the loop ends at a full channel. *)
PublishUntilFull(e, c) ==
  LET full == c \in subs /\ Len(queue[c]) >= QueueSize
      left == IF full THEN {} ELSE pub[e].to \ {c}
  IN /\ pub[e].at = "sending"
     /\ c \in pub[e].to
     /\ pub' = [pub EXCEPT ![e].to = left, ![e].at = IF left = {} THEN "done" ELSE @]
     /\ queue' = [queue EXCEPT ![c] = IF full \/ c \notin subs THEN @ ELSE Append(@, e)]
     /\ dropped' = [dropped EXCEPT ![c] = IF full THEN @ \cup {e} ELSE @]
     /\ UNCHANGED <<router, broker, subs, held, conn, page, shown, since, unheard, upsets>>

(* One send of the loop.  A full channel loses the event; a channel that has *)
(* left since the snapshot is read by nobody.                                *)
Publish(e, c) ==
  /\ pub[e].at = "sending"
  /\ c \in pub[e].to
  /\ pub' = [pub EXCEPT ![e].to = @ \ {c}, ![e].at = IF pub[e].to = {c} THEN "done" ELSE @]
  /\ \/ /\ c \in subs
        /\ Len(queue[c]) < QueueSize
        /\ queue' = [queue EXCEPT ![c] = Append(@, e)]
        /\ UNCHANGED dropped
     \/ /\ c \in subs
        /\ Len(queue[c]) >= QueueSize
        /\ dropped' = [dropped EXCEPT ![c] = @ \cup {e}]
        /\ UNCHANGED queue
     \/ /\ c \notin subs
        /\ UNCHANGED <<queue, dropped>>
  /\ UNCHANGED <<router, broker, subs, held, conn, page, shown, since, unheard, upsets>>

-----------------------------------------------------------------------------
(* A handler of stream.go. *)

(* The browser sees the answer, unless it has closed the connection. *)
Answer(c, next) == page' = [p \in Pages |-> IF page[p].ch = c THEN next ELSE page[p]]
Failed == [at |-> "waiting", ch |-> None]

(* A faulty form: the cap is compared one too high. *)
ReserveOneMore(c) ==
  /\ conn[c].at = "asked"
  /\ device.cur # None
  /\ Cardinality(held) <= MaxPerTopic
  /\ Cardinality(held) + others < MaxPerDevice
  /\ held' = held \cup {c}
  /\ conn' = [conn EXCEPT ![c] = [at |-> "reserved", client |-> device.cur]]
  /\ UNCHANGED <<router, broker, subs, queue, pub, page, shown, since, dropped, unheard,
                 upsets>>

(* The middleware has taken the router's client for the request. *)
Reserve(c) ==
  /\ conn[c].at = "asked"
  /\ device.cur # None
  /\ Cardinality(held) < MaxPerTopic
  /\ Cardinality(held) + others < MaxPerDevice
  /\ held' = held \cup {c}
  /\ conn' = [conn EXCEPT ![c] = [at |-> "reserved", client |-> device.cur]]
  /\ UNCHANGED <<router, broker, subs, queue, pub, page, shown, since, dropped, unheard,
                 upsets>>

(* 401 for a token past its time, 503 without a client, 429 over a cap:      *)
(* onerror of useSSE, which does not tell them apart.                        *)
Refuse(c) ==
  /\ \/ conn[c].at = "denied"
     \/ /\ conn[c].at = "asked"
        /\ \/ device.cur = None
           \/ Cardinality(held) >= MaxPerTopic
           \/ Cardinality(held) + others >= MaxPerDevice
  /\ conn' = [conn EXCEPT ![c] = Unused]
  /\ Answer(c, Failed)
  /\ UNCHANGED <<router, broker, subs, held, queue, pub, shown, since, dropped, unheard,
                 upsets>>

(* GetOrCreate keeps the broker, and with it the client, of the first request. *)
Bound(c) == IF broker.bound = None THEN conn[c].client ELSE broker.bound

(* The first subscriber starts the stream.  What the library does with a     *)
(* closed client is not known: an error, or a stream that stays silent.      *)
Subscribe(c) ==
  /\ conn[c].at = "reserved"
  /\ broker' = IF broker.started THEN broker
               ELSE [bound |-> Bound(c), started |-> TRUE, running |-> TRUE,
                     run |-> broker.run + 1]
  /\ subs' = subs \cup {c}
  /\ since' = [since EXCEPT ![c] = written]
  /\ conn' = [conn EXCEPT ![c] = [at |-> "open", client |-> None]]
  /\ Answer(c, [at |-> "open", ch |-> c])
  /\ UNCHANGED <<router, held, queue, pub, shown, dropped, unheard, upsets>>

(* onStart fails: on a client that is closed, or for a reason of its own. *)
SubscribeFails(c) ==
  /\ conn[c].at = "reserved"
  /\ ~broker.started
  /\ \/ Bound(c) \notin alive /\ UNCHANGED upsets
     \/ Bound(c) \in alive /\ Upset
  /\ broker' = [broker EXCEPT !.bound = Bound(c)]
  /\ held' = held \ {c}
  /\ conn' = [conn EXCEPT ![c] = Unused]
  /\ Answer(c, Failed)
  /\ UNCHANGED <<router, subs, queue, pub, shown, since, dropped, unheard>>

(* The request's context is done: the page or the network has closed the     *)
(* connection.                                                               *)
Gone(c) == \A p \in Pages : page[p].ch # c

(* The loop takes an event and writes it, to the page while it listens. *)
WriteEvent(c) ==
  /\ conn[c].at = "open"
  /\ queue[c] # << >>
  /\ queue' = [queue EXCEPT ![c] = Tail(@)]
  /\ shown' = [shown EXCEPT ![c] = IF Gone(c) THEN @ ELSE @ \cup {Head(queue[c])}]
  /\ UNCHANGED <<router, broker, subs, held, pub, conn, page, since, dropped, unheard,
                 upsets>>

(* A faulty form: any subscriber that leaves stops the stream. *)
UnsubscribeStops(c) ==
  /\ conn[c].at = "open"
  /\ Gone(c)
  /\ subs' = subs \ {c}
  /\ held' = held \ {c}
  /\ broker' = [broker EXCEPT !.started = FALSE, !.running = FALSE]
  /\ conn' = [conn EXCEPT ![c] = Unused]
  /\ queue' = [queue EXCEPT ![c] = << >>]
  /\ shown' = [shown EXCEPT ![c] = {}]
  /\ since' = [since EXCEPT ![c] = 0]
  /\ dropped' = [dropped EXCEPT ![c] = {}]
  /\ UNCHANGED <<router, pub, page, unheard, upsets>>

(* A faulty form: the reservation is not released. *)
UnsubscribeOnly(c) ==
  /\ conn[c].at = "open"
  /\ Gone(c)
  /\ subs' = subs \ {c}
  /\ broker' = IF subs' = {} THEN [broker EXCEPT !.started = FALSE, !.running = FALSE]
               ELSE broker
  /\ conn' = [conn EXCEPT ![c] = Unused]
  /\ queue' = [queue EXCEPT ![c] = << >>]
  /\ shown' = [shown EXCEPT ![c] = {}]
  /\ since' = [since EXCEPT ![c] = 0]
  /\ dropped' = [dropped EXCEPT ![c] = {}]
  /\ UNCHANGED <<router, held, pub, page, unheard, upsets>>

(* The deferred Unsubscribe and release: the last one out stops the stream. *)
Unsubscribe(c) ==
  /\ conn[c].at = "open"
  /\ Gone(c)
  /\ subs' = subs \ {c}
  /\ held' = held \ {c}
  /\ broker' = IF subs' = {} THEN [broker EXCEPT !.started = FALSE, !.running = FALSE]
               ELSE broker
  /\ conn' = [conn EXCEPT ![c] = Unused]
  /\ queue' = [queue EXCEPT ![c] = << >>]
  /\ shown' = [shown EXCEPT ![c] = {}]
  /\ since' = [since EXCEPT ![c] = 0]
  /\ dropped' = [dropped EXCEPT ![c] = {}]
  /\ UNCHANGED <<router, pub, page, unheard, upsets>>

-----------------------------------------------------------------------------
(* useSSE. *)

(* A channel of its own: no publish of an earlier connection refers to it. *)
Free(c) == conn[c].at = "free" /\ Gone(c) /\ \A e \in Entries : c \notin pub[e].to
LowestFree == CHOOSE c \in Channels : Free(c) /\ \A d \in Channels : Free(d) => c <= d

(* The middleware takes the token of the address, when its time is not over. *)
RequireAuth(p) == p \notin stale

(* connect(), when the page opens and when the timer of onerror fires, with  *)
(* the stored token.                                                         *)
Connect(p) ==
  /\ page[p].at \in {"away", "waiting"}
  /\ \E c \in Channels :
       /\ Free(c)
       /\ c = LowestFree
       /\ conn' = [conn EXCEPT ![c].at = IF RequireAuth(p) THEN "asked" ELSE "denied"]
       /\ page' = [page EXCEPT ![p] = [at |-> "connecting", ch |-> c]]
  /\ UNCHANGED <<router, broker, subs, held, queue, pub, shown, since, dropped, unheard,
                 upsets>>

Mount(p) == page[p].at = "away" /\ Connect(p)
Retry(p) == page[p].at = "waiting" /\ Connect(p)

(* onerror: close, and connect again after a delay. *)
Broken(p) ==
  /\ Upset
  /\ page[p].at \in {"connecting", "open"}
  /\ page' = [page EXCEPT ![p] = Failed]
  /\ UNCHANGED <<router, broker, subs, held, queue, pub, conn, shown, since, dropped,
                 unheard>>

(* The cleanup of the effect: close, no timer. *)
Leave(p) ==
  /\ Upset
  /\ page[p].at # "away"
  /\ page' = [page EXCEPT ![p] = [at |-> "away", ch |-> None]]
  /\ UNCHANGED <<router, broker, subs, held, queue, pub, conn, shown, since, dropped,
                 unheard>>

-----------------------------------------------------------------------------
Serve(c) ==
  Reserve(c) \/ Refuse(c) \/ Subscribe(c) \/ SubscribeFails(c) \/ WriteEvent(c)
    \/ Unsubscribe(c)

Send(e) == PublishStarts(e) \/ \E c \in Channels : Publish(e, c)

Next ==
  \/ RouterWrites \/ UpdateDevice \/ Dialled \/ DialFailed
  \/ \E e \in Entries : Send(e)
  \/ \E c \in Channels : Serve(c)
  \/ \E p \in Pages : Mount(p) \/ Retry(p) \/ Broken(p) \/ Leave(p)
  \/ \E p \in Pages : TokenExpires(p) \/ TokenReplaced(p)
  \/ OtherReserves \/ OtherReleases

(* Goroutines run and the browser fires its timers. *)
Fairness ==
  /\ \A e \in Entries : WF_vars(Send(e))
  /\ \A c \in Channels : WF_vars(Serve(c))
  /\ \A p \in Pages : WF_vars(Retry(p))

Spec == Init /\ [][Next]_vars /\ Fairness
=============================================================================
