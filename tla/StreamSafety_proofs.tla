------------------------- MODULE StreamSafety_proofs ------------------------
(***************************************************************************)
(* The live stream for any number of pages, connections, entries and       *)
(* disturbances, and any queue and cap: it keeps its types and its cap, it *)
(* implements EventFeed, and an entry that does not arrive has a cause.    *)
(***************************************************************************)
EXTENDS StreamSafety, FiniteSetTheorems, TLAPS

(* The broker's map, the handlers and the reservations tell the same story,  *)
(* and the stream runs while somebody is subscribed.                         *)
Served ==
  /\ subs = {c \in Channels : conn[c].at = "open"}
  /\ \A c \in Channels : conn[c].at \in {"reserved", "open"} => c \in held
  /\ \A c \in Channels : conn[c].at = "reserved" => conn[c].client # None
  /\ broker.started <=> subs # {}
  /\ broker.running <=> subs # {}
  /\ broker.running => broker.run # 0
  /\ device.made + device.dialing <= upsets + 1

(* Entries the router has not written are untouched; one that was read was   *)
(* read by a run of the stream.                                              *)
Reading ==
  /\ \A e \in Entries : written < e => pub[e] = Unread
  /\ \A e \in Entries : pub[e].at # "none" => pub[e].run # 0

Safe == TypeOK /\ Served /\ Reading

-----------------------------------------------------------------------------
(* The constants, one by one. *)
LEMMA Constants ==
  /\ MaxChannels \in Nat /\ MaxChannels # 0
  /\ QueueSize \in Nat /\ QueueSize # 0
  /\ MaxPerTopic \in Nat /\ MaxPerTopic # 0
  /\ MaxPerDevice \in Nat /\ MaxPerDevice # 0
  /\ MaxWritten \in Nat
  /\ MaxUpsets \in Nat
  BY StreamAssumption

(* Reservations are a finite set, so counting them makes sense. *)
LEMMA HeldFinite ==
  ASSUME NEW S \in SUBSET Channels
  PROVE  IsFiniteSet(S) /\ Cardinality(S) \in Nat
<1>1. IsFiniteSet(Channels)
    BY FS_Interval, Constants DEF Channels
<1> QED BY <1>1, FS_Subset, FS_CardinalityType

LEMMA RemovedIsLess ==
  ASSUME NEW S \in SUBSET Channels, NEW x, NEW n \in Nat,
         Cardinality(S) <= MaxPerTopic, Cardinality(S) + n <= MaxPerDevice
  PROVE  Cardinality(S \ {x}) <= MaxPerTopic /\ Cardinality(S \ {x}) + n <= MaxPerDevice
<1>1. IsFiniteSet(S) /\ Cardinality(S) \in Nat
    BY HeldFinite
<1>2. Cardinality(S \ {x}) = IF x \in S THEN Cardinality(S) - 1 ELSE Cardinality(S)
    BY <1>1, FS_RemoveElement
<1> QED BY <1>1, <1>2, Constants

LEMMA SafeInit == Init => Safe
<1> SUFFICES ASSUME Init PROVE Safe
    OBVIOUS
<1> USE Constants
<1>1. Cardinality(held) <= MaxPerTopic /\ Cardinality(held) + others <= MaxPerDevice
    BY FS_EmptySet DEF Init
<1>2. TypeOK
    BY <1>1 DEF Init, TypeOK, Entries, Channels, MaxClients, None, Unread, Unused,
                Device, Broker, Callback, Handler, PageState
<1>3. Served
    BY DEF Init, Served, Channels, Unused, None
<1>4. Reading
    BY DEF Init, Reading, Unread
<1> QED BY <1>2, <1>3, <1>4 DEF Safe

(* The router writes: one callback begins, or none. *)
LEMMA WriteKeepsSafe == Safe /\ RouterWrites => Safe'
<1> SUFFICES ASSUME Safe, RouterWrites PROVE Safe'
    OBVIOUS
<1>1. /\ written' = written + 1 /\ written' \in Entries /\ written' \in 0..MaxWritten
      /\ written \in 0..MaxWritten
    BY Constants DEF Safe, TypeOK, RouterWrites, Entries
<1>2. broker.run \in Nat /\ (broker.running => broker.run # 0)
    BY DEF Safe, TypeOK, Served, Broker
<1>3. pub \in [Entries -> Callback] /\ pub[written'] = Unread
    BY <1>1 DEF Safe, TypeOK, Reading, Entries
<1>4. \/ /\ broker.running
         /\ pub' = [pub EXCEPT ![written'].at = "read", ![written'].run = broker.run]
      \/ pub' = pub
    BY DEF RouterWrites, Hearing
<1>5. /\ pub' \in [Entries -> Callback]
      /\ \A e \in Entries : e # written' => pub'[e] = pub[e]
      /\ pub'[written'].at # "none" => pub'[written'].run # 0
  <2>1. CASE pub' = pub
      BY <1>1, <1>3, <2>1 DEF Unread
  <2>2. ASSUME broker.running,
               pub' = [pub EXCEPT ![written'].at = "read", ![written'].run = broker.run]
        PROVE  /\ pub' \in [Entries -> Callback]
               /\ \A e \in Entries : e # written' => pub'[e] = pub[e]
               /\ pub'[written'].run # 0
      BY <1>1, <1>2, <1>3, <2>2 DEF Callback
  <2> QED BY <1>4, <2>1, <2>2
<1>6. unheard' \in SUBSET Entries
    BY <1>1 DEF RouterWrites, Safe, TypeOK
<1>7. TypeOK'
    BY <1>1, <1>5, <1>6 DEF RouterWrites, Safe, TypeOK
<1>8. Served'
    BY DEF RouterWrites, Safe, Served
<1>9. Reading'
    BY <1>1, <1>5 DEF Safe, Reading, Entries
<1> QED BY <1>7, <1>8, <1>9 DEF Safe

(* The device manager makes one client per update. *)
LEMMA DeviceKeepsSafe == Safe /\ (UpdateDevice \/ Dialled \/ DialFailed) => Safe'
<1> SUFFICES ASSUME Safe, UpdateDevice \/ Dialled \/ DialFailed PROVE Safe'
    OBVIOUS
<1>1. /\ device \in Device /\ upsets \in 0..MaxUpsets
      /\ device.made + device.dialing <= upsets + 1
      /\ alive \in SUBSET (1..MaxClients)
    BY DEF Safe, TypeOK, Served
<1>2. /\ device' \in Device /\ upsets' \in 0..MaxUpsets
      /\ device'.made + device'.dialing <= upsets' + 1
      /\ alive' \in SUBSET (1..MaxClients)
  <2>0. /\ device.made \in Nat /\ device.made >= 1 /\ device.dialing \in Nat
        /\ upsets \in Nat /\ MaxClients = MaxUpsets + 1 /\ device.cur \in 0..MaxClients
      BY <1>1, Constants DEF Device, MaxClients
  <2>1. CASE UpdateDevice
    <3>1. device' = [device EXCEPT !.cur = None, !.dialing = @ + 1] /\ alive' = alive \ {device.cur}
        BY <2>1 DEF UpdateDevice
    <3>2. upsets' = upsets + 1 /\ upsets < MaxUpsets
        BY <2>1 DEF UpdateDevice, Upset
    <3>3. device.dialing + 1 \in 0..MaxUpsets
        BY <1>1, <2>0, <3>2, Constants
    <3>4. /\ device' \in Device
          /\ device'.made = device.made /\ device'.dialing = device.dialing + 1
      <4>1. device' = [cur |-> None, made |-> device.made, dialing |-> device.dialing + 1]
          BY <1>1, <3>1 DEF Device
      <4>2. None \in 0..MaxClients /\ device.made \in 1..MaxClients
          BY <1>1, <2>0, Constants DEF Device, None
      <4> QED BY <3>3, <4>1, <4>2 DEF Device
    <3> QED BY <1>1, <2>0, <3>1, <3>2, <3>4, Constants
  <2>2. CASE Dialled
    <3>1. /\ device' = [cur |-> device.made + 1, made |-> device.made + 1,
                        dialing |-> device.dialing - 1]
          /\ alive' = alive \cup {device.made + 1} /\ upsets' = upsets /\ device.dialing > 0
        BY <2>2 DEF Dialled
    <3>2. device.made + 1 \in 1..MaxClients /\ device.dialing - 1 \in 0..MaxUpsets
        BY <1>1, <2>0, <3>1, Constants DEF Device
    <3>3. device' \in Device
        BY <3>1, <3>2, <2>0, Constants DEF Device
    <3>4. device'.made = device.made + 1 /\ device'.dialing = device.dialing - 1
        BY <3>1
    <3>5. device'.made + device'.dialing <= upsets' + 1
        BY <1>1, <2>0, <3>1, <3>4
    <3> QED BY <1>1, <3>1, <3>2, <3>3, <3>5
  <2>3. CASE DialFailed
      BY <1>1, <2>3, Constants DEF DialFailed, Device, MaxClients
  <2> QED BY <2>1, <2>2, <2>3
<1>3. UNCHANGED <<written, stale, others, broker, subs, held, queue, pub, conn, page, shown,
                  since, dropped, unheard>>
    BY DEF UpdateDevice, Dialled, DialFailed
<1>4. TypeOK'
    BY <1>2, <1>3 DEF Safe, TypeOK
<1>5. Served' /\ Reading'
    BY <1>2, <1>3 DEF Safe, Served, Reading
<1> QED BY <1>4, <1>5 DEF Safe

-----------------------------------------------------------------------------
(* Publish changes the callback of one entry, which stays read by its run. *)
CallbackMoves(e) ==
  /\ pub' \in [Entries -> Callback]
  /\ pub'[e].run = pub[e].run
  /\ pub[e].at # "none"
  /\ \A f \in Entries : f # e => pub'[f] = pub[f]

LEMMA StartMoves ==
  ASSUME TypeOK, NEW e \in Entries, PublishStarts(e)
  PROVE  CallbackMoves(e) /\ pub'[e].at \in {"sending", "done"} /\ pub'[e].to = subs
<1>1. pub \in [Entries -> Callback] /\ subs \in SUBSET Channels
    BY DEF TypeOK
<1>2. pub[e].at = "read"
    BY DEF PublishStarts
<1>3. pub' = [pub EXCEPT ![e].at = IF subs = {} THEN "done" ELSE "sending", ![e].to = subs]
    BY DEF PublishStarts
<1>4. CASE subs = {}
    BY <1>1, <1>2, <1>3, <1>4 DEF CallbackMoves, Callback
<1>5. CASE subs # {}
    BY <1>1, <1>2, <1>3, <1>5 DEF CallbackMoves, Callback
<1> QED BY <1>4, <1>5

LEMMA SendMoves ==
  ASSUME TypeOK, NEW e \in Entries, NEW c \in Channels, Publish(e, c)
  PROVE  /\ CallbackMoves(e)
         /\ pub[e].at = "sending" /\ pub'[e].at \in {"sending", "done"}
         /\ pub'[e].to = pub[e].to \ {c}
<1>1. pub \in [Entries -> Callback]
    BY DEF TypeOK
<1>2. pub[e].at = "sending"
    BY DEF Publish
<1>3. pub' = [pub EXCEPT ![e].to = @ \ {c}, ![e].at = IF pub[e].to = {c} THEN "done" ELSE @]
    BY DEF Publish
<1>4. CASE pub[e].to = {c}
    BY <1>1, <1>2, <1>3, <1>4 DEF CallbackMoves, Callback
<1>5. CASE pub[e].to # {c}
    BY <1>1, <1>2, <1>3, <1>5 DEF CallbackMoves, Callback
<1> QED BY <1>4, <1>5

(* What one send does to the channels. *)
LEMMA SendQueues ==
  ASSUME TypeOK, NEW e \in Entries, NEW c \in Channels, Publish(e, c)
  PROVE  /\ queue' \in [Channels -> Seq(Entries)]
         /\ \A d \in Channels : Len(queue'[d]) <= QueueSize
         /\ dropped' \in [Channels -> SUBSET Entries]
         /\ \A d \in Channels : d # c => queue'[d] = queue[d] /\ dropped'[d] = dropped[d]
         /\ queue'[c] = queue[c] \/ queue'[c] = Append(queue[c], e)
         /\ c \in subs => queue'[c] = Append(queue[c], e) \/ e \in dropped'[c]
         /\ dropped[c] \subseteq dropped'[c]
<1>1. /\ queue \in [Channels -> Seq(Entries)]
      /\ \A d \in Channels : Len(queue[d]) <= QueueSize
      /\ dropped \in [Channels -> SUBSET Entries]
    BY DEF TypeOK
<1>2. CASE c \in subs /\ Len(queue[c]) < QueueSize
  <2>1. queue' = [queue EXCEPT ![c] = Append(@, e)] /\ dropped' = dropped
      BY <1>2, <1>1, Constants DEF Publish
  <2>2. Append(queue[c], e) \in Seq(Entries) /\ Len(Append(queue[c], e)) = Len(queue[c]) + 1
      BY <1>1
  <2>3. Len(queue[c]) \in Nat
      BY <1>1
  <2> QED BY <1>1, <1>2, <2>1, <2>2, <2>3, Constants
<1>3. CASE c \in subs /\ Len(queue[c]) >= QueueSize
  <2>1. dropped' = [dropped EXCEPT ![c] = @ \cup {e}] /\ queue' = queue
      BY <1>3, <1>1, Constants DEF Publish
  <2> QED BY <1>1, <2>1
<1>4. CASE c \notin subs
  <2>1. queue' = queue /\ dropped' = dropped
      BY <1>4 DEF Publish
  <2> QED BY <1>1, <1>4, <2>1
<1>5. Len(queue[c]) \in Nat
    BY <1>1
<1> QED BY <1>2, <1>3, <1>4, <1>5, Constants

LEMMA SendKeepsSafe ==
  ASSUME Safe, NEW e \in Entries, Send(e)
  PROVE  Safe'
<1>0. TypeOK /\ Served /\ Reading
    BY DEF Safe
<1>1. CallbackMoves(e) => Reading' \/ written' # written
    BY <1>0 DEF Reading, CallbackMoves, Unread
<1>2. CASE PublishStarts(e)
  <2>1. CallbackMoves(e)
      BY <1>0, <1>2, StartMoves
  <2>2. UNCHANGED <<written, device, alive, stale, others, broker, subs, held, queue, conn, page, shown, since,
                    dropped, unheard, upsets>>
      BY <1>2 DEF PublishStarts, router
  <2>3. TypeOK'
      BY <1>0, <2>1, <2>2 DEF TypeOK, CallbackMoves
  <2>4. Served'
      BY <1>0, <2>2 DEF Served
  <2> QED BY <1>1, <2>1, <2>2, <2>3, <2>4 DEF Safe
<1>3. ASSUME NEW c \in Channels, Publish(e, c) PROVE Safe'
  <2>1. CallbackMoves(e)
      BY <1>0, <1>3, SendMoves
  <2>2. UNCHANGED <<written, device, alive, stale, others, broker, subs, held, conn, page, shown, since,
                    unheard, upsets>>
      BY <1>3 DEF Publish, router
  <2>3. /\ queue' \in [Channels -> Seq(Entries)]
        /\ \A d \in Channels : Len(queue'[d]) <= QueueSize
        /\ dropped' \in [Channels -> SUBSET Entries]
      BY <1>0, <1>3, SendQueues
  <2>4. TypeOK'
      BY <1>0, <2>1, <2>2, <2>3 DEF TypeOK, CallbackMoves
  <2>5. Served'
      BY <1>0, <2>2 DEF Served
  <2> QED BY <1>1, <2>1, <2>2, <2>4, <2>5 DEF Safe
<1> QED BY <1>2, <1>3 DEF Send
-----------------------------------------------------------------------------
(* A handler's answer leaves every page in a state useSSE knows. *)
LEMMA AnswerType ==
  ASSUME TypeOK, NEW c \in Channels, NEW next \in PageState, Answer(c, next)
  PROVE  page' \in [Pages -> PageState]
  BY DEF TypeOK, Answer

LEMMA FailedType == Failed \in PageState
  BY DEF Failed, PageState, None

(* The handlers of the other channels stay as they are. *)
LEMMA ReserveKeepsSafe ==
  ASSUME Safe, NEW c \in Channels, Reserve(c)
  PROVE  Safe'
<1>0. TypeOK /\ Served /\ Reading
    BY DEF Safe
<1>1. /\ held \in SUBSET Channels /\ Cardinality(held) < MaxPerTopic /\ held' = held \cup {c}
      /\ Cardinality(held) + others < MaxPerDevice /\ others \in Nat /\ others' = others
    BY <1>0 DEF TypeOK, Reserve, router
<1>2. /\ held' \in SUBSET Channels /\ Cardinality(held') <= MaxPerTopic
      /\ Cardinality(held') + others' <= MaxPerDevice
    BY <1>1, HeldFinite, FS_AddElement, Constants
<1>3. device.cur \in 0..MaxClients /\ device.cur # None
    BY <1>0 DEF TypeOK, Device, Reserve
<1>4. /\ conn' \in [Channels -> Handler]
      /\ conn[c].at = "asked" /\ conn'[c].at = "reserved" /\ conn'[c].client # None
      /\ \A d \in Channels : d # c => conn'[d] = conn[d]
    BY <1>0, <1>3 DEF TypeOK, Reserve, Handler
<1>5. UNCHANGED <<written, device, alive, stale, others, broker, subs, queue, pub, page, shown, since, dropped,
                  unheard, upsets>>
    BY DEF Reserve, router
<1>6. TypeOK'
    BY <1>0, <1>1, <1>2, <1>4, <1>5 DEF TypeOK
<1>7. subs = {d \in Channels : conn'[d].at = "open"}
    BY <1>0, <1>4 DEF Served
<1>8. Served'
    BY <1>0, <1>1, <1>4, <1>5, <1>7 DEF Served
<1>9. Reading'
    BY <1>0, <1>5 DEF Reading
<1> QED BY <1>6, <1>8, <1>9 DEF Safe

LEMMA RefuseKeepsSafe ==
  ASSUME Safe, NEW c \in Channels, Refuse(c)
  PROVE  Safe'
<1>0. TypeOK /\ Served /\ Reading
    BY DEF Safe
<1>1. page' \in [Pages -> PageState]
    BY <1>0, AnswerType, FailedType DEF Refuse
<1>2. /\ conn' \in [Channels -> Handler]
      /\ conn[c].at \in {"denied", "asked"} /\ conn'[c].at = "free"
      /\ \A d \in Channels : d # c => conn'[d] = conn[d]
    BY <1>0, Constants DEF TypeOK, Refuse, Handler, Unused, None, MaxClients
<1>3. UNCHANGED <<written, device, alive, stale, others, broker, subs, held, queue, pub, shown, since, dropped,
                  unheard, upsets>>
    BY DEF Refuse, router
<1>4. TypeOK'
    BY <1>0, <1>1, <1>2, <1>3 DEF TypeOK
<1>5. subs = {d \in Channels : conn'[d].at = "open"}
    BY <1>0, <1>2 DEF Served
<1>6. Served'
    BY <1>0, <1>2, <1>3, <1>5 DEF Served
<1>7. Reading'
    BY <1>0, <1>3 DEF Reading
<1> QED BY <1>4, <1>6, <1>7 DEF Safe

LEMMA SubscribeKeepsSafe ==
  ASSUME Safe, NEW c \in Channels, Subscribe(c)
  PROVE  Safe'
<1>0. TypeOK /\ Served /\ Reading
    BY DEF Safe
<1>1. [at |-> "open", ch |-> c] \in PageState
    BY DEF PageState
<1>2. page' \in [Pages -> PageState]
    BY <1>0, <1>1, AnswerType DEF Subscribe
<1>3. /\ conn' \in [Channels -> Handler]
      /\ conn[c].at = "reserved" /\ conn'[c].at = "open"
      /\ \A d \in Channels : d # c => conn'[d] = conn[d]
    BY <1>0, Constants DEF TypeOK, Subscribe, Handler, None, MaxClients
<1>4. Bound(c) \in 0..MaxClients
    BY <1>0, <1>3 DEF TypeOK, Bound, Broker, Handler
<1>5. broker' \in Broker /\ broker'.started /\ broker'.running /\ broker'.run # 0
  <2>1. CASE broker.started
      BY <1>0, <2>1 DEF Subscribe, TypeOK, Served
  <2>2. CASE ~broker.started
    <3>1. broker.run \in Nat
        BY <1>0 DEF TypeOK, Broker
    <3>2. broker' = [bound |-> Bound(c), started |-> TRUE, running |-> TRUE, run |-> broker.run + 1]
        BY <2>2 DEF Subscribe
    <3> QED BY <1>4, <3>1, <3>2 DEF Broker
  <2> QED BY <2>1, <2>2
<1>6. c \in held /\ subs' = subs \cup {c}
    BY <1>0, <1>3 DEF Served, Subscribe
<1>7. since' \in [Channels -> 0..MaxWritten]
    BY <1>0 DEF TypeOK, Subscribe
<1>8. UNCHANGED <<written, device, alive, stale, others, held, queue, pub, shown, dropped, unheard, upsets>>
    BY DEF Subscribe, router
<1>9. TypeOK'
    BY <1>0, <1>2, <1>3, <1>5, <1>6, <1>7, <1>8 DEF TypeOK
<1>10. subs' = {d \in Channels : conn'[d].at = "open"}
    BY <1>0, <1>3, <1>6 DEF Served
<1>11. Served'
    BY <1>0, <1>3, <1>5, <1>6, <1>8, <1>10 DEF Served
<1>12. Reading'
    BY <1>0, <1>8 DEF Reading
<1> QED BY <1>9, <1>11, <1>12 DEF Safe

LEMMA FailureKeepsSafe ==
  ASSUME Safe, NEW c \in Channels, SubscribeFails(c)
  PROVE  Safe'
<1>0. TypeOK /\ Served /\ Reading
    BY DEF Safe
<1>1. page' \in [Pages -> PageState]
    BY <1>0, AnswerType, FailedType DEF SubscribeFails
<1>2. /\ conn' \in [Channels -> Handler]
      /\ conn[c].at = "reserved" /\ conn'[c].at = "free"
      /\ \A d \in Channels : d # c => conn'[d] = conn[d]
    BY <1>0, Constants DEF TypeOK, SubscribeFails, Handler, Unused, None, MaxClients
<1>3. Bound(c) \in 0..MaxClients
    BY <1>0, <1>2 DEF TypeOK, Bound, Broker, Handler
<1>4. /\ broker' \in Broker /\ broker'.started = broker.started
      /\ broker'.running = broker.running /\ broker'.run = broker.run
    BY <1>0, <1>3 DEF TypeOK, Broker, SubscribeFails
<1>5. /\ held' \in SUBSET Channels /\ subs \subseteq held' /\ held' = held \ {c}
      /\ Cardinality(held') <= MaxPerTopic /\ Cardinality(held') + others <= MaxPerDevice
  <2>1. held \in SUBSET Channels /\ subs \subseteq held /\ c \notin subs
      BY <1>0, <1>2 DEF TypeOK, Served
  <2>2. Cardinality(held \ {c}) <= MaxPerTopic /\ Cardinality(held \ {c}) + others <= MaxPerDevice
      BY <1>0, <2>1, RemovedIsLess DEF TypeOK
  <2> QED BY <2>1, <2>2 DEF SubscribeFails
<1>6. UNCHANGED <<written, device, alive, stale, others, subs, queue, pub, shown, since,
                  dropped, unheard>>
    BY DEF SubscribeFails, router
<1>11. upsets' \in 0..MaxUpsets /\ device'.made + device'.dialing <= upsets' + 1
  <2>1. upsets' = upsets \/ (upsets < MaxUpsets /\ upsets' = upsets + 1)
      BY DEF SubscribeFails, Upset
  <2>2. /\ device.made \in Nat /\ device.dialing \in Nat /\ upsets \in Nat
        /\ upsets \in 0..MaxUpsets /\ device.made + device.dialing <= upsets + 1
      BY <1>0, Constants DEF TypeOK, Served, Device, MaxClients
  <2> QED BY <1>6, <2>1, <2>2, Constants
<1>7. TypeOK'
    BY <1>0, <1>1, <1>2, <1>4, <1>5, <1>6, <1>11 DEF TypeOK
<1>8. subs = {d \in Channels : conn'[d].at = "open"}
    BY <1>0, <1>2 DEF Served
<1>9. Served'
    BY <1>0, <1>2, <1>4, <1>5, <1>6, <1>8, <1>11 DEF Served
<1>10. Reading'
    BY <1>0, <1>6 DEF Reading
<1> QED BY <1>7, <1>9, <1>10 DEF Safe

LEMMA WriteEventKeepsSafe ==
  ASSUME Safe, NEW c \in Channels, WriteEvent(c)
  PROVE  Safe'
<1>0. TypeOK /\ Served /\ Reading
    BY DEF Safe
<1>1. /\ queue \in [Channels -> Seq(Entries)] /\ queue[c] \in Seq(Entries) /\ queue[c] # << >>
      /\ \A d \in Channels : Len(queue[d]) <= QueueSize
    BY <1>0 DEF TypeOK, WriteEvent
<1>2. /\ Tail(queue[c]) \in Seq(Entries) /\ Head(queue[c]) \in Entries
      /\ Len(Tail(queue[c])) = Len(queue[c]) - 1 /\ Len(queue[c]) \in Nat
    BY <1>1
<1>3. queue' = [queue EXCEPT ![c] = Tail(queue[c])]
    BY DEF WriteEvent
<1>4. queue' \in [Channels -> Seq(Entries)] /\ \A d \in Channels : Len(queue'[d]) <= QueueSize
    BY <1>1, <1>2, <1>3, Constants
<1>5. shown' \in [Channels -> SUBSET Entries]
    BY <1>0, <1>2 DEF TypeOK, WriteEvent
<1>6. UNCHANGED <<written, device, alive, stale, others, broker, subs, held, pub, conn, page, since, dropped,
                  unheard, upsets>>
    BY DEF WriteEvent, router
<1>7. TypeOK'
    BY <1>0, <1>4, <1>5, <1>6 DEF TypeOK
<1>8. Served' /\ Reading'
    BY <1>0, <1>6 DEF Served, Reading
<1> QED BY <1>7, <1>8 DEF Safe

LEMMA UnsubscribeKeepsSafe ==
  ASSUME Safe, NEW c \in Channels, Unsubscribe(c)
  PROVE  Safe'
<1>0. TypeOK /\ Served /\ Reading
    BY DEF Safe
<1>1. /\ conn' \in [Channels -> Handler]
      /\ conn[c].at = "open" /\ conn'[c].at = "free"
      /\ \A d \in Channels : d # c => conn'[d] = conn[d]
    BY <1>0, Constants DEF TypeOK, Unsubscribe, Handler, Unused, None, MaxClients
<1>2. subs' = subs \ {c} /\ held' = held \ {c} /\ c \in subs
    BY <1>0, <1>1 DEF Served, Unsubscribe
<1>3. /\ held' \in SUBSET Channels /\ subs' \subseteq held' /\ Cardinality(held') <= MaxPerTopic
      /\ Cardinality(held') + others <= MaxPerDevice
  <2>1. held \in SUBSET Channels /\ subs \subseteq held
      BY <1>0 DEF TypeOK
  <2>2. Cardinality(held \ {c}) <= MaxPerTopic /\ Cardinality(held \ {c}) + others <= MaxPerDevice
      BY <1>0, <2>1, RemovedIsLess DEF TypeOK
  <2> QED BY <1>2, <2>1, <2>2
<1>4. /\ broker' \in Broker /\ (broker'.started <=> subs' # {}) /\ (broker'.running <=> subs' # {})
      /\ broker'.run = broker.run
  <2>1. CASE subs' = {}
    <3>1. broker' = [broker EXCEPT !.started = FALSE, !.running = FALSE] /\ broker \in Broker
        BY <1>0, <2>1 DEF Unsubscribe, TypeOK
    <3>2. broker' \in Broker /\ broker'.run = broker.run /\ ~broker'.started /\ ~broker'.running
        BY <3>1 DEF Broker
    <3> QED BY <2>1, <3>2
  <2>2. CASE subs' # {}
    <3>1. broker' = broker
        BY <2>2 DEF Unsubscribe
    <3> QED BY <1>0, <1>2, <2>2, <3>1 DEF TypeOK, Served
  <2> QED BY <2>1, <2>2
<1>5. /\ queue' \in [Channels -> Seq(Entries)] /\ \A d \in Channels : Len(queue'[d]) <= QueueSize
      /\ shown' \in [Channels -> SUBSET Entries]
      /\ since' \in [Channels -> 0..MaxWritten]
      /\ dropped' \in [Channels -> SUBSET Entries]
  <2>1. queue \in [Channels -> Seq(Entries)] /\ \A d \in Channels : Len(queue[d]) <= QueueSize
      BY <1>0 DEF TypeOK
  <2>2. << >> \in Seq(Entries) /\ Len(<< >>) = 0
      OBVIOUS
  <2>3. queue' = [queue EXCEPT ![c] = << >>]
      BY DEF Unsubscribe
  <2>4. queue' \in [Channels -> Seq(Entries)] /\ \A d \in Channels : Len(queue'[d]) <= QueueSize
      BY <2>1, <2>2, <2>3, Constants
  <2> QED BY <1>0, <2>4, Constants DEF TypeOK, Unsubscribe
<1>6. UNCHANGED <<written, device, alive, stale, others, pub, page, unheard, upsets>>
    BY DEF Unsubscribe, router
<1>7. TypeOK'
    BY <1>0, <1>1, <1>3, <1>4, <1>5, <1>6 DEF TypeOK
<1>8. subs' = {d \in Channels : conn'[d].at = "open"}
    BY <1>0, <1>1, <1>2 DEF Served
<1>9. Served'
    BY <1>0, <1>1, <1>2, <1>4, <1>6, <1>8 DEF Served
<1>10. Reading'
    BY <1>0, <1>6 DEF Reading
<1> QED BY <1>7, <1>9, <1>10 DEF Safe

(* The pages. *)
LEMMA PageKeepsSafe ==
  ASSUME Safe, NEW p \in Pages, Mount(p) \/ Retry(p) \/ Broken(p) \/ Leave(p)
  PROVE  Safe'
<1>0. TypeOK /\ Served /\ Reading
    BY DEF Safe
<1>1. CASE Connect(p)
  <2>1. PICK c \in Channels :
          /\ conn[c].at = "free"
          /\ conn' = [conn EXCEPT ![c].at = IF RequireAuth(p) THEN "asked" ELSE "denied"]
          /\ page' = [page EXCEPT ![p] = [at |-> "connecting", ch |-> c]]
      BY <1>1 DEF Connect, Free
  <2>2. /\ conn' \in [Channels -> Handler]
        /\ conn'[c].at \in {"denied", "asked"}
        /\ \A d \in Channels : d # c => conn'[d] = conn[d]
      BY <1>0, <2>1 DEF TypeOK, Handler
  <2>3. page' \in [Pages -> PageState]
      BY <1>0, <2>1 DEF TypeOK, PageState
  <2>4. UNCHANGED <<written, device, alive, stale, others, broker, subs, held, queue, pub, shown, since, dropped,
                    unheard, upsets>>
      BY <1>1 DEF Connect, router
  <2>5. TypeOK'
      BY <1>0, <2>2, <2>3, <2>4 DEF TypeOK
  <2>6. subs = {d \in Channels : conn'[d].at = "open"}
      BY <1>0, <2>1, <2>2 DEF Served
  <2>7. Served'
      BY <1>0, <2>2, <2>4, <2>6 DEF Served
  <2>8. Reading'
      BY <1>0, <2>4 DEF Reading
  <2> QED BY <2>5, <2>7, <2>8 DEF Safe
<1>2. CASE Broken(p) \/ Leave(p)
  <2>1. upsets' \in 0..MaxUpsets /\ upsets' = upsets + 1
      BY <1>0, <1>2, Constants DEF TypeOK, Broken, Leave, Upset
  <2>2. page' \in [Pages -> PageState]
    <3>1. [at |-> "away", ch |-> None] \in PageState
        BY DEF PageState, None
    <3>2. page' = [page EXCEPT ![p] = Failed] \/ page' = [page EXCEPT ![p] = [at |-> "away", ch |-> None]]
        BY <1>2 DEF Broken, Leave
    <3> QED BY <1>0, <3>1, <3>2, FailedType DEF TypeOK
  <2>3. UNCHANGED <<written, device, alive, stale, others, broker, subs, held, queue, pub, conn, shown, since,
                    dropped, unheard>>
      BY <1>2 DEF Broken, Leave, router
  <2>4. TypeOK'
      BY <1>0, <2>1, <2>2, <2>3 DEF TypeOK
  <2>5. device'.made + device'.dialing <= upsets' + 1
    <3>1. device.made \in Nat /\ device.dialing \in Nat /\ upsets \in Nat
        BY <1>0, Constants DEF TypeOK, Device, MaxClients
    <3> QED BY <1>0, <2>1, <2>3, <3>1 DEF Served
  <2>6. Served' /\ Reading'
      BY <1>0, <2>3, <2>5 DEF Served, Reading
  <2> QED BY <2>4, <2>6 DEF Safe
<1> QED BY <1>1, <1>2 DEF Mount, Retry

(* The tokens and the other topics. *)
LEMMA AroundKeepsSafe ==
  ASSUME Safe,
         \/ \E p \in Pages : TokenExpires(p) \/ TokenReplaced(p)
         \/ OtherReserves \/ OtherReleases
  PROVE  Safe'
<1>0. TypeOK /\ Served /\ Reading
    BY DEF Safe
<1>1. UNCHANGED <<written, device, alive, broker, subs, held, queue, pub, conn, page, shown,
                  since, dropped, unheard>>
    BY DEF TokenExpires, TokenReplaced, OtherReserves, OtherReleases, Around
<1>2. upsets' = upsets \/ (upsets < MaxUpsets /\ upsets' = upsets + 1)
    BY DEF TokenExpires, TokenReplaced, OtherReserves, OtherReleases, Upset
<1>3. upsets' \in 0..MaxUpsets /\ device'.made + device'.dialing <= upsets' + 1
  <2>1. /\ device.made \in Nat /\ device.dialing \in Nat /\ upsets \in Nat
        /\ upsets \in 0..MaxUpsets /\ device.made + device.dialing <= upsets + 1
      BY <1>0, Constants DEF TypeOK, Served, Device, MaxClients
  <2> QED BY <1>1, <1>2, <2>1, Constants
<1>4. stale' \subseteq Pages
    BY <1>0 DEF TypeOK, TokenExpires, TokenReplaced, OtherReserves, OtherReleases
<1>5. others' \in Nat /\ Cardinality(held) + others' <= MaxPerDevice
  <2>1. /\ Cardinality(held) \in Nat /\ others \in Nat
        /\ Cardinality(held) + others <= MaxPerDevice
      BY <1>0, HeldFinite DEF TypeOK
  <2> QED BY <2>1, Constants DEF TokenExpires, TokenReplaced, OtherReserves, OtherReleases
<1>6. TypeOK'
    BY <1>0, <1>1, <1>3, <1>4, <1>5 DEF TypeOK
<1>7. Served' /\ Reading'
    BY <1>0, <1>1, <1>3 DEF Served, Reading
<1> QED BY <1>6, <1>7 DEF Safe

LEMMA SafeInductive == Safe /\ [Next]_vars => Safe'
<1> SUFFICES ASSUME Safe, [Next]_vars PROVE Safe'
    OBVIOUS
<1>1. CASE UNCHANGED vars
    BY <1>1 DEF vars, Safe, TypeOK, Served, Reading
<1>2. CASE RouterWrites \/ UpdateDevice \/ Dialled \/ DialFailed
    BY <1>2, WriteKeepsSafe, DeviceKeepsSafe
<1>3. ASSUME NEW e \in Entries, Send(e) PROVE Safe'
    BY <1>3, SendKeepsSafe
<1>4. ASSUME NEW c \in Channels, Serve(c) PROVE Safe'
    BY <1>4, ReserveKeepsSafe, RefuseKeepsSafe, SubscribeKeepsSafe, FailureKeepsSafe,
       WriteEventKeepsSafe, UnsubscribeKeepsSafe DEF Serve
<1>5. ASSUME NEW p \in Pages, Mount(p) \/ Retry(p) \/ Broken(p) \/ Leave(p) PROVE Safe'
    BY <1>5, PageKeepsSafe
<1>6. CASE \/ \E p \in Pages : TokenExpires(p) \/ TokenReplaced(p)
           \/ OtherReserves \/ OtherReleases
    BY <1>6, AroundKeepsSafe
<1> QED BY <1>1, <1>2, <1>3, <1>4, <1>5, <1>6 DEF Next

(* Reservations stay under the caps of the topic and of the router, queues   *)
(* under their size, every subscriber holds a reservation, and the rest      *)
(* keeps its type.                                                           *)
THEOREM StreamType == Spec => []TypeOK
<1>1. Spec => []Safe
    BY SafeInit, SafeInductive, PTL DEF Spec
<1>2. Safe => TypeOK
    BY DEF Safe
<1> QED BY <1>1, <1>2, PTL
-----------------------------------------------------------------------------
Begun(e) == pub[e].at \in {"sending", "done"}

(* The entries of one run are published one after the other. *)
InTurn ==
  \A e, f \in Entries :
    e < f /\ pub[e].run = pub[f].run /\ Begun(f) => pub[e].at = "done"

(* What stands in a channel, or has been shown through it, was published to  *)
(* it and will not be again,                                                 *)
Placed ==
  \A c \in Channels :
    /\ \A i \in DOMAIN queue[c] : Begun(queue[c][i]) /\ c \notin pub[queue[c][i]].to
    /\ \A f \in shown[c] : Begun(f) /\ c \notin pub[f].to

(* in the order of the run: in the channel, *)
QueueInOrder ==
  \A c \in Channels : \A i, j \in DOMAIN queue[c] :
    i < j /\ pub[queue[c][i]].run = pub[queue[c][j]].run => queue[c][i] < queue[c][j]

(* and what was shown before what stands in the channel. *)
ShownFirst ==
  \A c \in Channels : \A f \in shown[c], i \in DOMAIN queue[c] :
    pub[f].run = pub[queue[c][i]].run => f < queue[c][i]

Ordered == InTurn /\ Placed /\ QueueInOrder /\ ShownFirst

(* A step that leaves the channels alone and takes back nothing that was     *)
(* published keeps the order.                                                *)
LEMMA SteadyOrder ==
  ASSUME TypeOK, Placed, QueueInOrder, ShownFirst, queue' = queue, shown' = shown,
         \A f \in Entries : Begun(f) =>
           pub'[f].at \in {"sending", "done"} /\ pub'[f].run = pub[f].run
             /\ pub'[f].to \subseteq pub[f].to
  PROVE  Placed' /\ QueueInOrder' /\ ShownFirst'
<1>1. \A c \in Channels : /\ \A i \in DOMAIN queue[c] : queue[c][i] \in Entries
                          /\ \A f \in shown[c] : f \in Entries
    BY DEF TypeOK
<1>2. Placed'
    BY <1>1 DEF Placed, Begun
<1>3. QueueInOrder'
    BY <1>1 DEF QueueInOrder, Placed
<1>4. ShownFirst'
    BY <1>1 DEF ShownFirst, Placed
<1> QED BY <1>2, <1>3, <1>4

LEMMA OrderInit == Init => Ordered
  BY DEF Init, Ordered, InTurn, Placed, QueueInOrder, ShownFirst, Begun, Unread

LEMMA OrderWrite == Safe /\ Ordered /\ RouterWrites => Ordered'
<1> SUFFICES ASSUME Safe, Ordered, RouterWrites PROVE Ordered'
    OBVIOUS
<1>0. TypeOK /\ Reading
    BY DEF Safe
<1>1. /\ written' = written + 1 /\ written' \in Entries /\ written \in Nat
      /\ \A e \in Entries : e \in Nat
    BY <1>0, Constants DEF TypeOK, RouterWrites, Entries
<1>2. pub \in [Entries -> Callback] /\ pub[written'] = Unread
    BY <1>0, <1>1 DEF TypeOK, Reading
<1>3. /\ \A e \in Entries : e # written' => pub'[e] = pub[e]
      /\ pub'[written'].at \in {"none", "read"}
    BY <1>1, <1>2 DEF RouterWrites, Callback, Unread
<1>4. \A e \in Entries : written' < e => pub[e].at = "none"
  <2>1. \A e \in Entries : written' < e => written < e
      BY <1>1
  <2>2. \A e \in Entries : written < e => pub[e].at = "none"
      BY <1>0 DEF Reading, Unread
  <2> QED BY <2>1, <2>2
<1>5. InTurn'
    BY <1>1, <1>3, <1>4 DEF Ordered, InTurn, Begun
<1>6. \A f \in Entries : Begun(f) => f # written'
    BY <1>2 DEF Begun, Unread
<1> QED BY <1>0, <1>3, <1>5, <1>6, SteadyOrder DEF Ordered, Begun, RouterWrites

LEMMA OrderStart ==
  ASSUME Safe, Ordered, NEW e \in Entries, PublishStarts(e)
  PROVE  Ordered'
<1>0. TypeOK
    BY DEF Safe
<1>1. /\ CallbackMoves(e) /\ pub'[e].at \in {"sending", "done"}
      /\ pub[e].at = "read"
    BY <1>0, StartMoves DEF PublishStarts
<1>2. \A f \in Entries : f < e /\ pub[f].run = pub[e].run => pub[f].at = "done"
    BY DEF PublishStarts, Entries
<1>3. InTurn'
    BY <1>1, <1>2 DEF Ordered, InTurn, Begun, CallbackMoves, Entries
<1>4. \A f \in Entries : Begun(f) => f # e
    BY <1>1 DEF Begun
<1> QED BY <1>0, <1>1, <1>3, <1>4, SteadyOrder DEF Ordered, Begun, PublishStarts, CallbackMoves

(* The entry a send appends is the newest of its run in the channel. *)
LEMMA OrderSend ==
  ASSUME Safe, Ordered, NEW e \in Entries, NEW c \in Channels, Publish(e, c)
  PROVE  Ordered'
<1>0. TypeOK
    BY DEF Safe
<1>1. /\ CallbackMoves(e) /\ pub[e].at = "sending" /\ pub'[e].at \in {"sending", "done"}
      /\ pub'[e].to = pub[e].to \ {c} /\ c \in pub[e].to
    BY <1>0, SendMoves DEF Publish
<1>2. \A f \in Entries : Begun(f) =>
         pub'[f].at \in {"sending", "done"} /\ pub'[f].run = pub[f].run
           /\ pub'[f].to \subseteq pub[f].to
    BY <1>1 DEF Begun, CallbackMoves
<1>3. InTurn'
    BY <1>1 DEF Ordered, InTurn, Begun, CallbackMoves, Entries
<1>4. /\ queue \in [Channels -> Seq(Entries)] /\ queue[c] \in Seq(Entries)
      /\ shown \in [Channels -> SUBSET Entries] /\ shown' = shown
      /\ \A d \in Channels : d # c => queue'[d] = queue[d]
      /\ queue'[c] = queue[c] \/ queue'[c] = Append(queue[c], e)
      /\ \A f \in Entries : f \in Nat
  <2>1. \A d \in Channels : d # c => queue'[d] = queue[d]
      BY <1>0, SendQueues
  <2>2. queue'[c] = queue[c] \/ queue'[c] = Append(queue[c], e)
      BY <1>0, SendQueues
  <2>3. \A f \in Entries : f \in Nat
      BY Constants DEF Entries
  <2> QED BY <1>0, <2>1, <2>2, <2>3 DEF TypeOK, Publish
<1>5. \A f \in Entries : Begun(f) /\ c \notin pub[f].to /\ pub[f].run = pub[e].run => f < e
    BY <1>1, <1>4 DEF Ordered, InTurn
<1>6. /\ \A i \in DOMAIN queue[c] : queue[c][i] \in Entries
      /\ \A i \in DOMAIN queue'[c] :
           (i \in DOMAIN queue[c] /\ queue'[c][i] = queue[c][i])
             \/ (queue'[c][i] = e /\ \A j \in DOMAIN queue[c] : j < i)
  <2>1. \A i \in DOMAIN queue[c] : queue[c][i] \in Entries
      BY <1>4
  <2>2. CASE queue'[c] = queue[c]
      BY <2>1, <2>2
  <2>3. CASE queue'[c] = Append(queue[c], e)
    <3>1. /\ Len(queue[c]) \in Nat /\ DOMAIN queue[c] = 1..Len(queue[c])
          /\ DOMAIN queue'[c] = 1..(Len(queue[c]) + 1)
        BY <1>4, <2>3
    <3>2. \A i \in 1..Len(queue[c]) : queue'[c][i] = queue[c][i]
        BY <1>4, <2>3
    <3>3. queue'[c][Len(queue[c]) + 1] = e
        BY <1>4, <2>3
    <3>4. \A i \in 1..(Len(queue[c]) + 1) : i \in 1..Len(queue[c]) \/ i = Len(queue[c]) + 1
        BY <3>1
    <3>5. \A j \in DOMAIN queue[c] : j < Len(queue[c]) + 1
        BY <3>1
    <3> QED BY <2>1, <3>1, <3>2, <3>3, <3>4, <3>5
  <2> QED BY <1>4, <2>2, <2>3
<1>7. \A d \in Channels : /\ \A i \in DOMAIN queue[d] : queue[d][i] \in Entries
                          /\ \A f \in shown[d] : f \in Entries
    BY <1>4
<1>8. Placed'
  <2> SUFFICES ASSUME NEW d \in Channels
               PROVE  /\ \A i \in DOMAIN queue'[d] : (Begun(queue[d][i]) /\ d \notin pub[queue[d][i]].to)'
                      /\ \A f \in shown'[d] : (Begun(f) /\ d \notin pub[f].to)'
      BY DEF Placed
  <2>1. \A f \in shown'[d] : (Begun(f) /\ d \notin pub[f].to)'
      BY <1>2, <1>4, <1>7 DEF Ordered, Placed, Begun
  <2>2. CASE d # c
      BY <1>2, <1>4, <1>7, <2>1, <2>2 DEF Ordered, Placed, Begun
  <2>3. CASE d = c
    <3>1. pub'[e].at \in {"sending", "done"} /\ c \notin pub'[e].to
        BY <1>1
    <3>2. \A i \in DOMAIN queue[c] :
             pub'[queue[c][i]].at \in {"sending", "done"} /\ c \notin pub'[queue[c][i]].to
        BY <1>2, <1>6 DEF Ordered, Placed
    <3> QED BY <1>6, <2>1, <2>3, <3>1, <3>2 DEF Begun
  <2> QED BY <2>2, <2>3
<1>9. \A d \in Channels : \A i \in DOMAIN queue[d] :
         pub'[queue[d][i]].run = pub[queue[d][i]].run
    BY <1>2, <1>7 DEF Ordered, Placed
<1>10. \A d \in Channels : \A f \in shown[d] : pub'[f].run = pub[f].run
    BY <1>2, <1>7 DEF Ordered, Placed
<1>11. pub'[e].run = pub[e].run
    BY <1>1 DEF CallbackMoves
<1>12. QueueInOrder'
  <2> SUFFICES ASSUME NEW d \in Channels, NEW i \in DOMAIN queue'[d], NEW j \in DOMAIN queue'[d],
                      i < j, pub'[queue'[d][i]].run = pub'[queue'[d][j]].run
               PROVE  queue'[d][i] < queue'[d][j]
      BY DEF QueueInOrder
  <2>1. CASE d # c
    <3>1. queue'[d] = queue[d]
        BY <1>4, <2>1
    <3>2. /\ i \in DOMAIN queue[d] /\ j \in DOMAIN queue[d]
          /\ pub[queue[d][i]].run = pub[queue[d][j]].run
        BY <1>9, <3>1
    <3>3. queue[d][i] < queue[d][j]
        BY <3>2 DEF Ordered, QueueInOrder
    <3> QED BY <3>1, <3>3
  <2>2. CASE d = c
    <3>0. i \in Int /\ j \in Int
        BY <1>4, <2>2
    <3>1. i \in DOMAIN queue[c] /\ queue'[c][i] = queue[c][i]
      <4>1. CASE j \in DOMAIN queue[c]
          BY <1>4, <1>6, <2>2, <3>0, <4>1
      <4>2. CASE j \notin DOMAIN queue[c]
          BY <1>4, <1>6, <2>2, <3>0, <4>2
      <4> QED BY <4>1, <4>2
    <3>2. CASE j \in DOMAIN queue[c] /\ queue'[c][j] = queue[c][j]
        BY <1>9, <2>2, <3>1, <3>2 DEF Ordered, QueueInOrder
    <3>3. CASE queue'[c][j] = e
      <4>1. pub[queue[c][i]].run = pub[e].run
          BY <1>9, <1>11, <2>2, <3>1, <3>3
      <4>2. Begun(queue[c][i]) /\ c \notin pub[queue[c][i]].to /\ queue[c][i] \in Entries
          BY <1>6, <3>1 DEF Ordered, Placed
      <4> QED BY <1>5, <2>2, <3>1, <3>3, <4>1, <4>2
    <3> QED BY <1>6, <2>2, <3>2, <3>3
  <2> QED BY <2>1, <2>2
<1>13. ShownFirst'
  <2> SUFFICES ASSUME NEW d \in Channels, NEW f \in shown[d], NEW i \in DOMAIN queue'[d],
                      pub'[f].run = pub'[queue'[d][i]].run
               PROVE  f < queue'[d][i]
      BY <1>4 DEF ShownFirst
  <2>1. CASE d # c
    <3>1. queue'[d] = queue[d]
        BY <1>4, <2>1
    <3>2. i \in DOMAIN queue[d] /\ pub[f].run = pub[queue[d][i]].run
        BY <1>9, <1>10, <3>1
    <3>3. f < queue[d][i]
        BY <3>2 DEF Ordered, ShownFirst
    <3> QED BY <3>1, <3>3
  <2>2. CASE d = c
    <3>1. CASE i \in DOMAIN queue[c] /\ queue'[c][i] = queue[c][i]
        BY <1>9, <1>10, <2>2, <3>1 DEF Ordered, ShownFirst
    <3>2. CASE queue'[c][i] = e
      <4>1. Begun(f) /\ c \notin pub[f].to /\ f \in Entries
          BY <1>7, <2>2 DEF Ordered, Placed
      <4> QED BY <1>5, <1>10, <1>11, <2>2, <3>2, <4>1
    <3> QED BY <1>6, <2>2, <3>1, <3>2
  <2> QED BY <2>1, <2>2
<1> QED BY <1>3, <1>8, <1>12, <1>13 DEF Ordered

(* The writer takes the oldest event of the channel. *)
LEMMA OrderShow ==
  ASSUME Safe, Ordered, NEW c \in Channels, WriteEvent(c)
  PROVE  Ordered'
<1>0. TypeOK
    BY DEF Safe
<1>1. /\ queue \in [Channels -> Seq(Entries)] /\ queue[c] \in Seq(Entries) /\ queue[c] # << >>
      /\ queue' = [queue EXCEPT ![c] = Tail(queue[c])]
      /\ shown \in [Channels -> SUBSET Entries] /\ pub' = pub
    BY <1>0 DEF TypeOK, WriteEvent
<1>2. /\ 1 \in DOMAIN queue[c] /\ Head(queue[c]) = queue[c][1]
      /\ \A i \in DOMAIN Tail(queue[c]) :
           i \in Int /\ i + 1 \in DOMAIN queue[c] /\ 1 < i + 1
             /\ Tail(queue[c])[i] = queue[c][i + 1]
    BY <1>1
<1>3. /\ \A d \in Channels : d # c => queue'[d] = queue[d] /\ shown'[d] = shown[d]
      /\ queue'[c] = Tail(queue[c])
      /\ shown'[c] \subseteq shown[c] \cup {queue[c][1]}
    BY <1>1, <1>2 DEF WriteEvent
<1>4. InTurn'
    BY <1>1 DEF Ordered, InTurn, Begun
<1>5. Placed'
  <2>1. \A d \in Channels : d # c =>
          /\ \A i \in DOMAIN queue'[d] : (Begun(queue[d][i]) /\ d \notin pub[queue[d][i]].to)'
          /\ \A f \in shown'[d] : (Begun(f) /\ d \notin pub[f].to)'
      BY <1>1, <1>3 DEF Ordered, Placed, Begun
  <2>2. \A i \in DOMAIN queue'[c] : (Begun(queue[c][i]) /\ c \notin pub[queue[c][i]].to)'
      BY <1>1, <1>2, <1>3 DEF Ordered, Placed, Begun
  <2>3. \A f \in shown'[c] : (Begun(f) /\ c \notin pub[f].to)'
      BY <1>1, <1>2, <1>3 DEF Ordered, Placed, Begun
  <2> QED BY <2>1, <2>2, <2>3 DEF Placed
<1>6. QueueInOrder'
  <2> SUFFICES ASSUME NEW d \in Channels, NEW i \in DOMAIN queue'[d], NEW j \in DOMAIN queue'[d],
                      i < j, pub[queue'[d][i]].run = pub[queue'[d][j]].run
               PROVE  queue'[d][i] < queue'[d][j]
      BY <1>1 DEF QueueInOrder
  <2>1. CASE d # c
      BY <1>3, <2>1 DEF Ordered, QueueInOrder
  <2>2. CASE d = c
    <3>1. /\ i + 1 \in DOMAIN queue[c] /\ j + 1 \in DOMAIN queue[c] /\ i + 1 < j + 1
          /\ queue'[c][i] = queue[c][i + 1] /\ queue'[c][j] = queue[c][j + 1]
      <4>1. i \in DOMAIN Tail(queue[c]) /\ j \in DOMAIN Tail(queue[c])
          BY <1>3, <2>2
      <4>2. i \in Int /\ j \in Int
          BY <1>2, <4>1
      <4> QED BY <1>2, <1>3, <4>1, <4>2
    <3> QED BY <2>2, <3>1 DEF Ordered, QueueInOrder
  <2> QED BY <2>1, <2>2
<1>7. ShownFirst'
  <2> SUFFICES ASSUME NEW d \in Channels, NEW f \in shown'[d], NEW i \in DOMAIN queue'[d],
                      pub[f].run = pub[queue'[d][i]].run
               PROVE  f < queue'[d][i]
      BY <1>1 DEF ShownFirst
  <2>1. CASE d # c
      BY <1>3, <2>1 DEF Ordered, ShownFirst
  <2>2. CASE d = c
    <3>1. i + 1 \in DOMAIN queue[c] /\ 1 < i + 1 /\ queue'[c][i] = queue[c][i + 1]
        BY <1>2, <1>3, <2>2
    <3>2. CASE f \in shown[c]
        BY <2>2, <3>1, <3>2 DEF Ordered, ShownFirst
    <3>3. CASE f = queue[c][1]
        BY <1>2, <2>2, <3>1, <3>3 DEF Ordered, QueueInOrder
    <3> QED BY <1>3, <2>2, <3>2, <3>3
  <2> QED BY <2>1, <2>2
<1> QED BY <1>4, <1>5, <1>6, <1>7 DEF Ordered

(* A channel that is left is empty. *)
LEMMA OrderLeave ==
  ASSUME Safe, Ordered, NEW c \in Channels, Unsubscribe(c)
  PROVE  Ordered'
<1>0. TypeOK
    BY DEF Safe
<1>1. /\ queue' = [queue EXCEPT ![c] = << >>] /\ shown' = [shown EXCEPT ![c] = {}] /\ pub' = pub
      /\ queue \in [Channels -> Seq(Entries)] /\ shown \in [Channels -> SUBSET Entries]
    BY <1>0 DEF TypeOK, Unsubscribe
<1>2. /\ \A d \in Channels : d # c => queue'[d] = queue[d] /\ shown'[d] = shown[d]
      /\ queue'[c] = << >> /\ shown'[c] = {} /\ DOMAIN << >> = {}
    BY <1>1
<1>3. InTurn'
    BY <1>1 DEF Ordered, InTurn, Begun
<1>4. Placed'
    BY <1>1, <1>2 DEF Ordered, Placed, Begun
<1>5. QueueInOrder'
    BY <1>1, <1>2 DEF Ordered, QueueInOrder
<1>6. ShownFirst'
    BY <1>1, <1>2 DEF Ordered, ShownFirst
<1> QED BY <1>3, <1>4, <1>5, <1>6 DEF Ordered

LEMMA OrderSame == Ordered /\ UNCHANGED <<pub, queue, shown>> => Ordered'
  BY DEF Ordered, InTurn, Placed, QueueInOrder, ShownFirst, Begun

LEMMA OrderInductive == Safe /\ Ordered /\ [Next]_vars => Ordered'
<1> SUFFICES ASSUME Safe, Ordered, [Next]_vars PROVE Ordered'
    OBVIOUS
<1>1. CASE UNCHANGED vars
    BY <1>1, OrderSame DEF vars
<1>2. CASE RouterWrites
    BY <1>2, OrderWrite
<1>3. CASE UpdateDevice \/ Dialled \/ DialFailed
    BY <1>3, OrderSame DEF UpdateDevice, Dialled, DialFailed
<1>4. ASSUME NEW e \in Entries, Send(e) PROVE Ordered'
    BY <1>4, OrderStart, OrderSend DEF Send
<1>5. ASSUME NEW c \in Channels, Serve(c) PROVE Ordered'
  <2>1. CASE Reserve(c) \/ Refuse(c) \/ Subscribe(c) \/ SubscribeFails(c)
      BY <2>1, OrderSame DEF Reserve, Refuse, Subscribe, SubscribeFails
  <2> QED BY <1>5, <2>1, OrderShow, OrderLeave DEF Serve
<1>6. ASSUME NEW p \in Pages, Mount(p) \/ Retry(p) \/ Broken(p) \/ Leave(p) PROVE Ordered'
    BY <1>6, OrderSame DEF Mount, Retry, Connect, Broken, Leave
<1>7. CASE \/ \E p \in Pages : TokenExpires(p) \/ TokenReplaced(p)
           \/ OtherReserves \/ OtherReleases
    BY <1>7, OrderSame DEF TokenExpires, TokenReplaced, OtherReserves, OtherReleases, Around
<1> QED BY <1>1, <1>2, <1>3, <1>4, <1>5, <1>6, <1>7 DEF Next
-----------------------------------------------------------------------------
(* The eras of the feed: for each entry written, the run that read it. *)
Era == [e \in 1..written |-> pub[e].run]

(* A step that writes nothing and keeps the runs leaves the eras alone. *)
LEMMA EraSame ==
  ASSUME TypeOK, written' = written, \A e \in Entries : pub'[e].run = pub[e].run
  PROVE  Era' = Era
<1>1. \A e \in 1..written : e \in Entries
    BY Constants DEF TypeOK, Entries
<1> QED BY <1>1 DEF Era

LEMMA FeedInit == Init => Feed!Init
<1> SUFFICES ASSUME Init PROVE Feed!Init
    OBVIOUS
<1>1. [e \in 1..written |-> pub[e].run] = << >>
    BY DEF Init
<1> QED BY <1>1 DEF Init, Feed!Init

(* RouterWrites is Write. *)
LEMMA WriteFeeds == Safe /\ RouterWrites => Feed!Write
<1> SUFFICES ASSUME Safe, RouterWrites PROVE Feed!Write
    OBVIOUS
<1>0. TypeOK /\ Served /\ Reading
    BY DEF Safe
<1>1. /\ written' = written + 1 /\ written' \in Entries /\ written \in Nat
      /\ pub \in [Entries -> Callback] /\ pub[written'] = Unread
      /\ broker.run \in Nat
      /\ \A e \in 1..written : e \in Entries /\ e # written'
    BY <1>0, Constants DEF TypeOK, RouterWrites, Entries, Reading, Broker
<1>2. /\ \A e \in Entries : e # written' => pub'[e] = pub[e]
      /\ pub'[written'].run \in IF broker.running THEN {0, broker.run} ELSE {0}
  <2>1. CASE pub' = pub
      BY <1>1, <2>1 DEF Unread
  <2>2. ASSUME broker.running,
               pub' = [pub EXCEPT ![written'].at = "read", ![written'].run = broker.run]
        PROVE  /\ \A e \in Entries : e # written' => pub'[e] = pub[e]
               /\ pub'[written'].run = broker.run
      BY <1>1, <2>2 DEF Callback
  <2> QED BY <2>1, <2>2 DEF RouterWrites, Hearing
<1>3. Era \in Seq(Nat) /\ Len(Era) = written
    BY <1>1 DEF Era, Callback
<1>4. Era' = Append(Era, pub'[written'].run)
  <2>1. Era' = [e \in 1..(written + 1) |-> pub'[e].run]
      BY <1>1 DEF Era
  <2>2. \A e \in 1..written : pub'[e].run = Era[e]
      BY <1>1, <1>2 DEF Era
  <2> QED BY <1>1, <1>3, <2>1, <2>2
<1>5. UNCHANGED <<subs, broker, shown>>
    BY DEF RouterWrites
<1> QED BY <1>2, <1>4, <1>5 DEF Feed!Write, Era

(* Subscribe is Join. *)
LEMMA SubscribeFeeds ==
  ASSUME Safe, NEW c \in Channels, Subscribe(c)
  PROVE  Feed!Join(c)
<1>0. TypeOK /\ Served
    BY DEF Safe
<1>1. c \notin subs
    BY <1>0 DEF Served, Subscribe
<1>2. broker'.running /\ broker'.run = IF broker.running THEN broker.run ELSE broker.run + 1
  <2>1. CASE broker.started
      BY <1>0, <2>1 DEF Subscribe, Served
  <2>2. CASE ~broker.started
    <3>1. ~broker.running
        BY <1>0, <2>2 DEF Served
    <3> QED BY <2>2, <3>1 DEF Subscribe
  <2> QED BY <2>1, <2>2
<1>3. broker'.running = TRUE
  <2>1. broker' \in Broker
      BY SubscribeKeepsSafe DEF Safe, TypeOK
  <2> QED BY <1>2, <2>1 DEF Broker
<1>4. Era' = Era
    BY <1>0, EraSame DEF Subscribe, router
<1> QED BY <1>1, <1>2, <1>3, <1>4 DEF Feed!Join, Era, Subscribe

(* Unsubscribe is Leave. *)
LEMMA UnsubscribeFeeds ==
  ASSUME Safe, NEW c \in Channels, Unsubscribe(c)
  PROVE  Feed!Leave(c)
<1>0. TypeOK /\ Served
    BY DEF Safe
<1>1. c \in subs
    BY <1>0 DEF Served, Unsubscribe
<1>2. /\ broker' \in Broker /\ (broker'.running <=> subs' # {})
    BY UnsubscribeKeepsSafe DEF Safe, TypeOK, Served
<1>3. broker'.running = (subs' # {})
    BY <1>2 DEF Broker
<1>4. broker'.run = broker.run
    BY <1>0 DEF Unsubscribe, TypeOK, Broker
<1>5. Era' = Era
    BY <1>0, EraSame DEF Unsubscribe, router
<1> QED BY <1>1, <1>3, <1>4, <1>5 DEF Feed!Leave, Era, Unsubscribe

(* WriteEvent is Show for a page that listens, and a stutter for one that    *)
(* has gone.                                                                 *)
LEMMA WriteEventFeeds ==
  ASSUME Safe, Ordered, NEW c \in Channels, WriteEvent(c)
  PROVE  (\E e \in DOMAIN Era : Feed!Show(c, e)) \/ UNCHANGED Feed!feedVars
<1>0. TypeOK /\ Served /\ Reading
    BY DEF Safe
<1>1. c \in subs
    BY <1>0 DEF Served, WriteEvent
<1>2. /\ queue[c] \in Seq(Entries) /\ queue[c] # << >> /\ shown[c] \in SUBSET Entries
      /\ shown \in [Channels -> SUBSET Entries] /\ written \in 0..MaxWritten
    BY <1>0 DEF TypeOK, WriteEvent
<1> DEFINE e == Head(queue[c])
<1>3. e \in Entries /\ 1 \in DOMAIN queue[c] /\ e = queue[c][1]
    BY <1>2
<1> HIDE DEF e
<1>4. Begun(e)
    BY <1>3 DEF Ordered, Placed
<1>5. \A f \in Entries : Begun(f) => f \in 1..written /\ pub[f].run # 0
    BY <1>0, <1>2, Constants DEF Begun, Reading, Unread, Entries
<1>6. \A f \in shown[c] : f \in 1..written /\ (pub[f].run = pub[e].run => f < e)
    BY <1>2, <1>3, <1>5 DEF Ordered, Placed, ShownFirst
<1>7. e \notin shown[c]
  <2>1. e \in Nat
      BY <1>3, Constants DEF Entries
  <2> QED BY <1>6, <2>1
<1>8. e \in DOMAIN Era /\ Era[e] # 0 /\ Era[e] = pub[e].run
    BY <1>3, <1>4, <1>5 DEF Era
<1>9. \A f \in shown[c] : Era[f] = Era[e] => f < e
    BY <1>6, <1>8 DEF Era
<1>10. UNCHANGED <<subs, broker>> /\ Era' = Era
    BY <1>0, EraSame DEF WriteEvent, router
<1>11. CASE Gone(c)
  <2>1. shown' = shown
      BY <1>2, <1>11 DEF WriteEvent
  <2> QED BY <1>10, <2>1 DEF Feed!feedVars, Era
<1>12. CASE ~Gone(c)
  <2>1. shown' = [shown EXCEPT ![c] = @ \cup {e}]
      BY <1>12 DEF WriteEvent, e
  <2>2. Feed!Show(c, e)
      BY <1>1, <1>7, <1>8, <1>9, <1>10, <2>1 DEF Feed!Show, Era
  <2> QED BY <1>8, <2>2
<1> QED BY <1>11, <1>12

LEMMA FeedStep == Safe /\ Ordered /\ [Next]_vars => [Feed!Next]_Feed!feedVars
<1> SUFFICES ASSUME Safe, Ordered, [Next]_vars PROVE [Feed!Next]_Feed!feedVars
    OBVIOUS
<1>0. TypeOK
    BY DEF Safe
<1>1. ASSUME UNCHANGED <<written, broker, subs, shown>>,
             \A e \in Entries : pub'[e].run = pub[e].run
      PROVE  UNCHANGED Feed!feedVars
    BY <1>0, <1>1, EraSame DEF Feed!feedVars, Era
<1>2. CASE UNCHANGED vars
    BY <1>1, <1>2 DEF vars
<1>3. CASE RouterWrites
    BY <1>3, WriteFeeds DEF Feed!Next
<1>4. CASE UpdateDevice \/ Dialled \/ DialFailed
    BY <1>1, <1>4 DEF UpdateDevice, Dialled, DialFailed
<1>5. ASSUME NEW e \in Entries, Send(e) PROVE UNCHANGED Feed!feedVars
  <2>1. CallbackMoves(e)
      BY <1>0, <1>5, StartMoves, SendMoves DEF Send
  <2>2. UNCHANGED <<written, broker, subs, shown>>
      BY <1>5 DEF Send, PublishStarts, Publish, router
  <2> QED BY <1>1, <2>1, <2>2 DEF CallbackMoves
<1>6. ASSUME NEW c \in Channels, Serve(c) PROVE [Feed!Next]_Feed!feedVars
  <2>1. CASE Reserve(c) \/ Refuse(c)
      BY <1>1, <2>1 DEF Reserve, Refuse, router
  <2>2. CASE SubscribeFails(c)
    <3>1. broker'.running = broker.running /\ broker'.run = broker.run
        BY <1>0, <2>2 DEF SubscribeFails, TypeOK, Broker
    <3>2. Era' = Era /\ UNCHANGED <<subs, shown>>
        BY <1>0, <2>2, EraSame DEF SubscribeFails, router
    <3> QED BY <3>1, <3>2 DEF Feed!feedVars, Era
  <2>3. CASE Subscribe(c)
      BY <2>3, SubscribeFeeds DEF Feed!Next
  <2>4. CASE Unsubscribe(c)
      BY <2>4, UnsubscribeFeeds DEF Feed!Next
  <2>5. CASE WriteEvent(c)
      BY <2>5, WriteEventFeeds DEF Feed!Next, Era
  <2> QED BY <1>6, <2>1, <2>2, <2>3, <2>4, <2>5 DEF Serve
<1>7. ASSUME NEW p \in Pages, Mount(p) \/ Retry(p) \/ Broken(p) \/ Leave(p)
      PROVE  UNCHANGED Feed!feedVars
    BY <1>1, <1>7 DEF Mount, Retry, Connect, Broken, Leave, router
<1>8. CASE \/ \E p \in Pages : TokenExpires(p) \/ TokenReplaced(p)
           \/ OtherReserves \/ OtherReleases
    BY <1>1, <1>8 DEF TokenExpires, TokenReplaced, OtherReserves, OtherReleases, Around
<1> QED BY <1>2, <1>3, <1>4, <1>5, <1>6, <1>7, <1>8 DEF Next

(* The hub, the broker and useSSE implement EventFeed: whatever the order of *)
(* subscribing, leaving, publishing and writing, one stream runs while       *)
(* somebody watches and a connection is shown an entry at most once, those   *)
(* of one stream in order.                                                   *)
THEOREM StreamIsFeed == Spec => ImplementsFeed
<1>1. Spec => [](Safe /\ Ordered)
    BY SafeInit, SafeInductive, OrderInit, OrderInductive, PTL DEF Spec
<1>2. Spec => Feed!Init
    BY FeedInit DEF Spec
<1>3. Spec => [][Feed!Next]_Feed!feedVars
    BY <1>1, FeedStep, PTL DEF Spec
<1> QED BY <1>2, <1>3, PTL DEF ImplementsFeed, Feed!Spec
-----------------------------------------------------------------------------
(* MissingIsExplained for one channel and one entry. *)
Explained(c, e) ==
  e \in shown[c] \/ Underway(c, e) \/ e \in dropped[c] \/ e \in unheard

Due(c, e) == since[c] < e /\ e <= written

(* A page that is served by channel c keeps to it until it parts from it. *)
LEMMA AnswerParts ==
  ASSUME NEW c \in Channels, NEW next, Answer(c, next), next.ch \in {c, None},
         NEW d \in Channels, ~Gone(d)'
  PROVE  ~Gone(d)
<1>1. PICK p \in Pages : page'[p].ch = d
    BY DEF Gone
<1>2. CASE page[p].ch = c
  <2>1. page'[p] = next
      BY <1>2 DEF Answer
  <2>2. d = c
      BY <1>1, <2>1, Constants DEF Channels, None
  <2> QED BY <1>2, <2>2 DEF Gone
<1>3. CASE page[p].ch # c
  <2>1. page'[p] = page[p]
      BY <1>3 DEF Answer
  <2> QED BY <1>1, <2>1 DEF Gone
<1> QED BY <1>2, <1>3

LEMMA MissingInit == Init => MissingIsExplained
  BY DEF Init, MissingIsExplained

(* The entry just written is read by the stream or counted as unheard: the   *)
(* stream runs, since the channel is subscribed.                             *)
LEMMA MissingWrite == Safe /\ MissingIsExplained /\ RouterWrites => MissingIsExplained'
<1> SUFFICES ASSUME Safe, MissingIsExplained, RouterWrites,
                    NEW c \in subs, NEW e \in Entries, since[c] < e, e <= written', ~Gone(c)
             PROVE  Explained(c, e)'
    BY DEF MissingIsExplained, Explained, RouterWrites, Gone, Underway
<1>0. TypeOK /\ Served /\ Reading
    BY DEF Safe
<1>1. /\ written' = written + 1 /\ written' \in Entries /\ written \in Nat /\ e \in Nat
      /\ pub \in [Entries -> Callback]
    BY <1>0, Constants DEF TypeOK, RouterWrites, Entries
<1>2. UNCHANGED <<shown, dropped, queue>> /\ unheard \subseteq unheard'
    BY DEF RouterWrites
<1>3. broker.running
    BY <1>0 DEF Served
<1>4. CASE e = written'
  <2>1. pub' = [pub EXCEPT ![written'].at = "read", ![written'].run = broker.run]
          \/ e \in unheard'
      BY <1>3, <1>4 DEF RouterWrites
  <2>2. ASSUME pub' = [pub EXCEPT ![written'].at = "read", ![written'].run = broker.run]
        PROVE  pub'[e].at = "read"
      BY <1>1, <1>4, <2>2 DEF Callback
  <2> QED BY <2>1, <2>2 DEF Explained, Underway
<1>5. CASE e # written'
  <2>1. Explained(c, e)
      BY <1>1, <1>5 DEF MissingIsExplained, Explained
  <2>2. pub'[e] = pub[e]
      BY <1>1, <1>5 DEF RouterWrites, Callback
  <2> QED BY <1>2, <2>1, <2>2 DEF Explained, Underway
<1> QED BY <1>4, <1>5

(* The snapshot has every subscriber. *)
LEMMA MissingStart ==
  ASSUME Safe, MissingIsExplained, NEW g \in Entries, PublishStarts(g)
  PROVE  MissingIsExplained'
<1> SUFFICES ASSUME NEW c \in subs, NEW e \in Entries, since[c] < e, e <= written, ~Gone(c)
             PROVE  Explained(c, e)'
    BY DEF MissingIsExplained, Explained, PublishStarts, router, Gone, Underway
<1>0. TypeOK
    BY DEF Safe
<1>1. Explained(c, e)
    BY DEF MissingIsExplained, Explained
<1>2. UNCHANGED <<shown, dropped, queue, unheard>>
    BY DEF PublishStarts
<1>3. CASE e = g
    BY <1>0, <1>3, StartMoves DEF Explained, Underway
<1>4. CASE e # g
  <2>1. pub'[e] = pub[e]
      BY <1>0, <1>4, StartMoves DEF CallbackMoves
  <2> QED BY <1>1, <1>2, <2>1 DEF Explained, Underway
<1> QED BY <1>3, <1>4

(* A send puts the entry into the channel or counts it as dropped. *)
LEMMA MissingSend ==
  ASSUME Safe, MissingIsExplained, NEW g \in Entries, NEW d \in Channels, Publish(g, d)
  PROVE  MissingIsExplained'
<1> SUFFICES ASSUME NEW c \in subs, NEW e \in Entries, since[c] < e, e <= written, ~Gone(c)
             PROVE  Explained(c, e)'
    BY DEF MissingIsExplained, Explained, Publish, router, Gone, Underway
<1>0. TypeOK /\ c \in Channels /\ queue[c] \in Seq(Entries) /\ queue[d] \in Seq(Entries)
    BY DEF Safe, TypeOK
<1>1. Explained(c, e)
    BY DEF MissingIsExplained, Explained
<1>2. UNCHANGED <<shown, unheard>>
    BY DEF Publish
<1>3. dropped[c] \subseteq dropped'[c]
    BY <1>0, SendQueues
<1>4. ToSet(queue[c]) \subseteq ToSet(queue'[c])
  <2>1. CASE queue'[c] = queue[c]
      BY <2>1
  <2>2. CASE c = d /\ queue'[d] = Append(queue[d], g)
    <3>1. \A i \in DOMAIN queue[c] : i \in DOMAIN queue'[c] /\ queue'[c][i] = queue[c][i]
        BY <1>0, <2>2
    <3> QED BY <3>1 DEF ToSet
  <2>3. c # d => queue'[c] = queue[c]
      BY <1>0, SendQueues
  <2>4. queue'[d] = queue[d] \/ queue'[d] = Append(queue[d], g)
      BY <1>0, SendQueues
  <2> QED BY <2>1, <2>2, <2>3, <2>4
<1>5. CASE e = g /\ c = d
  <2>1. CASE queue'[c] = Append(queue[c], e)
    <3>1. Len(queue[c]) + 1 \in DOMAIN queue'[c] /\ queue'[c][Len(queue[c]) + 1] = e
        BY <1>0, <2>1
    <3>2. e \in ToSet(queue'[c])
        BY <3>1 DEF ToSet
    <3> QED BY <3>2 DEF Explained, Underway
  <2>2. CASE e \in dropped'[c]
      BY <2>2 DEF Explained
  <2>3. queue'[c] = Append(queue[c], e) \/ e \in dropped'[c]
      BY <1>0, <1>5, SendQueues
  <2> QED BY <2>1, <2>2, <2>3
<1>6. CASE ~(e = g /\ c = d)
  <2>1. pub[e].at = "read" => pub'[e].at = "read"
      BY <1>0, SendMoves DEF CallbackMoves
  <2>2. c \in pub[e].to => c \in pub'[e].to
      BY <1>0, <1>6, SendMoves DEF CallbackMoves
  <2> QED BY <1>1, <1>2, <1>3, <1>4, <2>1, <2>2 DEF Explained, Underway
<1> QED BY <1>5, <1>6

(* The writer shows what it takes. *)
LEMMA MissingShow ==
  ASSUME Safe, MissingIsExplained, NEW d \in Channels, WriteEvent(d)
  PROVE  MissingIsExplained'
<1> SUFFICES ASSUME NEW c \in subs, NEW e \in Entries, since[c] < e, e <= written, ~Gone(c)
             PROVE  Explained(c, e)'
    BY DEF MissingIsExplained, Explained, WriteEvent, router, Gone, Underway
<1>0. /\ TypeOK /\ c \in Channels /\ queue \in [Channels -> Seq(Entries)]
      /\ queue[d] \in Seq(Entries) /\ queue[d] # << >> /\ shown \in [Channels -> SUBSET Entries]
    BY DEF Safe, TypeOK, WriteEvent
<1>1. Explained(c, e)
    BY DEF MissingIsExplained, Explained
<1>2. UNCHANGED <<pub, dropped, unheard>> /\ queue' = [queue EXCEPT ![d] = Tail(queue[d])]
    BY DEF WriteEvent
<1>3. CASE c # d
  <2>1. queue'[c] = queue[c] /\ shown'[c] = shown[c]
      BY <1>0, <1>2, <1>3 DEF WriteEvent
  <2> QED BY <1>1, <1>2, <2>1 DEF Explained, Underway
<1>4. CASE c = d
  <2>1. shown'[c] = shown[c] \cup {Head(queue[c])} /\ queue'[c] = Tail(queue[c])
      BY <1>0, <1>2, <1>4 DEF WriteEvent
  <2>2. ToSet(queue[c]) \subseteq ToSet(queue'[c]) \cup {Head(queue[c])}
    <3> SUFFICES ASSUME NEW i \in DOMAIN queue[c]
                 PROVE  queue[c][i] \in ToSet(Tail(queue[c])) \cup {Head(queue[c])}
        BY <2>1 DEF ToSet
    <3>1. CASE i = 1
        BY <1>0, <1>4, <3>1
    <3>2. CASE i # 1
      <4>1. i - 1 \in DOMAIN Tail(queue[c]) /\ Tail(queue[c])[i - 1] = queue[c][i]
          BY <1>0, <1>4, <3>2
      <4> QED BY <4>1 DEF ToSet
    <3> QED BY <3>1, <3>2
  <2> QED BY <1>1, <1>2, <2>1, <2>2 DEF Explained, Underway
<1> QED BY <1>3, <1>4

(* A subscription begins with nothing due. *)
LEMMA MissingSubscribe ==
  ASSUME Safe, MissingIsExplained, NEW d \in Channels, Subscribe(d)
  PROVE  MissingIsExplained'
<1> SUFFICES ASSUME NEW c \in subs', NEW e \in Entries, since'[c] < e, e <= written, ~Gone(c)'
             PROVE  Explained(c, e)'
    BY DEF MissingIsExplained, Explained, Subscribe, router, Underway
<1>0. /\ TypeOK /\ c \in Channels /\ e \in Nat /\ written \in Nat
      /\ subs' = subs \cup {d} /\ since' = [since EXCEPT ![d] = written]
      /\ since \in [Channels -> 0..MaxWritten]
  <2>1. TypeOK
      BY DEF Safe
  <2>2. subs' = subs \cup {d} /\ since' = [since EXCEPT ![d] = written]
      BY DEF Subscribe
  <2>3. /\ written \in 0..MaxWritten /\ since \in [Channels -> 0..MaxWritten]
        /\ subs \subseteq Channels
      BY <2>1 DEF TypeOK
  <2>4. MaxWritten \in Nat
      BY Constants
  <2>5. e \in Nat /\ written \in Nat
      BY <2>3, <2>4 DEF Entries
  <2> QED BY <2>1, <2>2, <2>3, <2>5
<1>1. c # d /\ c \in subs
    BY <1>0
<1>2. ~Gone(c)
  <2>1. [at |-> "open", ch |-> d].ch \in {d, None}
      OBVIOUS
  <2> QED BY <1>0, <2>1, AnswerParts DEF Subscribe
<1>3. Explained(c, e)
    BY <1>0, <1>1, <1>2 DEF MissingIsExplained, Explained
<1> QED BY <1>3 DEF Explained, Underway, Subscribe

LEMMA MissingLeave ==
  ASSUME Safe, MissingIsExplained, NEW d \in Channels, Unsubscribe(d)
  PROVE  MissingIsExplained'
<1> SUFFICES ASSUME NEW c \in subs', NEW e \in Entries, since'[c] < e, e <= written, ~Gone(c)
             PROVE  Explained(c, e)'
    BY DEF MissingIsExplained, Explained, Unsubscribe, router, Underway, Gone
<1>0. TypeOK /\ c \in Channels /\ c # d /\ c \in subs
    BY DEF Safe, TypeOK, Unsubscribe
<1>1. /\ queue'[c] = queue[c] /\ shown'[c] = shown[c] /\ since'[c] = since[c]
      /\ dropped'[c] = dropped[c] /\ UNCHANGED <<pub, unheard>>
    BY <1>0 DEF TypeOK, Unsubscribe
<1>2. Explained(c, e)
    BY <1>0, <1>1 DEF MissingIsExplained, Explained
<1> QED BY <1>1, <1>2 DEF Explained, Underway

(* The other steps touch neither the subscriptions nor what is on its way; a *)
(* page that connects gets a channel that is not subscribed.                 *)
LEMMA MissingSame ==
  ASSUME MissingIsExplained,
         UNCHANGED <<written, subs, since, shown, pub, queue, dropped, unheard>>,
         \A c \in subs : Gone(c) => Gone(c)'
  PROVE  MissingIsExplained'
  BY DEF MissingIsExplained, Underway

LEMMA MissingInductive == Safe /\ MissingIsExplained /\ [Next]_vars => MissingIsExplained'
<1> SUFFICES ASSUME Safe, MissingIsExplained, [Next]_vars PROVE MissingIsExplained'
    OBVIOUS
<1>0. TypeOK /\ Served
    BY DEF Safe
<1>1. CASE UNCHANGED vars
    BY <1>1, MissingSame DEF vars, Gone
<1>2. CASE RouterWrites
    BY <1>2, MissingWrite
<1>3. CASE UpdateDevice \/ Dialled \/ DialFailed
    BY <1>3, MissingSame DEF UpdateDevice, Dialled, DialFailed, Gone
<1>4. ASSUME NEW e \in Entries, Send(e) PROVE MissingIsExplained'
    BY <1>4, MissingStart, MissingSend DEF Send
<1>5. ASSUME NEW c \in Channels, Serve(c) PROVE MissingIsExplained'
  <2>1. CASE Reserve(c)
      BY <2>1, MissingSame DEF Reserve, router, Gone
  <2>2. CASE Refuse(c) \/ SubscribeFails(c)
    <3>1. Answer(c, Failed) /\ Failed.ch \in {c, None}
        BY <2>2 DEF Refuse, SubscribeFails, Failed
    <3>2. \A d \in subs : Gone(d) => Gone(d)'
        BY <1>0, <3>1, AnswerParts DEF TypeOK
    <3> QED BY <2>2, <3>2, MissingSame DEF Refuse, SubscribeFails, router
  <2> QED BY <1>5, <2>1, <2>2, MissingShow, MissingSubscribe, MissingLeave DEF Serve
<1>6. ASSUME NEW p \in Pages, Connect(p) PROVE MissingIsExplained'
  <2>1. PICK d \in Channels :
          conn[d].at = "free" /\ page' = [page EXCEPT ![p] = [at |-> "connecting", ch |-> d]]
      BY <1>6 DEF Connect, Free
  <2>2. d \notin subs
      BY <1>0, <2>1 DEF Served
  <2>3. \A c \in subs : Gone(c) => Gone(c)'
      BY <1>0, <2>1, <2>2 DEF TypeOK, Gone
  <2> QED BY <1>6, <2>3, MissingSame DEF Connect, router
<1>7. ASSUME NEW p \in Pages, Broken(p) \/ Leave(p) PROVE MissingIsExplained'
  <2>1. \A q \in Pages : page'[q] = page[q] \/ page'[q].ch = None
      BY <1>0, <1>7 DEF TypeOK, Broken, Leave, Failed
  <2>2. None \notin subs
      BY <1>0, Constants DEF TypeOK, Channels, None
  <2>3. \A c \in subs : Gone(c) => Gone(c)'
      BY <2>1, <2>2 DEF Gone
  <2> QED BY <1>7, <2>3, MissingSame DEF Broken, Leave, router
<1>8. CASE \/ \E p \in Pages : TokenExpires(p) \/ TokenReplaced(p)
           \/ OtherReserves \/ OtherReleases
    BY <1>8, MissingSame DEF TokenExpires, TokenReplaced, OtherReserves, OtherReleases, Around, Gone
<1> QED BY <1>1, <1>2, <1>3, <1>4, <1>5, <1>6, <1>7, <1>8 DEF Next, Mount, Retry

(* No entry is lost between the router and a page that is subscribed, except *)
(* by a full channel, a link that was down or a closed client: Publish's     *)
(* snapshot and the start and stop of the stream lose none.                  *)
THEOREM NoEntryIsLost == Spec => []MissingIsExplained
<1>1. Spec => [](Safe /\ MissingIsExplained)
    BY SafeInit, SafeInductive, MissingInit, MissingInductive, PTL DEF Spec
<1> QED BY <1>1, PTL
=============================================================================
