# rosmon in TLA+

rosmon runs an ISP on MikroTik routers: a Go server with a Postgres database, a
connection to every router, background jobs and an HTTP API, and a web client (React,
TanStack Query and Table) for staff and customers. This directory holds TLA+ models of

- the **server's core**, which keeps three things in agreement: what the database says
  of a customer, what the router gives the customer, and what the customer has been
  billed and has paid;
- the **live streams**, from the device manager through the SSE hub to the page;
- the **session**, from the server's refresh tokens to the tabs of a browser;
- the **web client**: what its screens show of the server's data, and what its dialogs,
  forms and tables do while answers, polls and other users interfere.

Nothing in the core runs in a transaction or under a lock that outlasts a statement, and
the web client acts on copies that are fetched and invalidated. The models therefore make
every statement, router call, request and answer a step of its own.

## Inventory

| Component | State | Operations | Hard because |
|---|---|---|---|
| Outbox job (`job/outbox.go`) | batch of row snapshots | list, push, mark synced, count, give up | the flag is written from a snapshot; calls fail half way; restarts |
| Subscription handlers (`api/handler/subscriptions.go`) | copy of a row | create, update, patch status, delete, batch delete, reconcile | they push to the router themselves, beside the outbox; failures are warnings |
| Subscription store (`store/subscription_store.go`) | rows: status, sync_status, retry count, plan, next_invoice_date | single-statement updates, whole-row `Save` | `Save` reverts and revives |
| Reconciler (`job/reconciler.go`) | list of rows | compare with the router, set the flag | it sets a flag that means something else |
| Suspension check (`job/suspension_check.go`) | list of overdue invoices | mark overdue, isolate, suspend | it acts on what it listed |
| Payment service (`service/payment`) | payments | record, initiate, confirm, reject, webhook, settle | three tables, three statements, two requests |
| Xendit gateway and webhook | external invoices | create, pay, expire, notify | calls time out, notifications come early, twice or never |
| Billing cron and service (`job/billing_cron.go`, `service/billing`) | next_invoice_date, invoices | bill what is due today, advance | equality with today, month arithmetic, two statements |
| Registration (`api/handler/registration.go`) | registrations | complete install | saves the row twice |
| Device manager (`service/devmgr`) | map of connections | add, remove, get, update | dials without the lock; absent and failing are different errors |
| SSE hub, broker, handler (`api/sse`, `api/handler/stream.go`) | reservations, brokers, channels | reserve, subscribe, publish, unsubscribe | sends outside the lock, full channels, a broker bound to its first client |
| Live streams of the client (`web/src/lib/api/sse.ts`) | one connection per page | connect, error, delay, close | connections overlap the ones they replace |
| Authentication (`service/auth`) | refresh tokens | log in, refresh, log out, reset | read, revoke, issue are three statements |
| Session of the client (`lib/api/client.ts`, `stores/auth-store.ts`) | tokens in memory, cookie and storage; queue of requests | send, refresh, retry, sign in, sign out | tabs share the storage and not the flag |
| Query cache (`main.tsx`, `lib/api/query-keys.ts`, `*/api/queries.ts`) | one entry per key | fetch, poll, invalidate, seed | answers and invalidations race; keys name prefixes |
| Dialogs (`features/*/dialogs`, `components`) | open dialog, current row or ticks, timers | open, dismiss, confirm, answer | answers and timers of an earlier opening; polls that move the rows; buttons nothing disables |
| Forms (drawers, settings pages) and the endpoints behind them | values, record they started from | open, type, save, reset, remount | others edit the record; row, input, payload and endpoint each convert a field by rules of their own |
| Tables (`components/data-table`, `hooks/use-table-url-state.ts`) | rows, ticks, page, filter, history | fetch, tick, filter, page, bulk action, back, forward, link | rows are places, and places change |
| Notifications, voucher expiry, workflows, rate limiter, metrics, backup | logs, router users, buckets | send, sweep, generate, allow | not modelled, see below |

How they interact: on the server, handlers and jobs share the database rows and nothing
else. A status with a flag (`pending_*`) is a message to the outbox, with room for one: a
second one replaces the first. The suspension check and the settlement send such
messages; the cron, the installation and every activation share `next_invoice_date`; the
settlement and the suspension check share invoices and subscription status. The web
client calls the API, keeps answers under keys, and learns of a change through its own
invalidations, a poll, or a stream.

What makes each part correct:

- a row that is marked synced is what the router has, and every row gets there or is
  given up on;
- every active subscription is billed, and for each month of its schedule;
- a confirmed payment settles its invoice and gives the service back; money at the
  gateway ends up on a confirmed payment; cash is taken once;
- a page that follows a stream gets each entry at most once, in order, and hears the
  router again after every interruption;
- a refresh token is exchanged once, a session ends for a reason, every request ends;
- a screen shows the write its user was told of; a dialog, form or table acts on the
  record the user meant and with the values the user typed.

The code cannot keep all of these in all circumstances. The properties say that the
circumstances that are named, as causes or as lists of components, are **all** of them.

## Modules

| Module | Models |
|---|---|
| `SubscriptionSync` | rows, secrets on the router, outbox, handlers, jobs, connection, restarts |
| `SubscriptionDrift` | `SubscriptionSync` with a history variable for the causes of drift; `DriftExplained` and its inductive invariant |
| `SubscriptionClaims` | fairness, `Converges`, and what the outbox is said to guarantee |
| `Billing`, `BillingSchedule` | the billing date, the cron, the calendar; causes by which the date falls behind, and the months it moves over |
| `Payments`, `PaymentSettlement`, `PaymentCollection` | payments, invoices, gateway, webhook, settlement, suspension check; causes that separate them; payments over the counter |
| `LiveStream` | device manager, hub, broker, handler and `useSSE` for one topic |
| `EventFeed` | the abstract specification of a topic |
| `StreamSafety` | the refinement of `EventFeed` by `LiveStream`, and the stream's properties |
| `WebSession`, `SessionSafety` | refresh tokens and the client's session in several tabs; its properties |
| `WebApi`, `WebApiRouter`, `WebApiOffice` | every query and mutation hook: key, tables read or written, keys invalidated |
| `Ui`, `UiHotspot`, `UiPpp`, `UiVoucher`, `UiOffice`, `UiAdmin`, `UiPortal` | every screen, dialog, form and table of the features |
| `WebCatalog` | all of them, with the assumption that every name that is used exists |
| `QueryCache`, `WebFreshness` | the cache between the hooks and the server; freshness |
| `Dialogs`, `DialogSafety` | the life of a dialog and its requests |
| `Forms`, `FormSafety` | a field from the record through the form and the endpoint to the record |
| `Tables`, `TableSafety` | rows, ticks, pages, the address and the browser's history |
| `SubscriptionDrift_proofs`, `BillingSchedule_proofs`, `PaymentSettlement_proofs`, `StreamSafety_proofs`, `SessionSafety_proofs`, `QueryCache_proofs`, `DialogSafety_proofs`, `WebScreens_proofs` | the theorems about these components, the last one about tables and forms (see Proofs) |
| `MC*` | instances for TLC, where the values do not fit into a `.cfg`; the other runs take the component's module |

Operators whose comment begins "A faulty form" are never part of a specification.
Each stands for a plausible mistake in the code; put in the place of the definition
that follows it, it makes TLC find the property violated that the definition is there
for, which shows that the property depends on the code.

### SubscriptionSync

`row[s]` has the columns that matter (`live` is `deleted_at IS NULL`), `secret[s]` is
the `/ppp/secret` or `/ip/hotspot/user` of the same name. `link` is what devmgr makes
of the device: *up*; *down*, in the map while calls fail and may have been carried
out (10 s timeouts); *gone*, not in the map, so that `Get` fails. `outbox[s]` is the
snapshot of the running `OutboxJob.Run` and its phase; rows are worked through one
after the other. `work[w]` is a request or job under way: the copy of the row it holds
and the statement it comes to next.

| Action | Code |
|---|---|
| `OutboxRun`, `OutboxApply`, `OutboxMarkSynced`, `OutboxIncrRetry`, `OutboxEscalate` | `OutboxJob.Run` with `applySync` and the `do*` methods |
| `Create`, `TryProvision`, `WriteStatus`, `WriteSyncStatus` | `Subscriptions.Create` |
| `CompleteInstall`, `SaveRow` | `Registrations.CompleteInstall` |
| `Update`, `SaveRow`, `PushToRouter` | `Subscriptions.Update`, `trySetOnRouter` |
| `PatchStatus`, `WriteStatus`, `PushToRouter` | `Subscriptions.PatchStatus`, `trySyncStatus` |
| `Delete`, `TryRemove`; `BatchDelete` | the handlers of these names |
| `Reconcile`, `PushToRouter` | `Subscriptions.Reconcile`, `ensureRouterState` |
| `SuspensionIsolir`, `SuspensionSuspend`, `WriteStatus`, `WriteSyncStatus` | `SuspensionCheckJob.Run`, steps 2 and 3 |
| `ApplySettlement`, `WriteStatus`, `WriteSyncStatus` | `applySettlement`, the subscription |
| `ReconcilerRun`, `CheckDrift`, `WriteSyncStatus` | `ReconcilerJob.Run` |
| `LinkChange`, `Tamper`, `Restart` | devmgr; an edit by hand; stop and start of the server |

The set of values a failing call may leave is `Reach`: before, between and after its
sub-steps. gorm's `Save` falls back to an upsert when no live row matches, so a saved
copy revives a deleted row.

### Billing

A date is a month and a day; `AddMonth` is the month of `AddDate(0, 1, 0)` with its
overflow. `clock` tells the time before the cron's hour from the time after it.
`CronRun`, `CronGenerate` and `CronAdvance` are `BillingCronJob.Run`;
`CompleteInstall`, `FirstInvoice` and `SaveRow` the installation; `UpdateStatus` every
change of status; `Update` with `SaveRow` the edit of the row; `Generate` the invoice
an operator asks for. `Outage` is a server that is down at seven, `Restart` one that
stops in the middle. `Fault` is a statement that fails; among its reasons is the
sequence counter, where two first invoices of a month collide.

### Payments

Requests are `Pay` (staff, scan of the code, portal upload, gateway), `Confirm`,
`Reject`, `Cancel` and `Webhook`, each ending with what it reads before its first
write; then come the statements (`CreatePayment`, `CallGateway`, `SaveRef`,
`WriteConfirmed`, ..., `SettleInvoice`, `SettleGet`, `SettleRestore`). The suspension
check is `CheckRun`, `CheckMark`, `CheckGet`, `CheckWrite`. The gateway sends a status
(`gateway[p].sent`) until it has an answer of 200 for it (`answered`). `ParseWebhookEvent`
is the adapter's mapping: a status it does not know (`"OTHER"`) counts as failed and
rejects the payment. An answer is given at the end of the request, and at once for a
payment the webhook does not find or skips, and while the gateway's settings cannot be
read or are empty, which the handler answers as ignored. Only errors that the code drops
have a branch (`Fault`); an error that ends the request leaves what a restart leaves.

### LiveStream and EventFeed

An entry the router writes is its number. `device` is devmgr's map: `UpdateDevice` takes
the client out and closes it, `Dialled` and `DialFailed` end a dial that runs without the
lock. A connection is a channel: `Reserve` or `Refuse` (a 401 of `RequireAuth` for a token
past its time, the cap of the topic, the cap of the router, or no client), `Subscribe` (the
first one starts the stream) or `SubscribeFails`, on a closed client or a live one, `WriteEvent`,
`Unsubscribe`. `PublishStarts` takes the snapshot of the subscribers under the lock,
`Publish` is one non-blocking send of the loop outside it. `Mount`, `Retry`, `Broken` and
`Leave` are `useSSE`, which puts the stored access token into the address; `TokenExpires` and
`TokenReplaced` are what happens to that token, `OtherReserves` and `OtherReleases` the streams
of other topics under the cap of the router. `broker.bound` is the client of the first request: `GetOrCreate`
keeps the start function of that request for ever.

`EventFeed` is what a topic promises, without any of this: one stream to the router
exactly while somebody watches, and a watcher is shown entries that this stream read,
each once, those of one run of the stream in order. `StreamSafety` maps the subscribers
to its watchers, the registered stream to its stream and the run that read an entry to
its era.

### WebSession

`valid` is the refresh tokens that are not revoked, `kept` the pair in the cookie and the
local storage, `held[t]` the pair in the memory of a tab. `Send`, `Answered` and
`Unauthorized` are the interceptors with the queue; `RefreshCheck`, `RefreshRevoke` and
`RefreshIssue` the statements of `Service.Refresh`: a token that is revoked or past its week
is refused, a user who is inactive or gone is barred. `RefreshDone` and `RefreshFailed` are
the two ends of the interceptor's `try`. `LoginVerify`, `LoginIssue` and `LoginDone` are a
sign-in: password, token, store. `SignOut` leaves the page before `SignOutSettled` resets the
store. `UpdateUser` stores the administrator's change and `RevokeAll` is the statement after
it; `DeleteRevoke` and `DeleteRow` are `DeleteUser`, in its order. `Expire` lets access and
refresh tokens grow old. A refresh the client has given up on stops in the model; on the
server it may still issue a pair, which nobody reads.

### The web client's catalogue

`WebApi` gives hooks their form: a query has a key, the tables it reads and whether it is
polled; a mutation the tables it writes and the keys it invalidates, sets or drops. `Ui`
does the same for screens, dialogs, forms and tables; its comments define the words
(`"callback"` or `"await"`, `"changed"` or `"always"`, `"nonempty"` or `"dropped"`, ...). The `WebApi*` and `Ui*`
modules then describe each hook and component by one short definition, read off its
source. `WebCatalog` puts them together, and TLC checks on every web run that every hook
and dialog a screen names is defined.

The engines pick any member and any field, pair or row of it, so a run covers the whole
client:

- `QueryCache`: a mutation and a query of one site whose tables overlap. Server rows are
  a version. `Invalidate` follows TanStack Query: on display the entry is fetched at once,
  cancelling a request when there is data and joining it when there is none.
- `Dialogs`: a dialog and any other one of its host, opened for a new record, for one or for
  the ticked ones. A host with a provider clears its record by a timer after closing, so an
  opening may come before an earlier clearing (`early`); a dialog in a row belongs to a
  place, ticks do as well, and `RowsMove` and `RowVanishes` are the polls that put other
  records there. Callbacks of `mutate` die with the component, an `await` does not;
  `AlertDialogAction` closes at the click. What disables the button differs: the pending
  request of the component (`"pending"`), of the whole tab, or nothing (`"none"`, the two
  multi-delete dialogs); a fan-out sends one request per record by one hook, whose
  `isPending` follows the last.
- `Forms` (`FormInit`, `FormNext`, `FormSpec`): one field of one form. `Starts` is what the
  input makes of the row (a `routerOSBool` that is always off, an empty value shown as a
  preset, a secret that is never fetched), `Payload` what the form sends, `Stored` what the
  endpoint makes of it (fields it does not have, empty strings it skips); an endpoint that
  writes the whole row reads it first (`Read`, `Apply`). Others write the record, a fetch
  may reset the form, the provider's timer remounts it without its row, closing a drawer
  drops the callbacks of its request. Settings pages send one request per field.
- `Tables`: rows are fetched in any order, with rows added or gone; a tick belongs to a
  place. `SetFilter`, `TurnPage`, `Back`, `Forward`, `SameLink` (a link to the same route,
  which empties the search and keeps the component) and `Remount` move through the history;
  the filters are in the component's state and read from the address once.
  Confirmations are in `Dialogs`, except the bulk actions that act on the ticks at once.

## Runs

| Run | Checks | Bounds | States |
|---|---|---|---|
| `drift` | `TypeOK`, `DriftExplained` | 1 subscription, 2 plans, 1 request beside the outbox, all operations, all links, give up after 2, 4 operations | 1.7 million |
| `converge` | `Converges` (liveness) | 2 subscriptions, batch of 1, link up or down, 3 operations with restarts | 37 thousand |
| `schedule` | `TypeOK`, `LapseExplained`, `MonthsAreBilled` | January 27 or 31 to the end of February, billing days 1 and 31, 3 operations | 661 thousand |
| `settlement` | `TypeOK`, `ConfirmedIsSettled`, `SettledIsServed`, `MoneyIsRecorded` | 1 invoice, 2 requests at once, 2 payments, 3 operations | 3.2 million |
| `two_invoices` | `SettledIsServed`, `CollectedOnce` | 2 invoices, 2 requests at once, cash, scans and cancellations, 2 payments, 3 operations with faults and restarts | 2.2 million |
| `cache` | `TypeOK`, `OwnWritesShown`, `StaleOnlyInGaps`, `PolledCatchesUp` (liveness) | every overlapping pair of hooks, 3 writes | 398 thousand |
| `dialogs` | `TypeOK`, `SentAsMeant`, `LostIsEarly`, `SentOnce`, `AnswerClosesOwn` | every dialog, 2 records, 2 places, 3 openings, 3 confirmations, 2 polls that move rows | 106 thousand |
| `forms` | `FormTypeOK`, `ToldIsStored`, `UntouchedStays` | every field of every form, 2 values beside empty, junk and zero; no bound on the edits | 2.9 million |
| `tables` | `TypeOK`, `SelectedIsChosen`, `PageHasRows` | every table, 3 records of which 2 pass the filter, pages of 2, history of 3 | 249 thousand |
| `session` | `TypeOK`, `QueueIsServed`, `RotatedOnce`, `ResetEndsSessions`, `LossIsExplained`, `EveryRequestEnds` (liveness) | 2 tabs, 2 requests, 3 pairs of tokens, 1 change of the user, sign-out or lapsed refresh token | 1.1 million |
| `stream` | `TypeOK`, `MissingIsExplained`, `ImplementsFeed` (refinement), `ComesBack` (liveness) | 2 pages, 3 connections at a time, caps of 2 and 3, channels of 1, 2 entries, 2 upsets | 792 thousand |
| `offline` | `SyncedMeansApplied`, violated | 1 subscription, link up or gone | |

`MaxOps` bounds the operations that are started, not their steps; the outbox, the
reconciler, the cron, the suspension check, the link and the clock are not bounded by
it, and retries end at the threshold. One subscription is enough for `drift` because
the only thing subscriptions share is the batch, which `converge` covers; the theorem
covers any number. Two requests cover the races of `settlement`, which are all between
two writers or a writer and the check. `schedule` covers a long month, a short one and
the overflow between them. In `stream` the third connection is one that lingers after its
page has moved on, which is what meets the cap; the theorems cover every size. In
`session` two tabs and a third pair let both exchange a token and one be behind; one ending
(`MaxEndings`) is enough to race every sign-in and refresh with a change of the user, a
sign-out or a lapse. Three
records and pages of two let a page lose its last row. Except for `drift` and `converge`
the runs do not check deadlock: they stop where their bounds are used up, or where the
user has nothing left to do.

What the properties say:

- `DriftExplained`: a row that is marked synced and that nobody is working on is what
  the router has, unless since the last agreement one of these happened: two actors
  overlapped on the row (`Overlap`), the row was deleted or recreated under one
  (`Replaced`), the device was absent (`Skipped`), the outbox set attributes of a secret
  that is not there (`NotFound`), a handler's push failed (`NotPushed`), a plan was
  changed under isolation (`Replanned`), a status or flag was written over an unfinished
  intent (`Superseded`), the server stopped in a handler or job (`Interrupted`), someone
  changed the router (`Tampered`).
- `Converges`: every live row is eventually in agreement, in error, deleted or excused.
- `LapseExplained`: the billing date of an active subscription is in the past only
  because the server was down (`Down`), the customer was not active on the day
  (`Inactive`), a run failed or found the period billed (`Unfinished`), an installation
  failed after its row was stored and the cron of the day was over (`Uncovered`: the comment
  in `registration.go` has the cron cover this, which it does only on a day whose run is still
  to come), the subscription was activated after seven (`LateStart`), or a stale copy was
  saved (`StaleSave`).
- `MonthsAreBilled`: the date moves over a month only when the month has an invoice or lacks
  the day of the period before it (January 31 plus one month is in March). That exception is
  computed from the calendar and not from what the code did, so a stale save, a late run or a
  refused invoice that skipped a month would be found.
- `ConfirmedIsSettled`, `SettledIsServed`, `MoneyIsRecorded`: payment and invoice,
  invoice and service, gateway and payment agree unless a write was overwritten, lost in
  a stop or a dropped error, unmatched, or ignored by the webhook for want of settings; the
  causes are named in `PaymentSettlement`.
- `CollectedOnce`: an invoice has two payments over the counter only when two requests
  overlapped or the first settlement was lost or overwritten.
- `ImplementsFeed`: the hub, the broker and `useSSE` implement `EventFeed`.
  `MissingIsExplained`: an entry written while a page is subscribed is shown, under way,
  dropped by a full channel, or was missed by the stream. `ComesBack`: a page that stays
  open hears the router again, through lost connections, caps and starts that fail, unless
  the router is gone or the broker is bound to a client that an update has closed
  (`Severed`), streams of other topics keep filling the cap of the router (`Crowded`), or
  the stored token is past its time whenever the page looks: `useSSE` does not refresh it, so
  every attempt is answered 401 until a request of the page does.
- `RotatedOnce`: no two pairs come from one token. `ResetEndsSessions`: once a change of the
  user has revoked its tokens, no session verified before it is valid, except one a refresh
  (between `Revoke` and `Create`) or a sign-in (between the password and the token) was still
  issuing. `QueueIsServed` and `EveryRequestEnds`: nobody waits for a refresh that is not
  there, and every request ends. `LossIsExplained` lists why a tab may clear the storage that
  all tabs share: a sign-out (`SignedOut`) or one answered after the next sign-in
  (`LateSignOut`), a tab without a token (`Tokenless`), a refresh without a good answer
  (`Unanswered`: a time-out or an error of the server, at any of its statements), one with an
  older pair (`Behind`), a barred user (`Barred`), and a refusal because the pair has lapsed,
  was revoked, or is being exchanged by another tab (`Twin`).
- `OwnWritesShown`, `StaleOnlyInGaps`, `PolledCatchesUp`: see Proofs for the first; the
  second says that the pairs of `KnownGaps` are the only ones where a mutation changes
  what a query shows without invalidating it (an assumption of `MCWeb` says that each of
  them is one). `PolledCatchesUp` is about a tab in the foreground and an enabled query: the
  library stops `refetchInterval` in a hidden tab, and the QR poll is disabled once connected.
- `SentAsMeant`: a request is made of what the host holds at the click; it goes to the
  records the dialog was opened for, and an edit never becomes a creation, unless a poll
  moved the rows under a dialog that lives in a row or acts on ticks. `LostIsEarly`: a dialog
  loses its records while it is open only under a provider and only when it was opened while
  an earlier clearing was due (customers and subscriptions). `SentOnce`: two confirmations are
  in flight for one record only from two instances, after the last request of a fan-out was
  answered before others, or from a dialog whose button nothing disables. `AnswerClosesOwn`:
  an answer closes the opening it was sent from; the exceptions are `LateClosers`.
- `ToldIsStored`: when the user is told that a save succeeded, every request of it has been
  answered and the record was left as typed. The exceptions are listed field by field:
  `Secrets` (empty means unchanged), `Unclearable` (the form leaves it out or the endpoint
  skips it when empty), `Zeroed` and `Refilled` (text that is no number), and `Dropped`
  (offered, told as saved and nowhere stored: the comment of a PPP secret, `disabled` of a PPP
  profile, `role` and `lock_server` of a hotspot profile, the username of a user).
- `UntouchedStays`: a save leaves alone what the user did not touch. A form that sends every
  field, or an endpoint that writes the whole row, may put back what it had read; `Completed`
  fields are filled in where they were empty; `Overwritten` fields are saved over (the hotspot
  profile form shows `lock_user` as off for every row and sends the price as the monthly
  price).
- `SelectedIsChosen`, `PageHasRows`: a bulk action is for ticked records as long as rows keep
  their places, except for the PPP secrets, whose ticks outlive a bulk delete; the page has
  rows, except in the sales report. When a poll moves the rows, ticks name other records
  (`moved`): the code keeps them by place, and `SentAsMeant` names the same departure.

The lists in `DialogSafety`, `FormSafety`, `TableSafety` and `WebFreshness` are
therefore a record of departures that are in the code today: removing a name makes TLC
show the behaviour, or makes the catalogue's assumption false.

`offline` is expected to find a violation of what `docs/ARCHITECTURE.md` says of the
outbox: it takes an absent device for a success (`findings` in `PROJECT.json`). Other
departures from what a reader would expect are reachable in the passing runs, most of
them as named causes:

- a repeated creation is refused for the duplicate name and ends in error although it is
  applied (`Converges` accepts a row that is given up on);
- the reconciler sets `pending_profile_change`, which neither adds a missing secret nor
  enables a disabled one, so what it detects is marked synced again (`Tampered`);
- a billing date that has passed is never billed (`Inactive`, `LateStart`), and January
  31 plus one month is in March, so February has no invoice (`skipped` in
  `MonthsAreBilled`);
- confirm and reject that both read a pending payment are both written (`Contradicted`);
- a stop between payment and invoice leaves the invoice unpaid, and a second confirmation
  is refused (`SettlementLost`);
- an intent is lost during a push (`Overlap`), a plan change lifts isolation
  (`Replanned`), a paid invoice becomes cancelled (`Overwritten`);
- a paid notification that comes while the settings cannot be read is answered 200, so the
  payment stays pending and the gateway does not ask again (`Ignored`);
- the edits of a hotspot user are always answered 400, since the form sends `disabled` as
  text and the endpoint wants a boolean (`dto/hotspot.go`); the form is in the catalogue as
  one that binds nothing (`Unbound`).

A creation that the outbox carries out stays `pending_install` with an enabled secret;
`Agrees` allows it.

### Fairness

- `SubscriptionClaims`: weak fairness of the outbox's steps, which a 10 s ticker takes for
  as long as the server runs, and of the steps of a request under way, a goroutine with
  timeouts on its calls. Nothing is assumed of the link, of new requests or of restarts.
- `QueryCache`: weak fairness of `Poll`, a timer that runs while its component is mounted,
  and strong fairness of the server's reading and answering, since a single fetch may fail
  and the next one is sent again. Nothing is assumed of the user.
- `WebSession`: weak fairness of the answer to a request and of the end of a refresh: axios
  has a timeout of 30 s. No success is assumed.
- `LiveStream`: weak fairness of the sends, of the handlers and of the reconnect timer:
  goroutines run and browsers fire timers. Nothing is assumed of the router, of dials or of
  the network.

## Proofs

| Theorem | States |
|---|---|
| `SubscriptionDrift_proofs!TypeCorrect` | `Spec => []TypeOK` |
| `SubscriptionDrift_proofs!DriftIsExplained` | `DriftSpec => []DriftExplained` |
| `BillingSchedule_proofs!ScheduleType` | `ScheduleSpec => []TypeOK` |
| `BillingSchedule_proofs!LapseIsExplained` | `ScheduleSpec => []LapseExplained` |
| `BillingSchedule_proofs!MonthsBilled` | `ScheduleSpec => []MonthsAreBilled` |
| `PaymentSettlement_proofs!PaymentsTypeOK` | `Spec => []TypeOK` |
| `PaymentSettlement_proofs!Settlement` | `SettlementSpec => []ConfirmedIsSettled` |
| `PaymentSettlement_proofs!Service` | `SettlementSpec => []SettledIsServed` |
| `PaymentSettlement_proofs!Money` | `SettlementSpec => []MoneyIsRecorded` |
| `PaymentSettlement_proofs!Collection` | `CollectionSpec => []CollectedOnce` |
| `StreamSafety_proofs!StreamType` | `Spec => []TypeOK` |
| `StreamSafety_proofs!StreamIsFeed` | `Spec => ImplementsFeed` |
| `StreamSafety_proofs!NoEntryIsLost` | `Spec => []MissingIsExplained` |
| `SessionSafety_proofs!SessionTypeOK` | `Spec => []TypeOK` |
| `SessionSafety_proofs!QueueServed` | `Spec => []QueueIsServed` |
| `SessionSafety_proofs!TokenRotatedOnce` | `Spec => []RotatedOnce` |
| `SessionSafety_proofs!ResetEnds` | `Spec => []ResetEndsSessions` |
| `SessionSafety_proofs!LossExplained` | `Spec => LossIsExplained` |
| `QueryCache_proofs!CacheType` | `Spec => []TypeOK` |
| `QueryCache_proofs!OwnWritesAreShown` | `Spec => []OwnWritesShown` |
| `QueryCache_proofs!StaleInGapsOnly` | `GapsAreListed` implies `Spec => []StaleOnlyInGaps` |
| `DialogSafety_proofs!DialogsTypeOK` | `Spec => []TypeOK` |
| `DialogSafety_proofs!DialogSendsAsMeant` | `Spec => []SentAsMeant` |
| `DialogSafety_proofs!DialogLossIsEarly` | `Spec => []LostIsEarly` |
| `DialogSafety_proofs!DialogSendsOnce` | `Spec => []SentOnce` |
| `DialogSafety_proofs!AnswerClosesItsOwn` | `Spec => AnswerClosesOwn` |
| `WebScreens_proofs!TablesTypeOK` | `Spec => []TypeOK` |
| `WebScreens_proofs!BulkIsChosen` | `Spec => []SelectedIsChosen` |
| `WebScreens_proofs!PagesHaveRows` | `Spec => []PageHasRows` |
| `WebScreens_proofs!FormsTypeOK` | `FormSpec => []FormTypeOK` |
| `WebScreens_proofs!ToldSavesAreStored` | `FormSpec => []ToldIsStored` |
| `WebScreens_proofs!UntouchedFieldStays` | `FormSpec => UntouchedStays` |

Every safety property and every action property of the passing runs is thus stated by a
theorem as well. The theorems hold for every value of the constants that meets the
assumptions of the component's module:

- `SyncAssumption`: there is a subscription and a plan, no plan is called "isolir" or
  "default", batch size and threshold are positive; `BillingAssumption`: months have 28 to
  31 days; `PaymentsAssumption`: 0 is not an invoice, bounds are numbers;
- `StreamAssumption`, `SessionAssumption`, `MaxWritesAssumption`, `DialogsAssumption`:
  bounds are numbers, sizes positive, and the value for "none" is not one of the values;
- `TablesAssumption`: a list is finite, there is a record, a page has room for a row;
  `FormsAssumption`: empty, junk, zero and the other values differ, and the preset is one of
  the others.

The theorems about dialogs, tables and forms do not mention the web client's components
one by one. They are about **any** catalogue with the few facts stated as
`CatalogueAssumption` (`DialogSafety`), `TableCatalogueAssumption` (`TableSafety`) and
`FormCatalogueAssumption` (`FormSafety`): which dialogs close by a callback of a component
that goes with them, which tables keep their page in range, under which rules a field is
shown, typed, sent and stored. The last one is about rules and not about what they compute:
that a combination of rules keeps what was typed is the proof's part. TLC evaluates them on the catalogue of the whole client in the runs `dialogs`,
`tables` and `forms`. They are conditions a reviewer of a new component can check by
reading it, and the theorems say that they are enough. In the same way `StaleInGapsOnly`
has the hypothesis `GapsAreListed`, that a mutation and a query on the same table either
meet through an invalidated key or are listed; the run `cache`, whose initial states are all
the overlapping pairs of hooks, shows what it means pair by pair.

*Drift.* `DriftExplained` says nothing of the time while somebody works, so it is not
inductive. `DriftInv` says of every subscription without an excuse (`Good`): one actor
at most works on it; if it is the outbox, its snapshot is the row, and once applied the
router agrees (`OutboxHolds`); if it is a request, its copy is the row up to what it is
about to write, and that write leaves a coherent row (`WorkerHolds`); otherwise the row
is `Coherent`: carrying out its flag brings the router into agreement. The subtle part is
`pending_profile_change`, which only sets a profile and is therefore right only while
the secret is enabled. Every action is shown to preserve this or to be a cause.

*Schedule.* `ScheduleInv` drops the condition that the subscription is active, since an
inactive one may be activated later with its old date. `UnderWay` adds that a run or an
installation under way is about today, so that the date it computes lies ahead. For
`MonthsAreBilled` it is not enough to know the row: `Coverage` says that the months before
every date that is about to be written, in the copy of the cron and of a request, have their
invoice or were run over, and that the cron moves a date only after its invoice. Type
correctness carries the numeric edge: no month is shorter than 28 days, so a clamped day
exists in whichever month `AddDate` lands in.

*Cache.* `OwnWritesShown` speaks of a screen at rest. The invariant adds what is under way:
no version the client was told of is newer than the server's (`ToldIsWritten`), an answer
that no invalidation has overtaken is new enough (`AnswerIsNew`), and so is an entry that
is not marked, or marked and on display with nothing to replace it (`UnmarkedIsNew`).
A screen at rest that is behind is therefore one whose key is not invalidated
(`HooksMeet`: the pair of a behaviour is an overlapping pair and never changes).

*Stream.* `Safe` ties the page, the handler, the reservation and the subscription of a
channel together (`Served`, `Reading`). A channel number is taken again only when no
snapshot names it, as a connection in the code makes a channel of its own. `Ordered` carries the order through the send
outside the lock: entries of one run are published one after the other (`InTurn`), what
stands in a channel or was shown through it was published to it (`Placed`), a channel
holds entries of a run in order (`QueueInOrder`) and what was shown precedes what stands
in it (`ShownFirst`). With both, every step is a step of `EventFeed` or a stutter.
`MissingIsExplained` is inductive together with `Safe`.

*Payments.* `Sound` is what a request may rely on between two statements: its payment is
one of its invoice, a webhook is about a notice the gateway has sent (`Linked`), one
request at most asks the gateway about a payment (`CalledOnce`), and the gateway has an
answer only for what it has sent (`AnsweredIsOver`). The promises need each other:
`MoneyIsRecorded` is preserved because a request that settles has confirmed its payment or
was contradicted (`ConfirmedFirst`). `CollectedOnce` needs to know what comes after a
payment: until the invoice is paid somebody is settling it, and nobody else is about to
create a payment for it (`Booked`), which is what `Overlapped` and `SettlementLost` excuse.

*Session.* `InFlight` ties `isRefreshing`, the refresh and the request that waits for it
together, so that the queue is never left behind. `RotatedOnce` needs `Exchanged`: a pair
that has a successor, or whose refresh stands between `Revoke` and `Create`, is no longer
valid, and no two refreshes stand there for the same pair; this is exactly what the
condition on `revoked_at` gives. `ResetEndsSessions` needs `BornOf`: what a refresh or a
sign-in under way has seen of the changes of the user, and that a pair is older than the last
revocation only if that revocation overtook the request that issued it. `LossIsExplained` is about a step: `Undelivered` (the pair in an
answer that has not been read is nowhere else) and `Accounted` (a stored pair that is not
valid was reset, signed out or is being exchanged) leave no other way to clear the storage.

*Dialogs.* `Sent` says from which confirmation, place and instance a request can be, and that
only a fan-out has requests that are not its hook's last. `Kept` says where the records of
the host come from: they outlive a dialog only while a timer is due, and a dialog that finds
one due is early. `Owned` says that a component that goes with its dialog has no requests of
another opening, and that a dialog held open until the answer has one request.

*Tables.* `PageHasRows` is about page arithmetic for any page size: `PagesInRange` keeps
the page up to the last one, and `KthPlace` and `PageIsShown` turn that into a row, by
counting the filtered places. The induction over places is done with the least element of
a set of numbers (`LeastNatural`, from the library's `WFMin`), since a theorem with an
operator as parameter cannot be used. `TicksAreChosen` is `SelectedIsChosen` without the
filter: a tick on a row that the filter hides is still there when the filter goes.

*Forms.* What a save does is decided when it is sent and seen when it is applied, with
edits of others, fetches and remounts in between. `RequestIs` says of the request on its way
that it carries what the payload rule makes of the input; it follows from what the input
shows (`InputShows`). `ProperStays` says that a field sent as a number is one in the record
and in every copy of it. `OutcomeIs` is `StoredAsTyped` from the moment the endpoint is
done, and `ToldIs` that a success is told only when all requests are in.

Only model-checked: `Converges`, `PolledCatchesUp`, `EveryRequestEnds` and `ComesBack`,
because liveness under fairness is out of the prover's reach, and the violation that
`offline` finds.

## Limits

- One device; one subscription in `Billing` and in `Payments`; one topic in
  `LiveStream`. Prices, passwords, audit entries and the text of messages are left out.
  Changing the username or device of a subscription is not modelled.
- In `SubscriptionSync` database statements succeed or the server stops; a single
  dropped error there has the effect of a stop of that request.
- The server's clock is UTC, as in its container: `Truncate(24h)` is a UTC day.
- A cron run and a request end before midnight.
- `PatchStatus` by an operator is in `SubscriptionSync` and `Billing`, not in
  `Payments`, where every suspension is the check's.
- A manual payment's idempotency key is the client's: `KeyUsed` lets it be refused.
- TanStack Query and Table, axios, Radix and the router are external: their behaviour is
  what the versions the client uses do as far as the client relies on it. What the
  library for the router does with a closed client is not known, so `Subscribe` on one
  may fail or be silent.
- In `Forms` a form has one save under way at a time: a save that was left behind by closing
  the drawer is one of the writes of others. Rounding of decimal numbers is left out. A form
  the timer has remounted without its row can save nothing; the settings pages that send one
  request per field never tell a success.
- The web engines look at one pair, dialog, field or table at a time; that two parts of
  one screen interfere otherwise than through the server and the cache is not considered.

## Not modelled

| Part | Reason |
|---|---|
| Notification log, senders, retry job | a log nothing else reads, and I/O |
| Voucher expiry, workflows, sales store, login hook | loops of router calls and comparisons of dates in text; their pages are in the catalogue |
| Rate limiter, metrics, history, backup, audit | arithmetic of time, samples, files; nothing depends on them |
| Registration before the installation, tickets, users, settings handlers | guarded single writes; their hooks, dialogs and forms are in the catalogue |
| `service/subscription` | no caller outside its tests |
| The log page's list (`features/log/index.tsx`) | the stream under it is modelled; the backlog that is fetched beside it, pause, clear and the cap of 500 are not |
| Portal sign-in and client | no refresh and no queue: a 401 resets the store |
| Upload followed by payment in the portal, the result of a voucher batch | chains within one component, lost when the page is left |
| `tasks`, `users`, `users1`, portal tickets, the unrouted WhatsApp page | sample data, or pages that cannot be reached |
| UI primitives, `routeTree.gen.ts` | vendored or generated |

What would be worth adding next: a composition of `Payments` with `SubscriptionSync`
through the flag; the log page on top of `EventFeed`; the notification log with its retry
job.
