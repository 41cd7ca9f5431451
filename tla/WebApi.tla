------------------------------- MODULE WebApi -------------------------------
(***************************************************************************)
(* The data layer of the web client (src/web/src/features/*/api): which    *)
(* server tables each call of a service.ts reads or writes, under which    *)
(* cache key each query hook keeps its answer, and which keys each         *)
(* mutation hook invalidates.  A key is a sequence; a path parameter       *)
(* (router, record, filters) is the string that names it.  Payloads,       *)
(* envelopes and filters are abstracted: a query is the tables it reads, a *)
(* mutation the tables it writes.                                          *)
(***************************************************************************)
EXTENDS Sequences, FiniteSets

(* A call no backend route answers: it fails, and reads and writes nothing. *)
NoRoute == {}

Query(name, key, reads) ==
  [name |-> name, key |-> key, reads |-> reads, poll |-> FALSE]

(* A query with a refetchInterval. *)
Polled(query) == [query EXCEPT !.poll = TRUE]

(* onSuccess invalidates every key that one of `keys` is a prefix of. *)
Mutation(name, writes, keys) ==
  [name |-> name, writes |-> writes, keys |-> keys, sets |-> {}, drops |-> {}]

(* onSuccess first puts the answer into the cache (setQueryData) ... *)
Setting(mutation, key) == [mutation EXCEPT !.sets = {key}]

(* ... or removes the entry (removeQueries). *)
Dropping(mutation, key) == [mutation EXCEPT !.drops = {key}]

(***************************************************************************)
(* lib/api/query-keys.ts                                                   *)
(***************************************************************************)
qk ==
  [currentUser |-> <<"auth", "me">>, settings |-> <<"settings">>,
   routers |-> <<"routers">>, router |-> <<"routers", "rid">>,
   hotspotUsers |-> <<"hotspot", "users", "rid", "filters">>,
   hotspotUser |-> <<"hotspot", "users", "rid", "uid">>,
   hotspotUserCount |-> <<"hotspot", "users", "count", "rid", "profile">>,
   hotspotProfiles |-> <<"hotspot", "profiles", "rid">>,
   hotspotProfile |-> <<"hotspot", "profiles", "rid", "pid">>,
   hotspotActive |-> <<"hotspot", "active", "rid">>,
   hotspotInactive |-> <<"hotspot", "inactive", "rid">>,
   hotspotInactiveCount |-> <<"hotspot", "inactive", "count", "rid">>,
   hotspotHosts |-> <<"hotspot", "hosts", "rid">>,
   hotspotServers |-> <<"hotspot", "servers", "rid">>,
   hotspotCookies |-> <<"hotspot", "cookies", "rid">>,
   hotspotBindings |-> <<"hotspot", "bindings", "rid">>,
   pppSecrets |-> <<"ppp", "secrets", "rid">>,
   pppActive |-> <<"ppp", "active", "rid">>,
   pppProfiles |-> <<"ppp", "profiles", "rid">>,
   networkInterfaces |-> <<"network", "interfaces", "rid">>,
   networkPools |-> <<"network", "pools", "rid">>,
   networkQueues |-> <<"network", "queues", "rid">>,
   dhcpLeases |-> <<"network", "dhcp", "leases", "rid">>,
   systemResource |-> <<"system", "resource", "rid">>,
   systemClock |-> <<"system", "clock", "rid">>,
   systemIdentity |-> <<"system", "identity", "rid">>,
   routerboard |-> <<"system", "routerboard", "rid">>,
   schedulers |-> <<"system", "schedulers", "rid">>,
   scripts |-> <<"system", "scripts", "rid">>,
   adminUsers |-> <<"admin", "users">>, adminUser |-> <<"admin", "users", "id">>,
   voucherPrintData |-> <<"voucher", "print-data", "rid", "gencode">>,
   voucherSession |-> <<"voucher", "session", "rid", "gencode">>]

qkOffice ==
  [salesList |-> <<"voucher", "sales", "rid", "params">>,
   reportDaily |-> <<"report", "daily", "rid", "date", "filters">>,
   reportMonthly |-> <<"report", "monthly", "rid", "year", "month">>,
   reportResume |-> <<"report", "resume", "rid", "year">>,
   reportSummary |-> <<"report", "summary", "rid">>,
   interfaceHistory |-> <<"history", "interfaces", "rid", "range">>,
   queueHistory |-> <<"history", "queues", "rid", "range">>,
   quickPrintPackages |-> <<"quick-print", "packages", "rid">>,
   quickPrintPackage |-> <<"quick-print", "packages", "rid", "name">>,
   hotspotProfilesDB |-> <<"hotspot", "profiles-db", "rid", "filters">>,
   pppProfilesDB |-> <<"ppp", "profiles-db", "rid">>,
   networkArp |-> <<"network", "arp", "rid", "mac">>,
   systemLicense |-> <<"system", "license", "rid">>,
   customers |-> <<"customers", "filters">>,
   subscriptions |-> <<"subscriptions", "filters">>,
   subscriptionsByDevice |-> <<"subscriptions", "device", "deviceId">>,
   reportSelling |-> <<"report", "selling", "rid", "filters">>,
   reportSellingToday |-> <<"report", "selling", "today", "rid">>,
   reportSellingSummary |-> <<"report", "selling", "summary", "rid", "filters">>,
   messageTemplates |-> <<"message-templates">>,
   auditLogs |-> <<"audit-logs", "filters">>,
   notificationsLog |-> <<"notifications", "filters">>,
   whatsappStatus |-> <<"whatsapp", "status">>,
   whatsappQR |-> <<"whatsapp", "qr">>,
   whatsappContacts |-> <<"whatsapp", "contacts">>,
   whatsappGroups |-> <<"whatsapp", "groups">>,
   notifEvents |-> <<"notification-events">>,
   registrations |-> <<"registrations", "filters">>,
   publicPackages |-> <<"public-packages", "serviceType">>,
   invoices |-> <<"invoices", "filters">>, invoice |-> <<"invoices", "id">>,
   invoicePayments |-> <<"invoices", "id", "payments">>,
   payments |-> <<"payments", "filters">>,
   portalMe |-> <<"portal", "me">>,
   portalSubscriptions |-> <<"portal", "subscriptions">>,
   portalSubscription |-> <<"portal", "subscriptions", "id">>,
   portalInvoices |-> <<"portal", "invoices", "filters">>,
   portalInvoice |-> <<"portal", "invoices", "id">>,
   portalPayments |-> <<"portal", "payments">>]
=============================================================================
