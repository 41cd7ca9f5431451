---------------------------- MODULE WebApiRouter ----------------------------
(***************************************************************************)
(* The data layer of the pages about one router: hotspot, PPP, vouchers,   *)
(* network, system, traffic and log.  A table name is a RouterOS menu of   *)
(* the active router (hsUser, pppSecret, queue, ...) or a database table   *)
(* (hsProfileDB, pppProfileDB, sale, quickPrint).                          *)
(***************************************************************************)
EXTENDS WebApi


(******************************* hotspot ***********************************)
HotspotUsersService ==
  [listHotspotUsers |-> {"hsUser"}, getHotspotUserCount |-> {"hsUser"},
   getHotspotUser |-> {"hsUser"}, exportHotspotUsersCSV |-> NoRoute,
   addHotspotUser |-> {"hsUser"}, updateHotspotUser |-> {"hsUser"},
   removeHotspotUser |-> {"hsUser", "script", "scheduler"},
   resetHotspotUserCounters |-> {"hsUser"},
   revealHotspotUserPassword |-> {"hsUser"}]

usersPrefix == <<"hotspot", "users", "rid">>

HotspotUsersQueries ==
  {Query("useHotspotUsers", qk.hotspotUsers, HotspotUsersService.listHotspotUsers),
   Query("useHotspotUserCount", qk.hotspotUserCount, HotspotUsersService.getHotspotUserCount),
   Query("useHotspotUser", qk.hotspotUser, HotspotUsersService.getHotspotUser)}

HotspotUsersMutations ==
  {Mutation("useAddHotspotUser", HotspotUsersService.addHotspotUser, {usersPrefix}),
   Mutation("useUpdateHotspotUser", HotspotUsersService.updateHotspotUser, {usersPrefix}),
   Mutation("useRemoveHotspotUser", HotspotUsersService.removeHotspotUser, {usersPrefix}),
   Mutation("useResetHotspotUserCounters", HotspotUsersService.resetHotspotUserCounters,
            {qk.hotspotUser, usersPrefix})}

HotspotActiveService ==
  [listHotspotActive |-> {"hsActive"}, removeHotspotActive |-> {"hsActive"},
   disconnectHotspotUser |-> NoRoute]

HotspotActiveQueries ==
  {Query("useHotspotActive", qk.hotspotActive, HotspotActiveService.listHotspotActive)}

HotspotActiveMutations ==
  {Mutation("useRemoveHotspotActive", HotspotActiveService.removeHotspotActive,
            {qk.hotspotActive}),
   Mutation("useDisconnectHotspotUser", HotspotActiveService.disconnectHotspotUser,
            {qk.hotspotActive, qk.hotspotCookies})}

HotspotBindingsService ==
  [listIPBindings |-> {"hsBinding"}, addIPBinding |-> NoRoute,
   updateIPBinding |-> NoRoute, removeIPBinding |-> {"hsBinding"},
   enableIPBinding |-> NoRoute, disableIPBinding |-> NoRoute]

HotspotBindingsHooks ==
  [queries |-> {Query("useHotspotBindings", qk.hotspotBindings,
                      HotspotBindingsService.listIPBindings)},
   mutations |->
     {Mutation("useAddIPBinding", HotspotBindingsService.addIPBinding, {qk.hotspotBindings}),
      Mutation("useUpdateIPBinding", HotspotBindingsService.updateIPBinding, {qk.hotspotBindings}),
      Mutation("useRemoveIPBinding", HotspotBindingsService.removeIPBinding, {qk.hotspotBindings}),
      Mutation("useEnableIPBinding", HotspotBindingsService.enableIPBinding, {qk.hotspotBindings}),
      Mutation("useDisableIPBinding", HotspotBindingsService.disableIPBinding, {qk.hotspotBindings})}]

HotspotCookiesService ==
  [listHotspotCookies |-> {"hsCookie"}, removeHotspotCookie |-> {"hsCookie"}]

HotspotCookiesHooks ==
  [queries |-> {Query("useHotspotCookies", qk.hotspotCookies,
                      HotspotCookiesService.listHotspotCookies)},
   mutations |-> {Mutation("useRemoveHotspotCookie",
                           HotspotCookiesService.removeHotspotCookie, {qk.hotspotCookies})}]

HotspotHostsService ==
  [listHotspotHosts |-> {"hsHost"}, removeHotspotHost |-> {"hsHost"}]

HotspotHostsHooks ==
  [queries |-> {Query("useHotspotHosts", qk.hotspotHosts, HotspotHostsService.listHotspotHosts)},
   mutations |-> {Mutation("useRemoveHotspotHost", HotspotHostsService.removeHotspotHost,
                           {qk.hotspotHosts})}]

HotspotInactiveService ==
  [listInactiveHotspotUsers |-> NoRoute, getInactiveHotspotUserCount |-> NoRoute]

HotspotInactiveQueries ==
  {Query("useHotspotInactive", qk.hotspotInactive,
         HotspotInactiveService.listInactiveHotspotUsers),
   Query("useHotspotInactiveCount", qk.hotspotInactiveCount,
         HotspotInactiveService.getInactiveHotspotUserCount)}

HotspotServersService == [listHotspotServers |-> {"hsServer"}]

HotspotServersQueries ==
  {Query("useHotspotServers", qk.hotspotServers, HotspotServersService.listHotspotServers)}

(* profiles/ and billing/ call the same endpoint, /hotspot-profiles. *)
HotspotProfilesService ==
  [listHotspotProfiles |-> {"hsProfileDB"}, getHotspotProfile |-> {"hsProfileDB"},
   addHotspotProfile |-> {"hsProfileDB"}, updateHotspotProfile |-> {"hsProfileDB"},
   removeHotspotProfile |-> {"hsProfileDB"}, syncHotspotProfiles |-> {"hsProfileDB"}]

HotspotProfilesQueries ==
  {Query("useHotspotProfiles", qk.hotspotProfiles, HotspotProfilesService.listHotspotProfiles),
   Query("useHotspotProfile", qk.hotspotProfile, HotspotProfilesService.getHotspotProfile)}

HotspotProfilesMutations ==
  {Mutation("useAddHotspotProfile", HotspotProfilesService.addHotspotProfile,
            {qk.hotspotProfiles}),
   Mutation("useUpdateHotspotProfile", HotspotProfilesService.updateHotspotProfile,
            {qk.hotspotProfiles}),
   Mutation("useRemoveHotspotProfile", HotspotProfilesService.removeHotspotProfile,
            {qk.hotspotProfiles}),
   Mutation("useSyncHotspotProfiles", HotspotProfilesService.syncHotspotProfiles,
            {qk.hotspotProfiles})}

HotspotBillingService ==
  [listHotspotDbProfiles |-> {"hsProfileDB"}, createHotspotDbProfile |-> {"hsProfileDB"},
   updateHotspotDbProfile |-> {"hsProfileDB"}, removeHotspotDbProfile |-> {"hsProfileDB"},
   syncHotspotDbProfiles |-> {"hsProfileDB"}]

hotspotDbPrefix == <<"hotspot", "profiles-db", "rid">>

HotspotBillingHooks ==
  [queries |-> {Query("useHotspotDbProfiles", qkOffice.hotspotProfilesDB,
                      HotspotBillingService.listHotspotDbProfiles)},
   mutations |->
     {Mutation("useCreateHotspotDbProfile", HotspotBillingService.createHotspotDbProfile,
               {hotspotDbPrefix}),
      Mutation("useUpdateHotspotDbProfile", HotspotBillingService.updateHotspotDbProfile,
               {hotspotDbPrefix}),
      Mutation("useRemoveHotspotDbProfile", HotspotBillingService.removeHotspotDbProfile,
               {hotspotDbPrefix}),
      Mutation("useSyncHotspotDbProfiles", HotspotBillingService.syncHotspotDbProfiles,
               {hotspotDbPrefix})}]

(********************************* PPP *************************************)
PPPSecretsService ==
  [listPPPSecrets |-> {"pppSecret"}, addPPPSecret |-> {"pppSecret"},
   updatePPPSecret |-> {"pppSecret"}, setPPPSecretDisabled |-> {"pppSecret"},
   removePPPSecret |-> {"pppSecret"}, batchRemovePPPSecrets |-> {"pppSecret"},
   revealPPPSecretPassword |-> {"pppSecret"}]

PPPSecretsHooks ==
  [queries |-> {Query("usePPPSecrets", qk.pppSecrets, PPPSecretsService.listPPPSecrets)},
   mutations |->
     {Mutation("useAddPPPSecret", PPPSecretsService.addPPPSecret, {qk.pppSecrets}),
      Mutation("useUpdatePPPSecret", PPPSecretsService.updatePPPSecret, {qk.pppSecrets}),
      Mutation("useSetPPPSecretDisabled", PPPSecretsService.setPPPSecretDisabled,
               {qk.pppSecrets}),
      Mutation("useRemovePPPSecret", PPPSecretsService.removePPPSecret, {qk.pppSecrets}),
      Mutation("useBatchRemovePPPSecrets", PPPSecretsService.batchRemovePPPSecrets,
               {qk.pppSecrets})}]

PPPActiveService ==
  [listPPPActive |-> {"pppActive"}, disconnectPPPActive |-> {"pppActive"}]

PPPActiveHooks ==
  [queries |-> {Query("usePPPActive", qk.pppActive, PPPActiveService.listPPPActive)},
   mutations |-> {Mutation("useDisconnectPPPActive", PPPActiveService.disconnectPPPActive,
                           {qk.pppActive})}]

PPPProfilesService ==
  [listPPPProfiles |-> {"pppProfile"}, addPPPProfile |-> {"pppProfile"},
   updatePPPProfile |-> {"pppProfile"}, removePPPProfile |-> {"pppProfile"}]

PPPProfilesHooks ==
  [queries |-> {Query("usePPPProfiles", qk.pppProfiles, PPPProfilesService.listPPPProfiles)},
   mutations |->
     {Mutation("useAddPPPProfile", PPPProfilesService.addPPPProfile, {qk.pppProfiles}),
      Mutation("useUpdatePPPProfile", PPPProfilesService.updatePPPProfile, {qk.pppProfiles}),
      Mutation("useRemovePPPProfile", PPPProfilesService.removePPPProfile, {qk.pppProfiles})}]

(* /ppp-profiles keeps the database row and pushes it to the router. *)
PPPBillingService ==
  [listPPPDbProfiles |-> {"pppProfileDB"},
   createPPPDbProfile |-> {"pppProfileDB", "pppProfile"},
   updatePPPDbProfile |-> {"pppProfileDB", "pppProfile"},
   removePPPDbProfile |-> {"pppProfileDB", "pppProfile"},
   syncPPPDbProfiles |-> {"pppProfileDB"}]

PPPBillingHooks ==
  [queries |-> {Query("usePPPDbProfiles", qkOffice.pppProfilesDB,
                      PPPBillingService.listPPPDbProfiles)},
   mutations |->
     {Mutation("useCreatePPPDbProfile", PPPBillingService.createPPPDbProfile,
               {qkOffice.pppProfilesDB}),
      Mutation("useUpdatePPPDbProfile", PPPBillingService.updatePPPDbProfile,
               {qkOffice.pppProfilesDB}),
      Mutation("useRemovePPPDbProfile", PPPBillingService.removePPPDbProfile,
               {qkOffice.pppProfilesDB}),
      Mutation("useSyncPPPDbProfiles", PPPBillingService.syncPPPDbProfiles,
               {qkOffice.pppProfilesDB})}]

(******************************* vouchers **********************************)
VoucherGenerateService ==
  [listHotspotServers |-> {"hsServer"}, generateVoucher |-> {"hsUser"},
   getCachedVouchers |-> NoRoute]

voucherSessionPrefix == <<"voucher", "session", "rid">>

VoucherGenerateHooks ==
  [queries |->
     {Query("useHotspotServers (voucher)", <<"hotspot", "servers", "rid">>,
            VoucherGenerateService.listHotspotServers),
      Query("useCachedVouchers", qk.voucherSession, VoucherGenerateService.getCachedVouchers)},
   mutations |->
     {Setting(Mutation("useGenerateVoucher", VoucherGenerateService.generateVoucher,
                       {voucherSessionPrefix}), qk.voucherSession)}]

VoucherPrintService ==
  [getPrintData |-> NoRoute, printVouchers |-> NoRoute, renderTemplate |-> NoRoute]

VoucherPrintHooks ==
  [queries |-> {Query("usePrintData", qk.voucherPrintData, VoucherPrintService.getPrintData)},
   mutations |-> {Mutation("usePrintVouchers", VoucherPrintService.printVouchers, {}),
                  Mutation("useRenderTemplate", VoucherPrintService.renderTemplate, {})}]

QuickPrintService ==
  [listQuickPrintPackages |-> {"quickPrint"}, getQuickPrintPackage |-> {"quickPrint"},
   createQuickPrintPackage |-> {"quickPrint"}, updateQuickPrintPackage |-> {"quickPrint"},
   removeQuickPrintPackage |-> {"quickPrint"}]

QuickPrintHooks ==
  [queries |->
     {Query("useQuickPrintPackages", qkOffice.quickPrintPackages,
            QuickPrintService.listQuickPrintPackages),
      Query("useQuickPrintPackage", qkOffice.quickPrintPackage,
            QuickPrintService.getQuickPrintPackage)},
   mutations |->
     {Mutation("useCreateQuickPrintPackage", QuickPrintService.createQuickPrintPackage,
               {qkOffice.quickPrintPackages}),
      Mutation("useUpdateQuickPrintPackage", QuickPrintService.updateQuickPrintPackage,
               {qkOffice.quickPrintPackages}),
      Mutation("useRemoveQuickPrintPackage", QuickPrintService.removeQuickPrintPackage,
               {qkOffice.quickPrintPackages})}]

VoucherSalesService ==
  [recordSale |-> {"sale"}, importSales |-> {}, getDailyReport |-> {"sale"},
   getMonthlyReport |-> {"sale"}, getResumeReport |-> {"sale"},
   getDashboardSummary |-> {"sale"}, listSales |-> {"sale"},
   exportSalesCSV |-> NoRoute, exportSalesExcel |-> NoRoute]

invalidateReports ==
  {<<"report">>, voucherSessionPrefix, <<"voucher", "sales", "rid">>}

VoucherSalesQueries ==
  {Query("useDailyReport", qkOffice.reportDaily, VoucherSalesService.getDailyReport),
   Query("useMonthlyReport", qkOffice.reportMonthly, VoucherSalesService.getMonthlyReport),
   Query("useResumeReport", qkOffice.reportResume, VoucherSalesService.getResumeReport),
   Query("useDashboardSummary", qkOffice.reportSummary, VoucherSalesService.getDashboardSummary),
   Query("useSalesList", qkOffice.salesList, VoucherSalesService.listSales)}

VoucherSalesMutations ==
  {Mutation("useRecordSale", VoucherSalesService.recordSale, invalidateReports),
   Mutation("useImportSales", VoucherSalesService.importSales, invalidateReports)}

SellingService ==
  [getSellingToday |-> {"sale"}, getSellingSummary |-> {"sale"}, getSelling |-> {"sale"}]

SellingQueries ==
  {Query("useSellingToday", qkOffice.reportSellingToday, SellingService.getSellingToday),
   Query("useSellingSummary", qkOffice.reportSellingSummary, SellingService.getSellingSummary),
   Query("useSelling", qkOffice.reportSelling, SellingService.getSelling)}

(*************************** network and system ****************************)
NetworkService ==
  [listPools |-> {"pool"}, createPool |-> {"pool"}, deletePool |-> {"pool"},
   listQueues |-> {"queue"}, deleteQueue |-> {"queue"},
   listDHCPLeases |-> {"dhcpLease"}, deleteDHCPLease |-> {"dhcpLease"},
   arpByMac |-> {"arp"}]

NetworkHooks ==
  [queries |->
     {Query("usePools", qk.networkPools, NetworkService.listPools),
      Query("useQueues", qk.networkQueues, NetworkService.listQueues),
      Query("useDHCPLeases", qk.dhcpLeases, NetworkService.listDHCPLeases),
      Query("useArpByMac", qkOffice.networkArp, NetworkService.arpByMac)},
   mutations |->
     {Mutation("useCreatePool", NetworkService.createPool, {qk.networkPools}),
      Mutation("useDeletePool", NetworkService.deletePool, {qk.networkPools}),
      Mutation("useDeleteQueue", NetworkService.deleteQueue, {qk.networkQueues}),
      Mutation("useDeleteDHCPLease", NetworkService.deleteDHCPLease, {qk.dhcpLeases})}]

SystemService ==
  [getIdentity |-> {"identity"}, getResource |-> {"resource"},
   getRouterboard |-> {"routerboard"}, getClock |-> {"clock"}, getLicense |-> {"license"},
   reboot |-> {"resource"}, shutdown |-> {"resource"},
   listScripts |-> {"script"}, createScript |-> {"script"}, deleteScript |-> {"script"},
   listSchedulers |-> {"scheduler"}, createScheduler |-> {"scheduler"},
   deleteScheduler |-> {"scheduler"}]

SystemInfoHooks ==
  [queries |->
     {Query("useSystemIdentity", qk.systemIdentity, SystemService.getIdentity),
      Polled(Query("useSystemResource", qk.systemResource, SystemService.getResource)),
      Query("useSystemRouterboard", qk.routerboard, SystemService.getRouterboard),
      Query("useSystemClock", qk.systemClock, SystemService.getClock),
      Query("useSystemLicense", qkOffice.systemLicense, SystemService.getLicense)},
   mutations |-> {Mutation("useReboot", SystemService.reboot, {}),
                  Mutation("useShutdown", SystemService.shutdown, {})}]

SystemScriptHooks ==
  [queries |->
     {Query("useScripts", qk.scripts, SystemService.listScripts),
      Query("useSchedulers", qk.schedulers, SystemService.listSchedulers)},
   mutations |->
     {Mutation("useCreateScript", SystemService.createScript, {qk.scripts}),
      Mutation("useDeleteScript", SystemService.deleteScript, {qk.scripts}),
      Mutation("useCreateScheduler", SystemService.createScheduler, {qk.schedulers}),
      Mutation("useDeleteScheduler", SystemService.deleteScheduler, {qk.schedulers})}]

TrafficService ==
  [listInterfaces |-> {"interface"}, listQueues |-> {"queue"},
   getInterfaceHistory |-> {"history"}, getQueueHistory |-> {"history"},
   getInterfaceTraffic |-> NoRoute, listNATRules |-> NoRoute,
   listDHCPLeases |-> NoRoute, listIPPools |-> {"pool"}]

TrafficQueries ==
  {Query("useInterfaces", qk.networkInterfaces, TrafficService.listInterfaces),
   Query("useQueues (traffic)", qk.networkQueues, TrafficService.listQueues),
   Query("useInterfaceHistory", qkOffice.interfaceHistory, TrafficService.getInterfaceHistory),
   Query("useQueueHistory", qkOffice.queueHistory, TrafficService.getQueueHistory)}

LogService == [listLogEntries |-> {"log"}]

LogQueries == {Query("useLogBacklog", <<"log", "backlog", "rid">>, LogService.listLogEntries)}

RouterHooks ==
  {HotspotBindingsHooks, HotspotCookiesHooks, HotspotHostsHooks, HotspotBillingHooks,
   PPPSecretsHooks, PPPActiveHooks, PPPProfilesHooks, PPPBillingHooks,
   VoucherGenerateHooks, VoucherPrintHooks, QuickPrintHooks,
   NetworkHooks, SystemInfoHooks, SystemScriptHooks}

RouterQueries ==
  UNION {h.queries : h \in RouterHooks}
    \cup HotspotUsersQueries \cup HotspotActiveQueries \cup HotspotInactiveQueries
    \cup HotspotServersQueries \cup HotspotProfilesQueries
    \cup VoucherSalesQueries \cup SellingQueries \cup TrafficQueries \cup LogQueries

RouterMutations ==
  UNION {h.mutations : h \in RouterHooks}
    \cup HotspotUsersMutations \cup HotspotActiveMutations
    \cup HotspotProfilesMutations \cup VoucherSalesMutations
=============================================================================
