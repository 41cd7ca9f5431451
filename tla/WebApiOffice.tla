---------------------------- MODULE WebApiOffice ----------------------------
(***************************************************************************)
(* The data layer of the office pages (customers, subscriptions, invoices, *)
(* payments, registrations, administration, settings, notifications), of   *)
(* the customer portal and of the public registration page.  A write of a  *)
(* subscription is pushed to the router in the same request                *)
(* (src/api/handler/subscriptions.go), so it writes the router's secrets   *)
(* and hotspot users as well; audit and notification log rows are left     *)
(* out of the writes.                                                      *)
(***************************************************************************)
EXTENDS WebApi

(************************** customers and billing **************************)
CustomersService ==
  [listCustomers |-> {"customer"}, createCustomer |-> {"customer"},
   updateCustomer |-> {"customer"}, removeCustomer |-> {"customer"},
   batchRemoveCustomers |-> {"customer"}, revealPortalPassword |-> {"customer"},
   resetPortalPassword |-> {"customer"}]

CustomersHooks ==
  [queries |-> {Query("useCustomers", qkOffice.customers, CustomersService.listCustomers)},
   mutations |->
     {Mutation("useCreateCustomer", CustomersService.createCustomer, {<<"customers">>}),
      Mutation("useUpdateCustomer", CustomersService.updateCustomer, {<<"customers">>}),
      Mutation("useRemoveCustomer", CustomersService.removeCustomer, {<<"customers">>}),
      Mutation("useBatchRemoveCustomers", CustomersService.batchRemoveCustomers,
               {<<"customers">>})}]

SubscriptionsService ==
  [listSubscriptions |-> {"subscription"},
   createSubscription |-> {"subscription", "pppSecret", "hsUser"},
   updateSubscription |-> {"subscription", "pppSecret", "hsUser"},
   patchSubscriptionStatus |-> {"subscription", "pppSecret", "hsUser"},
   reconcileSubscription |-> {"pppSecret", "hsUser"},
   removeSubscription |-> {"subscription", "pppSecret", "hsUser"},
   batchRemoveSubscriptions |-> {"subscription"},
   revealSubscriptionPassword |-> {"subscription"},
   listSubscriptionsByDevice |-> {"subscription", "pppActive", "hsActive"}]

SubscriptionsHooks ==
  LET Hook(name, writes) == Mutation(name, writes, {<<"subscriptions">>})
  IN [queries |->
        {Query("useSubscriptions", qkOffice.subscriptions,
               SubscriptionsService.listSubscriptions),
         Polled(Query("useSubscriptionsByDevice", qkOffice.subscriptionsByDevice,
                      SubscriptionsService.listSubscriptionsByDevice))},
      mutations |->
        {Hook("useCreateSubscription", SubscriptionsService.createSubscription),
         Hook("useUpdateSubscription", SubscriptionsService.updateSubscription),
         Hook("usePatchSubscriptionStatus", SubscriptionsService.patchSubscriptionStatus),
         Hook("useReconcileSubscription", SubscriptionsService.reconcileSubscription),
         Hook("useRemoveSubscription", SubscriptionsService.removeSubscription),
         Hook("useBatchRemoveSubscriptions",
              SubscriptionsService.batchRemoveSubscriptions)}]

InvoicesService ==
  [listInvoices |-> {"invoice"}, getInvoice |-> {"invoice"},
   generateInvoice |-> {"invoice"}, cancelInvoice |-> {"invoice"}]

InvoicesHooks ==
  [queries |-> {Query("useInvoices", qkOffice.invoices, InvoicesService.listInvoices),
                Query("useInvoice", qkOffice.invoice, InvoicesService.getInvoice)},
   mutations |->
     {Mutation("useGenerateInvoice", InvoicesService.generateInvoice, {<<"invoices">>}),
      Mutation("useCancelInvoice", InvoicesService.cancelInvoice,
               {<<"invoices">>, <<"payments">>})}]

(* A confirmed payment settles its invoice and restores the subscription. *)
PaymentsService ==
  [listPayments |-> {"payment"}, getPayment |-> {"payment"},
   createPayment |-> {"payment", "invoice", "subscription"},
   confirmPayment |-> {"payment", "invoice", "subscription"},
   rejectPayment |-> {"payment"},
   collectByCode |-> {"payment", "invoice", "subscription"}]

PaymentsQueries ==
  {Query("usePayments", qkOffice.payments, PaymentsService.listPayments),
   Query("useInvoicePayments", qkOffice.invoicePayments, PaymentsService.listPayments)}

(* A faulty form: a confirmation forgets the invoices. *)
PaymentsMutationsForgetful ==
  {Mutation("useCreatePayment", PaymentsService.createPayment, {<<"payments">>, <<"invoices">>}),
   Mutation("useConfirmPayment", PaymentsService.confirmPayment,
            {<<"payments">>, <<"subscriptions">>}),
   Mutation("useRejectPayment", PaymentsService.rejectPayment, {<<"payments">>, <<"invoices">>}),
   Mutation("useCollectByCode", PaymentsService.collectByCode,
            {<<"payments">>, <<"invoices">>, <<"subscriptions">>})}

PaymentsMutations ==
  {Mutation("useCreatePayment", PaymentsService.createPayment, {<<"payments">>, <<"invoices">>}),
   Mutation("useConfirmPayment", PaymentsService.confirmPayment,
            {<<"payments">>, <<"invoices">>, <<"subscriptions">>}),
   Mutation("useRejectPayment", PaymentsService.rejectPayment, {<<"payments">>, <<"invoices">>}),
   Mutation("useCollectByCode", PaymentsService.collectByCode,
            {<<"payments">>, <<"invoices">>, <<"subscriptions">>})}

RegistrationsService ==
  [listRegistrations |-> {"registration"},
   approveRegistration |-> {"registration", "customer"},
   rejectRegistration |-> {"registration"}, assignRegistration |-> {"registration"},
   completeInstall |-> {"registration", "subscription", "invoice"}]

RegistrationsHooks ==
  LET useInvalidate == {<<"registrations">>, <<"customers">>, <<"subscriptions">>}
  IN [queries |-> {Query("useRegistrations", qkOffice.registrations,
                         RegistrationsService.listRegistrations)},
      mutations |->
        {Mutation("useApproveRegistration", RegistrationsService.approveRegistration,
                  useInvalidate),
         Mutation("useRejectRegistration", RegistrationsService.rejectRegistration,
                  useInvalidate),
         Mutation("useAssignRegistration", RegistrationsService.assignRegistration,
                  useInvalidate),
         Mutation("useCompleteInstall", RegistrationsService.completeInstall,
                  useInvalidate)}]

(***************************** administration ******************************)
RoutersService ==
  [listRouters |-> {"device"}, getRouter |-> {"device"}, createRouter |-> {"device"},
   updateRouter |-> {"device"}, deleteRouter |-> {"device"}]

RoutersHooks ==
  [queries |-> {Polled(Query("useRouters", qk.routers, RoutersService.listRouters)),
                Query("useRouter", qk.router, RoutersService.getRouter)},
   mutations |->
     {Setting(Mutation("useCreateRouter", RoutersService.createRouter, {qk.routers}), qk.router),
      Setting(Mutation("useUpdateRouter", RoutersService.updateRouter, {qk.routers}), qk.router),
      Dropping(Mutation("useDeleteRouter", RoutersService.deleteRouter, {qk.routers}),
               qk.router)}]

(* ownUser is the row of the signed-in account, which the list shows too and  *)
(* which the page does not let it delete.                                      *)
AdminUsersService ==
  [listAdminUsers |-> {"user"}, getAdminUser |-> {"user"}, createAdminUser |-> {"user"},
   updateAdminUser |-> {"user", "ownUser"}, deleteAdminUser |-> {"user"}, batchDeleteAdminUsers |-> {"user"}]

AdminUsersHooks ==
  [queries |-> {Query("useAdminUsers", qk.adminUsers, AdminUsersService.listAdminUsers),
                Query("useAdminUser", qk.adminUser, AdminUsersService.getAdminUser)},
   mutations |->
     {Setting(Mutation("useCreateAdminUser", AdminUsersService.createAdminUser,
                       {qk.adminUsers}), qk.adminUser),
      Setting(Mutation("useUpdateAdminUser", AdminUsersService.updateAdminUser,
                       {qk.adminUsers}), qk.adminUser),
      Dropping(Mutation("useDeleteAdminUser", AdminUsersService.deleteAdminUser,
                        {qk.adminUsers}), qk.adminUser),
      Mutation("useBatchDeleteAdminUsers", AdminUsersService.batchDeleteAdminUsers,
               {qk.adminUsers})}]

CurrentUserQueries == {Query("useCurrentUser", qk.currentUser, {"ownUser"})}

AccountService == [getMe |-> {"ownUser"}, updateMe |-> {"user", "ownUser"}]

AccountHooks ==
  [queries |-> {Query("useMe", <<"me">>, AccountService.getMe)},
   mutations |-> {Mutation("useUpdateMe", AccountService.updateMe, {<<"me">>})}]

SettingsService == [listSettings |-> {"setting"}, updateSetting |-> {"setting"}]

SettingsHooks ==
  [queries |-> {Query("useSystemSettings", qk.settings, SettingsService.listSettings)},
   mutations |-> {Mutation("useUpdateSetting", SettingsService.updateSetting, {qk.settings})}]

PaymentGatewayService == [testPaymentGateway |-> {}]

PaymentGatewayHooks ==
  [queries |-> {},
   mutations |-> {Mutation("useTestPaymentGateway",
                           PaymentGatewayService.testPaymentGateway, {})}]

AuditLogsService == [listAuditLogs |-> {"auditLog"}]

AuditLogsQueries == {Query("useAuditLogs", qkOffice.auditLogs, AuditLogsService.listAuditLogs)}

NotificationsService == [listNotifications |-> {"notificationLog"}]

NotificationsQueries ==
  {Query("useNotifications", qkOffice.notificationsLog, NotificationsService.listNotifications)}

MessageTemplatesService ==
  [listMessageTemplates |-> {"template"}, updateMessageTemplate |-> {"template"}]

MessageTemplatesHooks ==
  [queries |-> {Query("useMessageTemplates", qkOffice.messageTemplates,
                      MessageTemplatesService.listMessageTemplates)},
   mutations |-> {Mutation("useUpdateMessageTemplate",
                           MessageTemplatesService.updateMessageTemplate,
                           {qkOffice.messageTemplates})}]

(* The QR call pairs the device; 409 (already connected) is answered by null.  *)
(* A pairing code changes nothing until it is typed into the phone.            *)
NotificationCenterService ==
  [getWhatsAppStatus |-> {"whatsapp"}, getWhatsAppQR |-> {"whatsapp"},
   pairWhatsAppPhone |-> {}, logoutWhatsApp |-> {"whatsapp"},
   getWhatsAppContacts |-> {"whatsapp"}, getWhatsAppGroups |-> {"whatsapp"},
   sendWhatsAppTest |-> {}, listNotifEvents |-> {"notifEvent"},
   updateNotifEvent |-> {"notifEvent"}, getNotifSettings |-> {"setting"},
   updateSetting |-> {"setting"}, sendTelegramTest |-> {}]

NotificationCenterHooks ==
  [queries |->
     {Polled(Query("useWhatsAppStatus", qkOffice.whatsappStatus,
                   NotificationCenterService.getWhatsAppStatus)),
      Polled(Query("useWhatsAppQR", qkOffice.whatsappQR,
                   NotificationCenterService.getWhatsAppQR)),
      Query("useWhatsAppContacts", qkOffice.whatsappContacts,
            NotificationCenterService.getWhatsAppContacts),
      Query("useWhatsAppGroups", qkOffice.whatsappGroups,
            NotificationCenterService.getWhatsAppGroups),
      Query("useNotifEvents", qkOffice.notifEvents, NotificationCenterService.listNotifEvents),
      Query("useNotifSettings", Append(qk.settings, "notification-group"),
            NotificationCenterService.getNotifSettings)},
   mutations |->
     {Mutation("usePairWhatsAppPhone", NotificationCenterService.pairWhatsAppPhone, {}),
      Mutation("useLogoutWhatsApp", NotificationCenterService.logoutWhatsApp, {<<"whatsapp">>}),
      Mutation("useSendWhatsAppTest", NotificationCenterService.sendWhatsAppTest, {}),
      Mutation("useUpdateNotifEvent", NotificationCenterService.updateNotifEvent,
               {qkOffice.notifEvents}),
      Mutation("useUpdateSetting (notifications)", NotificationCenterService.updateSetting,
               {qk.settings}),
      Mutation("useSendTelegramTest", NotificationCenterService.sendTelegramTest, {})}]

(* The older page of the same gateway. *)
WhatsAppService ==
  [getWhatsAppStatus |-> {"whatsapp"}, getWhatsAppQR |-> {"whatsapp"},
   logoutWhatsApp |-> {"whatsapp"}, sendWhatsAppTest |-> {},
   getNotificationSettings |-> {"setting"}, updateSetting |-> {"setting"}]

WhatsAppHooks ==
  [queries |->
     {Polled(Query("useWhatsAppStatus", qkOffice.whatsappStatus,
                   WhatsAppService.getWhatsAppStatus)),
      Polled(Query("useWhatsAppQR", qkOffice.whatsappQR, WhatsAppService.getWhatsAppQR)),
      Query("useNotificationSettings", qk.settings, WhatsAppService.getNotificationSettings)},
   mutations |->
     {Mutation("useLogoutWhatsApp", WhatsAppService.logoutWhatsApp, {<<"whatsapp">>}),
      Mutation("useSendWhatsAppTest", WhatsAppService.sendWhatsAppTest, {}),
      Mutation("useUpdateSetting (notifications)", WhatsAppService.updateSetting,
               {qk.settings})}]

(***************** customer portal and public registration *****************)
PortalInvoicesService ==
  [listPortalInvoices |-> {"invoice"}, getPortalInvoice |-> {"invoice"},
   initiateOnlinePayment |-> {"payment"}, getPaymentGatewayStatus |-> {"setting"},
   uploadProof |-> {}, createPortalPayment |-> {"payment"}]

(* useCreatePortalPayment invalidates nothing itself; the page does, on success *)
(* (customer-portal/invoices/invoice-detail.tsx).                               *)
PortalInvoicesHooks ==
  [queries |->
     {Query("usePortalInvoices", qkOffice.portalInvoices,
            PortalInvoicesService.listPortalInvoices),
      Query("usePortalInvoice", qkOffice.portalInvoice, PortalInvoicesService.getPortalInvoice),
      Query("usePaymentGatewayStatus", <<"portal", "payment-gateway", "status">>,
            PortalInvoicesService.getPaymentGatewayStatus)},
   mutations |->
     {Mutation("useInitiateOnlinePayment", PortalInvoicesService.initiateOnlinePayment, {}),
      Mutation("useUploadProof", PortalInvoicesService.uploadProof, {}),
      Mutation("useCreatePortalPayment", PortalInvoicesService.createPortalPayment,
               {qkOffice.portalInvoice, qkOffice.portalInvoices, qkOffice.portalPayments})}]

PortalMeQueries == {Query("usePortalMe", qkOffice.portalMe, {"customer"})}

PortalPaymentsQueries == {Query("usePortalPayments", qkOffice.portalPayments, {"payment"})}

PortalSubscriptionsQueries ==
  {Query("usePortalSubscriptions", qkOffice.portalSubscriptions, {"subscription"}),
   Polled(Query("usePortalSubscriptionStatus", qkOffice.portalSubscription,
                {"subscription", "pppActive", "hsActive"}))}

PortalMutations ==
  {Mutation("useChangePortalPassword", {"customer"}, {qkOffice.portalMe})}

PublicRegisterService ==
  [getPublicPackages |-> {"pppProfileDB", "hsProfileDB"}, submitRegistration |-> {"registration"}]

PublicRegisterHooks ==
  [queries |-> {Query("usePublicPackages", qkOffice.publicPackages,
                      PublicRegisterService.getPublicPackages)},
   mutations |-> {Mutation("useSubmitRegistration",
                           PublicRegisterService.submitRegistration, {})}]

OfficeHooks ==
  {CustomersHooks, SubscriptionsHooks, InvoicesHooks, RegistrationsHooks, RoutersHooks,
   AdminUsersHooks, AccountHooks, SettingsHooks, PaymentGatewayHooks, MessageTemplatesHooks,
   NotificationCenterHooks, WhatsAppHooks, PortalInvoicesHooks, PublicRegisterHooks}

OfficeQueries ==
  UNION {h.queries : h \in OfficeHooks}
    \cup PaymentsQueries \cup CurrentUserQueries \cup AuditLogsQueries
    \cup NotificationsQueries \cup PortalMeQueries \cup PortalPaymentsQueries
    \cup PortalSubscriptionsQueries

OfficeMutations ==
  UNION {h.mutations : h \in OfficeHooks}
    \cup PaymentsMutations \cup PortalMutations
=============================================================================
