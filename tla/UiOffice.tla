------------------------------ MODULE UiOffice ------------------------------
(* The office pages of the web client: customers, subscriptions, invoices,  *)
(* payments, registrations, routers and the dashboard.                      *)
EXTENDS Ui

(****************************** customers **********************************)
CustomersScreen ==
  Opening(Screen("Customers", {"useCustomers"}, {}), {"CustomerMutateDrawer"})

CustomersProvider == Provider("customers")

CustomersTable == Table("customers", "url", TRUE, "confirm", {"full_name", "area", "status"})

CustomersRowActions ==
  Opening(Screen("CustomersRow", {}, {}),
          {"CustomerMutateDrawer", "CustomersDeleteDialog", "PasswordRevealDialog"})

CustomersBulkActions == Opening(Screen("CustomersBulk", {}, {}), {"CustomersMultiDeleteDialog"})

CustomersDeleteDialog ==
  Dialog("CustomersDeleteDialog", CustomersProvider, "row", "await", "success",
         {"useRemoveCustomer"})

CustomersMultiDeleteDialog ==
  Unguarded(ForTicked(Dialog("CustomersMultiDeleteDialog", Ticked("customers"), "always", "await",
                             "before", {"useBatchRemoveCustomers"})))

(* The reset asks the service itself; the reveal is a read.                 *)
PasswordRevealDialog ==
  Dialog("PasswordRevealDialog", CustomersProvider, "row", "await", "never", {})

CustomerMutateDrawer ==
  AddsOrEdits(Dialog("CustomerMutateDrawer", CustomersProvider, "open", "callback", "success",
                     {"useCreateCustomer", "useUpdateCustomer", "useCreateSubscription"}))

CustomerDefaults == [row |-> {"full_name", "phone", "area", "address", "notes", "status"}]

CustomerPayload == [always |-> {"full_name", "phone", "area", "address", "notes", "status"}]

CustomerInputs ==
  [required |-> {"full_name", "phone"}, free |-> {"area", "address", "notes"},
   choice |-> {"status"}]

CustomerForm ==
  Timed(WritesRow(Form("CustomerForm", CustomerDefaults, CustomerPayload, CustomerInputs, "never")))

(* The second step of adding a customer: its first subscription.            *)
CustomerSubscriptionStep ==
  Screen("CustomerSubscriptionStep",
         {"useRouters", "usePPPDbProfiles", "useHotspotDbProfiles"}, {"useCreateSubscription"})

(***************************** subscriptions *******************************)
SubscriptionsScreen ==
  Opening(Screen("Subscriptions", {"useSubscriptions", "useCustomers"}, {}),
          {"SubscriptionMutateDrawer"})

SubscriptionsProvider == Provider("subscriptions")

SubscriptionsTable ==
  Table("subscriptions", "url", TRUE, "confirm",
        {"mikrotik_username", "service_type", "status"})

SubscriptionsRowActions ==
  Opening(Screen("SubscriptionsRow", {}, {"useReconcileSubscription"}),
          {"SubscriptionMutateDrawer", "SubscriptionsStatusDialog", "SubscriptionsDeleteDialog"})

SubscriptionsBulkActions ==
  Opening(Screen("SubscriptionsBulk", {}, {}), {"SubscriptionsMultiDeleteDialog"})

SubscriptionsDeleteDialog ==
  Dialog("SubscriptionsDeleteDialog", SubscriptionsProvider, "row", "callback", "success",
         {"useRemoveSubscription"})

SubscriptionsMultiDeleteDialog ==
  Unguarded(ForTicked(Dialog("SubscriptionsMultiDeleteDialog", Ticked("subscriptions"), "always",
                             "await", "before", {"useBatchRemoveSubscriptions"})))

SubscriptionsStatusDialog ==
  Dialog("SubscriptionsStatusDialog", SubscriptionsProvider, "open", "callback", "success",
         {"usePatchSubscriptionStatus"})

SubscriptionMutateDrawer ==
  AddsOrEdits(Dialog("SubscriptionMutateDrawer", SubscriptionsProvider, "open", "callback", "success",
                     {"useCreateSubscription", "useUpdateSubscription"}))

(* The password is never read back; the user mode starts as "up".           *)
SubscriptionDefaults ==
  [row |-> {"customer_id", "device_id", "service_type", "profile_id", "mikrotik_username",
            "billing_day", "notes"},
   blank |-> {"mikrotik_password"}]

SubscriptionPayload ==
  [always |-> {"notes"}, filled |-> {"mikrotik_password", "billing_day", "profile_id"},
   fixed |-> {"customer_id", "device_id", "service_type", "mikrotik_username"}]

SubscriptionInputs ==
  [locked |-> {"customer_id", "device_id", "service_type", "mikrotik_username"},
   choice |-> {"profile_id"}, free |-> {"mikrotik_password"}]

SubscriptionMoreInputs == [free |-> {"billing_day", "notes"}]

SubscriptionForm ==
  Timed(WritesRow(Form("SubscriptionForm", SubscriptionDefaults, SubscriptionPayload,
                       Both(SubscriptionInputs, SubscriptionMoreInputs), "never")))

SubscriptionFormScreen ==
  Screen("SubscriptionForm",
         {"useCustomers", "useRouters", "usePPPDbProfiles", "useHotspotDbProfiles"},
         SubscriptionMutateDrawer.sends)

(* The monitoring page of one router.                                       *)
SubscriptionsMonitoring ==
  Screen("SubscriptionsMonitoring", {"useSubscriptionsByDevice", "useCustomers"},
         {"useReconcileSubscription"})

SubscriptionsMonitoringTable ==
  Table("monitoring", "local", FALSE, "no", {"identity", "service_type", "status"})

(************************* invoices and payments ***************************)
InvoicesScreen ==
  Opening(Screen("Invoices", {"useInvoices", "useCustomers"}, {}),
          {"GenerateInvoiceDialog", "InvoiceDetailDialog"})

InvoicesColumns == Table("invoices", "local", FALSE, "no", {"customer", "status"})

GenerateInvoiceDialog ==
  Adds(Dialog("GenerateInvoiceDialog", Local("invoices"), "always", "callback", "success",
              {"useGenerateInvoice"}))

InvoiceDetailDialog ==
  Dialog("InvoiceDetailDialog", Local("invoiceDetail"), "always", "callback", "success",
         {"useCancelInvoice"})

InvoiceDetailScreen ==
  Opening(Screen("InvoiceDetail", {"useInvoice", "useInvoicePayments", "useCustomers"},
                 {"useCancelInvoice"}),
          {"RecordPaymentDialog"})

(* The suggested amount is taken when the dialog is first rendered.         *)
RecordPaymentDialog ==
  Dialog("RecordPaymentDialog", Local("recordPayment"), "always", "callback", "success",
         {"useCreatePayment"})

PaymentsScreen ==
  Opening(Screen("Payments", {"usePayments", "useCustomers"}, {}), {"ConfirmRejectDialog", "CollectByCodeDialog"})

PaymentsColumns == Table("payments", "local", FALSE, "no", {"status", "method"})

CollectByCodeDialog ==
  Adds(Dialog("CollectByCodeDialog", Local("collect"), "always", "callback", "never",
              {"useCollectByCode"}))

ConfirmRejectDialog ==
  Dialog("ConfirmRejectDialog", Local("confirmReject"), "always", "callback", "success",
         {"useConfirmPayment", "useRejectPayment"})

(****************************** registrations ******************************)
RegistrationsScreen == Screen("Registrations", {"useRegistrations"}, {})

RegistrationsDialogStore == Store("registrations")

RegistrationsColumns == Table("registrations", "local", FALSE, "no", {"full_name", "status"})

RegistrationsRowActions ==
  Opening(Screen("RegistrationsRow", {}, {}),
          {"ApproveDialog", "RejectDialog", "AssignDialog", "CompleteInstallDrawer"})

ApproveDialog ==
  Dialog("ApproveDialog", RegistrationsDialogStore, "always", "callback", "success",
         {"useApproveRegistration"})

RejectDialog ==
  Dialog("RejectDialog", RegistrationsDialogStore, "always", "callback", "success",
         {"useRejectRegistration"})

AssignDialog ==
  Dialog("AssignDialog", RegistrationsDialogStore, "always", "callback", "success",
         {"useAssignRegistration"})

RegistrationActionDialogs == Screen("RegistrationActionDialogs", {"useAdminUsers"},
  ApproveDialog.sends \union RejectDialog.sends \union AssignDialog.sends)

CompleteInstallDrawer ==
  Dialog("CompleteInstallDrawer", RegistrationsDialogStore, "open", "callback", "success",
         {"useCompleteInstall"})

InstallForm ==
  Screen("InstallForm", {"useRouters", "usePPPDbProfiles", "useHotspotDbProfiles"},
         {"useCompleteInstall"})

(******************************** routers **********************************)
RoutersScreen == Opening(Screen("Routers", {"useRouters"}, {}), {"RoutersMutateDialog"})

RoutersTable == Table("routers", "one", FALSE, "no", {})

RoutersRowActions ==
  Opening(Screen("RoutersRow", {}, {}), {"RoutersMutateDialog", "RoutersDeleteDialog"})

RoutersDialogStore == Store("routers")

RoutersDeleteDialog ==
  Dialog("RoutersDeleteDialog", RoutersDialogStore, "always", "callback", "success",
         {"useDeleteRouter"})

RoutersMutateDialog ==
  AddsOrEdits(Dialog("RoutersMutateDialog", RoutersDialogStore, "open", "callback", "success",
                     {"useCreateRouter", "useUpdateRouter"}))

RouterDefaults ==
  [row |-> {"display_name", "host", "port", "username", "use_tls"}, blank |-> {"password"}]

(* Only what differs from the row the form was opened on is sent.           *)
RouterPayload ==
  [changed |-> {"display_name", "host", "port", "username", "use_tls"}, filled |-> {"password"}]

RouterInputs ==
  [required |-> {"display_name", "host", "port", "username"}, free |-> {"password"},
   switch |-> {"use_tls"}]

(* Updates with a struct: gorm skips the fields that are zero.              *)
RouterStores ==
  [nonzero |-> {"display_name", "host", "port", "username", "use_tls", "password"}]

RouterForm ==
  Freezes(WritesRow(Stores(Form("RouterForm", RouterDefaults, RouterPayload, RouterInputs, "never"),
                           RouterStores)),
          {"display_name", "host", "port", "username", "password"})

(******************************* dashboard *********************************)
DashboardScreen ==
  Screen("Dashboard", {"useHotspotUsers", "useHotspotActive", "useSellingToday",
                       "useSellingSummary", "useCustomers", "useSubscriptions"}, {})

OfficeScreens ==
  {CustomersScreen, CustomersRowActions, CustomersBulkActions, CustomerSubscriptionStep,
   SubscriptionsScreen, SubscriptionsRowActions, SubscriptionsBulkActions,
   SubscriptionFormScreen, SubscriptionsMonitoring, InvoicesScreen, InvoiceDetailScreen,
   PaymentsScreen, RegistrationsScreen, RegistrationsRowActions, RegistrationActionDialogs,
   InstallForm, RoutersScreen, RoutersRowActions, DashboardScreen}

OfficeDialogs ==
  {CustomersDeleteDialog, CustomersMultiDeleteDialog, CustomerMutateDrawer, PasswordRevealDialog,
   SubscriptionsDeleteDialog, SubscriptionsMultiDeleteDialog, SubscriptionsStatusDialog,
   SubscriptionMutateDrawer, GenerateInvoiceDialog, InvoiceDetailDialog, RecordPaymentDialog,
   CollectByCodeDialog, ConfirmRejectDialog, ApproveDialog, RejectDialog, AssignDialog,
   CompleteInstallDrawer, RoutersDeleteDialog, RoutersMutateDialog}

OfficeForms == {CustomerForm, SubscriptionForm, RouterForm}

OfficeTables ==
  {CustomersTable, SubscriptionsTable, SubscriptionsMonitoringTable, InvoicesColumns,
   PaymentsColumns, RegistrationsColumns, RoutersTable}
=============================================================================
