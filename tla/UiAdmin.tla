------------------------------- MODULE UiAdmin ------------------------------
(* The administration pages of the web client: accounts, settings, message  *)
(* templates, the notification centre, the logs, and the network and system *)
(* pages of a router.                                                       *)
EXTENDS Ui

(****************************** accounts ***********************************)
AdminUsersScreen == Opening(Screen("AdminUsers", {"useAdminUsers"}, {}), {"AdminUserMutateDialog"})

(* Rows are keyed by the account, and are not paged.                        *)
AdminUsersTable ==
  Opening(Screen("AdminUsersTable", {}, {}), {"AdminUserMutateDialog", "AdminUserDeleteDialog"})

AdminUsersDialogStore == Store("adminUsers")

AdminUserDeleteDialog ==
  Dialog("AdminUserDeleteDialog", AdminUsersDialogStore, "always", "callback", "success",
         {"useDeleteAdminUser"})

AdminUserMutateDialog ==
  AddsOrEdits(Dialog("AdminUserMutateDialog", AdminUsersDialogStore, "open", "callback", "success",
                     {"useCreateAdminUser", "useUpdateAdminUser"}))

AdminUserDefaults == [row |-> {"username", "role", "active"}, blank |-> {"password"}]

AdminUserPayload == [changed |-> {"username", "role", "active"}, filled |-> {"password"}]

AdminUserInputs ==
  [required |-> {"username"}, free |-> {"password"}, choice |-> {"role"}, switch |-> {"active"}]

(* The body of the endpoint has no username.                                *)
AdminUserStores == [dropped |-> {"username"}]

AdminUserForm ==
  Freezes(WritesRow(Stores(Form("AdminUserForm", AdminUserDefaults, AdminUserPayload,
                                AdminUserInputs, "never"), AdminUserStores)),
          {"username", "role", "active", "password"})

(******************************* settings **********************************)
GeneralDefaults == [row |-> {"company_name", "hotspot_login_url"}]

GeneralPayload == [always |-> {"company_name", "hotspot_login_url"}]

GeneralForm ==
  PerField(Form("GeneralForm", GeneralDefaults, GeneralPayload,
                [free |-> {"company_name", "hotspot_login_url"}], "data"))

BillingConfigDefaults ==
  [row |-> {"default_billing_day", "invoice_due_days", "isolir_after_days",
            "hard_suspend_after_days", "isolir_profile_name"}]

BillingConfigPayload == [always |-> BillingConfigDefaults.row]

BillingConfigForm ==
  PerField(Form("BillingConfigForm", BillingConfigDefaults, BillingConfigPayload,
                [required |-> BillingConfigDefaults.row], "data"))

BackupDefaults == [row |-> {"enabled", "path", "retention_days"}]

BackupPayload == [always |-> {"enabled", "path", "retention_days"}]

BackupForm ==
  PerField(Form("BackupForm", BackupDefaults, BackupPayload,
                [required |-> {"path", "retention_days"}, switch |-> {"enabled"}], "data"))

(* Secrets come back masked and start empty.                                *)
PaymentGatewayDefaults ==
  [row |-> {"xendit_enabled", "xendit_invoice_duration", "app_url"},
   blank |-> {"xendit_secret_key", "xendit_webhook_token"}]

PaymentGatewayPayload ==
  [always |-> {"xendit_enabled", "xendit_invoice_duration", "app_url"},
   filled |-> {"xendit_secret_key", "xendit_webhook_token"}]

PaymentGatewayInputs ==
  [switch |-> {"xendit_enabled"}, required |-> {"xendit_invoice_duration"},
   free |-> {"app_url", "xendit_secret_key", "xendit_webhook_token"}]

PaymentGatewayForm ==
  PerField(Form("PaymentGatewayForm", PaymentGatewayDefaults, PaymentGatewayPayload,
                PaymentGatewayInputs, "data"))

NotificationConfigDefaults ==
  [row |-> {"wa_enabled", "admin_phone", "telegram_enabled", "telegram_chat_id"},
   blank |-> {"telegram_bot_token"}]

NotificationConfigPayload ==
  [always |-> {"wa_enabled", "admin_phone", "telegram_enabled", "telegram_chat_id"},
   filled |-> {"telegram_bot_token"}]

NotificationConfigInputs ==
  [switch |-> {"wa_enabled", "telegram_enabled"},
   free |-> {"admin_phone", "telegram_chat_id", "telegram_bot_token"}]

NotificationConfigForm ==
  PerField(Form("NotificationConfigForm", NotificationConfigDefaults,
                NotificationConfigPayload, NotificationConfigInputs, "data"))

SettingsForms ==
  Screen("SettingsForms", {"useSystemSettings"}, {"useUpdateSetting", "useTestPaymentGateway"})

AccountDefaults == [row |-> {"email"}, blank |-> {"new_password"}]

(* The e-mail goes out when it differs from the record and is not empty.    *)
AccountPayload == [edited |-> {"email"}, filled |-> {"new_password"}]

AccountInputs == [free |-> {"email", "new_password"}]

AccountForm ==
  Resets(WritesRow(Form("AccountForm", AccountDefaults, AccountPayload, AccountInputs, "data")))

AccountScreen == Screen("Account", {"useMe"}, {"useUpdateMe"})

ProfileDefaults == [row |-> {"username"}, blank |-> {"password"}]

ProfilePayload == [changed |-> {"username"}, filled |-> {"password"}]

OwnProfileForm ==
  Freezes(Clears(WritesRow(Stores(Form("OwnProfileForm", ProfileDefaults, ProfilePayload,
                                       [required |-> {"username"}, free |-> {"password"}], "rows"),
                                  AdminUserStores))),
          {"username", "password"})

ProfileScreen == Screen("Profile", {"useCurrentUser"}, {"useUpdateAdminUser"})

(******************** templates and notification centre ********************)
MessageTemplatesScreen == Screen("MessageTemplates", {"useMessageTemplates"}, {})

MessageTemplatesColumns ==
  Opening(Screen("MessageTemplatesRow", {}, {}), {"TemplateEditDrawer"})

MessageTemplatesDialogStore == Store("messageTemplates")

TemplateEditDrawer ==
  Dialog("TemplateEditDrawer", MessageTemplatesDialogStore, "open", "callback", "success",
         {"useUpdateMessageTemplate"})

TemplateForm ==
  WritesRow(Form("TemplateForm", [row |-> {"name", "body", "active"}],
                 [always |-> {"name", "body", "active"}],
                 [required |-> {"name", "body"}, switch |-> {"active"}], "never"))

TabWhatsApp ==
  Opening(Screen("TabWhatsApp", {"useWhatsAppStatus", "useWhatsAppGroups"},
                 {"useLogoutWhatsApp"}),
          {"WaConnectModal"})

WaConnectModal ==
  Adds(Dialog("WaConnectModal", Local("waConnect"), "always", "callback", "never",
              {"useLogoutWhatsApp", "usePairWhatsAppPhone"}))

WaConnectScreen ==
  Screen("WaConnect", {"useWhatsAppStatus", "useWhatsAppQR"}, WaConnectModal.sends)

(* A field shows what was typed or, before that, the setting as it is now,  *)
(* and goes out when it differs from the setting as it is now.              *)
WaSettingsCard ==
  Joined(Form("WaSettingsCard", [row |-> {"wa_enabled", "admin_phone"}],
              [changed |-> {"wa_enabled", "admin_phone"}],
              [switch |-> {"wa_enabled"}, free |-> {"admin_phone"}], "untouched"))

(* The configuration cards of the two tabs.                                 *)
NotificationCards ==
  Screen("NotificationCards", {"useNotifSettings"}, {"useUpdateSetting (notifications)"})

WaTestCard == Screen("WaTestCard", {}, {"useSendWhatsAppTest"})

TelegramConfigCard ==
  Joined(Form("TelegramConfigCard",
              [row |-> {"telegram_enabled", "telegram_chat_id"}, blank |-> {"telegram_bot_token"}],
              [changed |-> {"telegram_enabled", "telegram_chat_id"},
               filled |-> {"telegram_bot_token"}],
              [switch |-> {"telegram_enabled"},
               free |-> {"telegram_chat_id", "telegram_bot_token"}], "untouched"))

TelegramTestCard == Screen("TelegramTestCard", {}, {"useSendTelegramTest"})

NotificationsScreen == Screen("Notifications", {"useNotifications"}, {})

NotificationsColumns ==
  Table("notifications", "local", FALSE, "no", {"recipient_phone", "status", "template_slug"})

AuditLogsScreen == Screen("AuditLogs", {"useAuditLogs"}, {})

AuditLogsColumns == Table("audit-logs", "local", FALSE, "no", {"action", "entity_type"})

(************************** network and system *****************************)
(* ConfirmDeleteButton keeps its switch in the row it is rendered in.       *)
ConfirmDeleteButton(name, hook) ==
  GuardedByTab(AtClick(Dialog(name, InRow(name), "always", "await", "settled", {hook})))

PoolsTab == Opening(Screen("Pools", {"usePools"}, {"useDeletePool"}), {"AddPoolDialog", "PoolDelete"})

PoolsTable == Table("pools", "local", FALSE, "no", {"name"})

AddPoolDialog ==
  Adds(Dialog("AddPoolDialog", Local("addPool"), "always", "callback", "success", {"useCreatePool"}))

QueuesTab == Opening(Screen("Queues", {"useQueues"}, {"useDeleteQueue"}), {"QueueDelete"})

DhcpTab == Opening(Screen("Dhcp", {"useDHCPLeases"}, {"useDeleteDHCPLease"}), {"LeaseDelete"})

ArpTab == Screen("Arp", {"useArpByMac"}, {})

SchedulersTab ==
  Opening(Screen("Schedulers", {"useSchedulers"}, {"useDeleteScheduler"}),
          {"AddSchedulerDialog", "SchedulerDelete"})

AddSchedulerDialog ==
  Adds(Dialog("AddSchedulerDialog", Local("addScheduler"), "always", "callback", "success",
              {"useCreateScheduler"}))

ScriptsTab ==
  Opening(Screen("Scripts", {"useScripts"}, {"useDeleteScript"}), {"AddScriptDialog", "ScriptDelete"})

AddScriptDialog ==
  Adds(Dialog("AddScriptDialog", Local("addScript"), "always", "callback", "success",
              {"useCreateScript"}))

OverviewTab ==
  Screen("SystemOverview", {"useSystemIdentity", "useSystemResource", "useSystemRouterboard",
                            "useSystemClock", "useSystemLicense"},
         {"useReboot", "useShutdown"})

HistoryDialog == Screen("History", {"useInterfaceHistory", "useQueueHistory"}, {})

AdminScreens ==
  {AdminUsersScreen, AdminUsersTable, SettingsForms, AccountScreen, ProfileScreen,
   MessageTemplatesScreen, MessageTemplatesColumns, TabWhatsApp, WaConnectScreen, NotificationCards,
   WaTestCard, TelegramTestCard, NotificationsScreen, AuditLogsScreen, PoolsTab, QueuesTab,
   DhcpTab, ArpTab, SchedulersTab, ScriptsTab, OverviewTab, HistoryDialog}

AdminDialogs ==
  {AdminUserDeleteDialog, AdminUserMutateDialog, TemplateEditDrawer, WaConnectModal,
   AddPoolDialog, AddSchedulerDialog, AddScriptDialog,
   ConfirmDeleteButton("PoolDelete", "useDeletePool"),
   ConfirmDeleteButton("QueueDelete", "useDeleteQueue"),
   ConfirmDeleteButton("LeaseDelete", "useDeleteDHCPLease"),
   ConfirmDeleteButton("SchedulerDelete", "useDeleteScheduler"),
   ConfirmDeleteButton("ScriptDelete", "useDeleteScript")}

AdminForms ==
  {AdminUserForm, GeneralForm, BillingConfigForm, BackupForm, PaymentGatewayForm,
   NotificationConfigForm, AccountForm, OwnProfileForm, TemplateForm, WaSettingsCard,
   TelegramConfigCard}

AdminTables == {NotificationsColumns, AuditLogsColumns, PoolsTable}
=============================================================================
