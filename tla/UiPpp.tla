------------------------------- MODULE UiPpp --------------------------------
(* The PPP pages of the web client: secrets, profiles on the router, active *)
(* sessions and billing profiles in the database.                           *)
EXTENDS Ui

(******************************* secrets ***********************************)
PPPSecretsScreen ==
  Opening(Screen("PPPSecrets", {"usePPPSecrets"}, {}), {"SecretMutateDrawer"})

PPPSecretsColumns == {"status", "name", "profile"}

PPPSecretsTable ==
  KeepsTicks(Table("ppp-secrets", "local", FALSE, "click", PPPSecretsColumns))

PPPSecretsBulkActions == Opening(Screen("PPPSecretsBulk", {}, {}), {"SecretDeleteDialog"})

PPPSecretRowActions ==
  Opening(Screen("PPPSecretRow", {}, {"useSetPPPSecretDisabled"}),
          {"SecretMutateDrawer", "SecretDeleteDialog"})

SecretsDialogStore == Store("pppSecrets")

(* One removal, or one batch call for the ticked secrets.                  *)
SecretDeleteDialog ==
  OneOrMany(AtClick(Dialog("SecretDeleteDialog", SecretsDialogStore, "always", "await", "settled",
                           {"useRemovePPPSecret", "useBatchRemovePPPSecrets"})))

SecretMutateDrawer ==
  AddsOrEdits(Dialog("SecretMutateDrawer", SecretsDialogStore, "open", "callback", "success",
                     {"useAddPPPSecret", "useUpdatePPPSecret"}))

PPPSecretDefaults ==
  [row |-> {"name", "service", "profile", "local_address", "remote_address", "comment"},
   blank |-> {"password"}]

PPPSecretPayload ==
  [always |-> {"name", "service", "profile", "local_address", "remote_address", "comment"},
   filled |-> {"password"}]

PPPSecretInputs ==
  [required |-> {"name"}, choice |-> {"service"},
   free |-> {"password", "profile", "local_address", "remote_address", "comment"}]

(* An edit has no comment, and skips what it finds empty.                  *)
PPPSecretStores ==
  [dropped |-> {"comment"}, nonempty |-> {"profile", "local_address", "remote_address"}]

PPPSecretForm ==
  Stores(Form("PPPSecretForm", PPPSecretDefaults, PPPSecretPayload, PPPSecretInputs, "never"),
         PPPSecretStores)

PPPSecretFormScreen == Screen("SecretForm", {"usePools"}, SecretMutateDrawer.sends)

(******************************* profiles **********************************)
PPPProfilesScreen ==
  Opening(Screen("PPPProfiles", {"usePPPProfiles"}, {}), {"PPPProfileMutateDrawer"})

PPPProfilesColumns == {"status", "name"}

PPPProfilesTable == Table("ppp-profiles", "local", FALSE, "no", PPPProfilesColumns)

PPPProfileRowActions ==
  Opening(Screen("PPPProfileRow", {}, {"useUpdatePPPProfile"}),
          {"PPPProfileMutateDrawer", "PPPProfileDeleteDialog"})

PPPProfilesDialogStore == Store("pppProfiles")

PPPProfileDeleteDialog ==
  AtClick(Dialog("PPPProfileDeleteDialog", PPPProfilesDialogStore, "always", "await", "settled",
                 {"useRemovePPPProfile"}))

PPPProfileMutateDrawer ==
  AddsOrEdits(Dialog("PPPProfileMutateDrawer", PPPProfilesDialogStore, "open", "callback", "success",
                     {"useAddPPPProfile", "useUpdatePPPProfile"}))

PPPProfileDefaults ==
  [row |-> {"name", "rate_limit", "local_address", "remote_address", "session_timeout",
            "idle_timeout", "parent_queue", "comment", "disabled"}]

PPPProfilePayload ==
  [always |-> {"name", "local_address", "remote_address", "disabled"},
   filled |-> {"rate_limit", "session_timeout", "idle_timeout", "parent_queue", "comment"}]

PPPProfileInputs ==
  [required |-> {"name"}, switch |-> {"disabled"},
   free |-> {"rate_limit", "local_address", "remote_address", "session_timeout",
             "idle_timeout", "parent_queue", "comment"}]

(* A PPP profile of the router cannot be disabled.                         *)
PPPProfileStores == [dropped |-> {"disabled"}]

PPPProfileForm ==
  Stores(Form("PPPProfileForm", PPPProfileDefaults, PPPProfilePayload, PPPProfileInputs, "never"),
         PPPProfileStores)

PPPProfileFormScreen == Screen("PPPProfileForm", {"usePools"}, PPPProfileMutateDrawer.sends)

(******************************** active ***********************************)
PPPActiveScreen == Opening(Screen("PPPActive", {"usePPPActive"}, {}), {"PPPDisconnect"})

PPPActiveColumns == {"name"}

PPPActiveTable == Table("ppp-active", "local", FALSE, "no", PPPActiveColumns)

(* The confirmation is part of the row.                                    *)
PPPActiveRowActions ==
  AtClick(Dialog("PPPDisconnect", InRow("pppActive"), "always", "await", "settled",
                 {"useDisconnectPPPActive"}))

(******************************* billing ***********************************)
PPPBillingScreen ==
  Opening(Screen("PPPBilling", {"usePPPDbProfiles"}, {"useSyncPPPDbProfiles"}),
          {"DbProfileMutateDrawer"})

PPPBillingColumns == {"status", "name"}

PPPBillingTable == Table("ppp-billing", "local", FALSE, "no", PPPBillingColumns)

PPPBillingRowActions ==
  Opening(Screen("PPPBillingRow", {}, {"useUpdatePPPDbProfile"}),
          {"DbProfileMutateDrawer", "DbProfileDeleteDialog"})

DbProfilesDialogStore == Store("pppBilling")

DbProfileDeleteDialog ==
  AtClick(Dialog("DbProfileDeleteDialog", DbProfilesDialogStore, "always", "await", "settled",
                 {"useRemovePPPDbProfile"}))

DbProfileMutateDrawer ==
  AddsOrEdits(Dialog("DbProfileMutateDrawer", DbProfilesDialogStore, "open", "callback", "success",
                     {"useCreatePPPDbProfile", "useUpdatePPPDbProfile"}))

PPPDbProfileDefaults ==
  [row |-> {"name", "rate_limit", "local_address", "remote_address", "session_timeout",
            "idle_timeout", "parent_queue", "description", "active", "is_public"},
   noZero |-> {"price_monthly"}]

PPPDbProfilePayload ==
  [fixed |-> {"name"}, number |-> {"price_monthly"},
   always |-> {"rate_limit", "local_address", "remote_address", "session_timeout",
               "idle_timeout", "parent_queue", "description", "active", "is_public"}]

PPPDbProfileInputs ==
  [locked |-> {"name"}, number |-> {"price_monthly"},
   free |-> {"rate_limit", "local_address", "remote_address", "session_timeout"}]

PPPDbProfileMoreInputs ==
  [free |-> {"idle_timeout", "parent_queue", "description"}, switch |-> {"active", "is_public"}]

PPPDbProfileForm ==
  WritesRow(Form("PPPDbProfileForm", PPPDbProfileDefaults, PPPDbProfilePayload,
                 Both(PPPDbProfileInputs, PPPDbProfileMoreInputs), "never"))

PPPDbProfileFormScreen == Screen("DbProfileForm", {"usePools"}, DbProfileMutateDrawer.sends)

PPPScreens ==
  {PPPSecretsScreen, PPPSecretsBulkActions, PPPSecretRowActions, PPPSecretFormScreen,
   PPPProfilesScreen, PPPProfileRowActions, PPPProfileFormScreen, PPPActiveScreen,
   PPPBillingScreen, PPPBillingRowActions, PPPDbProfileFormScreen}

PPPDialogs ==
  {SecretDeleteDialog, SecretMutateDrawer, PPPProfileDeleteDialog, PPPProfileMutateDrawer,
   PPPActiveRowActions, DbProfileDeleteDialog, DbProfileMutateDrawer}

PPPForms == {PPPSecretForm, PPPProfileForm, PPPDbProfileForm}

PPPTables == {PPPSecretsTable, PPPProfilesTable, PPPActiveTable, PPPBillingTable}
=============================================================================
