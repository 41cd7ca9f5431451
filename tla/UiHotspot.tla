----------------------------- MODULE UiHotspot ------------------------------
(* The hotspot pages of the web client: users, active sessions, hosts,      *)
(* profiles on the router and billing profiles in the database.             *)
EXTENDS Ui

(******************************** users ************************************)
HotspotUsersScreen ==
  Opening(Screen("HotspotUsers",
                 {"useHotspotUsers", "useHotspotProfiles", "useSystemSettings"}, {}),
          {"UserMutateDrawer", "UserDeleteDialog"})

HotspotUsersColumns == {"enabledStatus", "name", "profile", "server", "comment"}

HotspotUsersTable == Table("hotspot-users", "local", FALSE, "click", HotspotUsersColumns)

(* The row menu, absent for a viewer: toggle and reset counters at once.   *)
HotspotUserRowActions ==
  Opening(Screen("HotspotUserRow", {}, {"useUpdateHotspotUser", "useResetHotspotUserCounters"}),
          {"UserMutateDrawer", "UserDeleteDialog"})

UsersDialogStore == Store("hotspotUsers")

UserMutateDrawer ==
  AddsOrEdits(Dialog("UserMutateDrawer", UsersDialogStore, "open", "callback", "success",
                     {"useAddHotspotUser", "useUpdateHotspotUser"}))

UserDeleteDialog ==
  OneOrMany(AtClick(Dialog("UserDeleteDialog", UsersDialogStore, "always", "fanout", "settled",
                           {"useRemoveHotspotUser"})))

HotspotUserDefaults ==
  [row |-> {"name", "profile", "server", "comment"}, blank |-> {"password", "mac_address"},
   off |-> {"disabled"}]

HotspotUserPayload ==
  [always |-> {"name", "password", "profile", "server", "disabled"},
   filled |-> {"mac_address", "comment"}]

HotspotUserInputs ==
  [required |-> {"name"}, free |-> {"password", "mac_address", "comment"},
   choice |-> {"profile", "server"}, switch |-> {"disabled"}]

HotspotUserForm ==
  Unbound(Form("HotspotUserForm", HotspotUserDefaults, HotspotUserPayload, HotspotUserInputs,
               "never"))

HotspotUserFormScreen ==
  Screen("UserForm", {"useHotspotProfiles", "useHotspotServers"}, UserMutateDrawer.sends)

(******************************** active ***********************************)
HotspotActiveScreen ==
  Opening(Screen("HotspotActive", {"useHotspotActive"}, {}), {"DisconnectDialog"})

HotspotActiveColumns == {"server", "user", "loginBy"}

HotspotActiveTable == Table("hotspot-active", "local", FALSE, "click", HotspotActiveColumns)

HotspotActiveRowActions ==
  Opening(Screen("HotspotActiveRow", {}, {"useRemoveHotspotActive"}), {"DisconnectDialog"})

ActiveDialogStore == Store("hotspotActive")

(* One session, the ticked ones, or every session of the list.             *)
DisconnectDialog ==
  OneOrMany(AtClick(Dialog("DisconnectDialog", ActiveDialogStore, "always", "fanout", "settled",
                           {"useDisconnectHotspotUser"})))

(******************************** hosts ************************************)
HotspotHostsScreen ==
  Opening(Screen("HotspotHosts", {"useHotspotHosts"}, {}),
          {"MakeBindingDialog", "MakeBindingsDialog", "HostDeleteDialog"})

HotspotHostsColumns == {"authorized", "macAddress", "server"}

HotspotHostsTable == Table("hotspot-hosts", "local", FALSE, "click", HotspotHostsColumns)

(* The menu of a host: both entries hand the host to the store.            *)
HotspotHostRowActions ==
  Opening(Screen("HotspotHostRow", {}, {}), {"MakeBindingDialog", "HostDeleteDialog"})

HostsDialogStore == Store("hotspotHosts")

HostDeleteDialog ==
  OneOrMany(AtClick(Dialog("HostDeleteDialog", HostsDialogStore, "always", "fanout", "settled",
                           {"useRemoveHotspotHost"})))

MakeBindingDialog ==
  Dialog("MakeBindingDialog", HostsDialogStore, "open", "await", "success", {"useAddIPBinding"})

(* One request per ticked host; the dialog closes whatever they answer.    *)
MakeBindingsDialog ==
  ForTicked(Dialog("MakeBindingsDialog", HostsDialogStore, "open", "fanout", "settled", {"useAddIPBinding"}))

(******************************* profiles **********************************)
HotspotProfilesScreen ==
  Opening(Screen("HotspotProfiles", {"useHotspotProfiles"}, {"useSyncHotspotProfiles"}),
          {"ProfileMutateDrawer"})

HotspotProfilesColumns == {"name", "expMode", "hasExpiredMonitor"}

HotspotProfilesTable ==
  Table("hotspot-profiles", "local", FALSE, "click", HotspotProfilesColumns)

(* The entry for the expiry monitor only shows a note.                     *)
HotspotProfileRowActions ==
  Opening(Screen("HotspotProfileRow", {}, {}), {"ProfileMutateDrawer", "ProfileDeleteDialog"})

ProfilesDialogStore == Store("hotspotProfiles")

ProfileDeleteDialog ==
  OneOrMany(AtClick(Dialog("ProfileDeleteDialog", ProfilesDialogStore, "always", "fanout", "settled",
                           {"useRemoveHotspotProfile"})))

ProfileMutateDrawer ==
  AddsOrEdits(Dialog("ProfileMutateDrawer", ProfilesDialogStore, "open", "callback", "success",
                     {"useAddHotspotProfile", "useUpdateHotspotProfile"}))

HotspotProfileDefaults ==
  [row |-> {"name", "rate_limit", "shared_users", "parent_queue", "address_pool", "validity",
            "price", "selling_price"},
   orPreset |-> {"expire_mode"}, constant |-> {"role"}, off |-> {"lock_user", "lock_server"},
   copied |-> {"price_monthly"}]

HotspotProfilePayload ==
  [always |-> {"name", "role", "address_pool", "price_monthly"},
   filled |-> {"rate_limit", "shared_users", "parent_queue", "validity", "expire_mode",
               "lock_user"},
   number |-> {"price", "selling_price"}, fixed |-> {"lock_server"}]

HotspotProfileInputs ==
  [locked |-> {"name"}, choice |-> {"role", "shared_users"}, free |-> {"rate_limit", "validity"},
   number |-> {"price", "selling_price"}, derived |-> {"price_monthly"}]

HotspotProfileMoreInputs ==
  [choice |-> {"expire_mode", "parent_queue"}, switch |-> {"lock_user", "lock_server"},
   free |-> {"address_pool"}]

(* An edit does not change the role.                                       *)
HotspotProfileStores == [dropped |-> {"role"}]

HotspotProfileForm ==
  WritesRow(Stores(Form("HotspotProfileForm", HotspotProfileDefaults, HotspotProfilePayload,
                        Both(HotspotProfileInputs, HotspotProfileMoreInputs), "never"),
                   HotspotProfileStores))

HotspotProfileFormScreen == Screen("ProfileForm", {"usePools"}, ProfileMutateDrawer.sends)

(******************************* billing ***********************************)
HotspotBillingScreen ==
  Opening(Screen("HotspotBilling", {"useHotspotDbProfiles"}, {"useSyncHotspotDbProfiles"}),
          {"HotspotBillingMutateDrawer", "HotspotBillingDelete"})

HotspotBillingColumns == {"name", "role"}

HotspotBillingTable ==
  Table("hotspot-billing", "local", FALSE, "no", HotspotBillingColumns)

HotspotBillingDialogStore == Store("hotspotBilling")

HotspotBillingMutateDrawer ==
  AddsOrEdits(Dialog("HotspotBillingMutateDrawer", HotspotBillingDialogStore, "open", "callback", "success",
                     {"useCreateHotspotDbProfile", "useUpdateHotspotDbProfile"}))

HotspotBillingRowActions ==
  AtClick(Dialog("HotspotBillingDelete", InRow("hotspotBilling"), "always", "await", "settled",
                 {"useRemoveHotspotDbProfile"}))

HsDbProfileDefaults ==
  [row |-> {"name", "role", "rate_limit", "address_pool", "status_autorefresh", "parent_queue",
            "description", "active", "is_public", "validity", "lock_mac"},
   orPreset |-> {"shared_users", "expiry_mode"},
   noZero |-> {"price_monthly", "price", "sell_price"}]

HsDbProfilePayload ==
  [fixed |-> {"name", "role"}, preset |-> {"shared_users", "status_autorefresh"},
   always |-> {"rate_limit", "address_pool", "parent_queue", "description", "active",
               "is_public", "expiry_mode", "validity", "lock_mac"},
   number |-> {"price_monthly", "price", "sell_price"}]

HsDbProfileInputs ==
  [locked |-> {"name", "role"}, choice |-> {"expiry_mode"}, switch |-> {"is_public"},
   number |-> {"price_monthly"}, free |-> {"rate_limit", "validity"}]

HsDbProfileMoreInputs ==
  [switch |-> {"lock_mac", "active"}, number |-> {"price", "sell_price", "shared_users"},
   free |-> {"address_pool", "status_autorefresh", "parent_queue", "description"}]

(* A profile with an expiry mode needs a validity.                         *)
HsDbProfileStores == [refused |-> {"validity"}]

HsDbProfileForm ==
  WritesRow(Stores(Form("HsDbProfileForm", HsDbProfileDefaults, HsDbProfilePayload,
                        Both(HsDbProfileInputs, HsDbProfileMoreInputs), "never"),
                   HsDbProfileStores))

HsDbProfileFormScreen ==
  Screen("HsDbProfileForm", {"usePools"}, HotspotBillingMutateDrawer.sends)

(******************************* overview **********************************)
HotspotOverview ==
  Screen("HotspotOverview",
         {"useHotspotUsers", "useHotspotProfiles", "useHotspotActive", "useHotspotHosts"}, {})

HotspotScreens ==
  {HotspotUsersScreen, HotspotUserRowActions, HotspotUserFormScreen, HotspotActiveScreen,
   HotspotActiveRowActions, HotspotHostsScreen, HotspotHostRowActions, HotspotProfilesScreen,
   HotspotProfileRowActions, HotspotProfileFormScreen,
   HotspotBillingScreen, HsDbProfileFormScreen, HotspotOverview}

HotspotDialogs ==
  {UserMutateDrawer, UserDeleteDialog, DisconnectDialog, HostDeleteDialog, MakeBindingDialog,
   MakeBindingsDialog, ProfileDeleteDialog, ProfileMutateDrawer, HotspotBillingMutateDrawer,
   HotspotBillingRowActions}

HotspotForms == {HotspotUserForm, HotspotProfileForm, HsDbProfileForm}

HotspotTables ==
  {HotspotUsersTable, HotspotActiveTable, HotspotHostsTable, HotspotProfilesTable,
   HotspotBillingTable}
=============================================================================
