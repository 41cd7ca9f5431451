----------------------------- MODULE UiVoucher ------------------------------
(* The voucher and report pages of the web client: generation, quick-print  *)
(* presets, print preview, the sales ledger and the sales reports.          *)
EXTENDS Ui

(******************************* generate **********************************)
VoucherGenerateScreen ==
  Screen("VoucherGenerate",
         {"useHotspotDbProfiles", "useHotspotServers", "useHotspotProfiles", "useSystemSettings"},
         {"useGenerateVoucher"})

(* The vouchers come back once, in the answer: a user who has left the page *)
(* by then does not see them.                                               *)
VoucherGenerateFormPanel ==
  Adds(Dialog("VoucherGenerateForm", Local("voucherGenerate"), "open", "callback", "never",
              {"useGenerateVoucher"}))

(* The result keeps the profile and server it was generated for.            *)
VoucherResultTable == Screen("VoucherResult", {"useHotspotProfiles", "useSystemSettings"}, {})

(**************************** quick print **********************************)
VoucherPrintScreen ==
  Opening(Screen("VoucherPrint", {"useQuickPrintPackages"}, {}), {"PresetMutateDrawer"})

(* A card generates at once and opens the preview with the answer.          *)
QuickPrintCard ==
  Opening(Screen("QuickPrintCard", {"useSystemSettings"}, {"useGenerateVoucher"}),
          {"PresetMutateDrawer", "PresetDeleteDialog"})

PresetsDialogStore == Store("presets")

PresetDeleteDialog ==
  AtClick(Dialog("PresetDeleteDialog", PresetsDialogStore, "always", "callback", "success",
                 {"useRemoveQuickPrintPackage"}))

PresetMutateDrawer ==
  AddsOrEdits(Dialog("PresetMutateDrawer", PresetsDialogStore, "open", "callback", "success",
                     {"useCreateQuickPrintPackage", "useUpdateQuickPrintPackage"}))

(* Shown as '0' or another preset where the package has none; a data limit  *)
(* that is no whole number of MB is shown rounded, and counts as none here. *)
PresetDefaults ==
  [row |-> {"name", "profile", "prefix", "validity"}, blank |-> {"comment"},
   orPreset |-> {"server", "userMode", "userLength", "charSet", "timeLimit", "dataLimit"},
   orZero |-> {"lockUser", "price", "sellingPrice"}]

(* presetToApi sends an empty comment whatever the package has.  Colour and *)
(* label stay in the browser (useQuickPrintPresetsMetaStore).               *)
PresetPayload ==
  [always |-> {"name", "server", "profile", "userMode", "userLength", "charSet", "prefix",
               "timeLimit", "dataLimit", "validity", "price", "sellingPrice", "lockUser"},
   wiped |-> {"comment"}]

PresetInputs ==
  [required |-> {"name"}, choice |-> {"server", "profile", "userMode", "userLength"},
   derived |-> {"validity", "price", "sellingPrice"}]

PresetMoreInputs ==
  [choice |-> {"charSet", "dataLimit"}, switch |-> {"lockUser"},
   free |-> {"prefix", "timeLimit"}, hidden |-> {"comment"}]

PresetForm ==
  Form("PresetForm", PresetDefaults, PresetPayload, Both(PresetInputs, PresetMoreInputs), "never")

PresetFormScreen ==
  Screen("PresetForm", {"useHotspotProfiles", "useHotspotServers"}, PresetMutateDrawer.sends)

(******************************** sales ************************************)
VoucherSalesScreen ==
  Opening(Screen("VoucherSales", {"useSalesList"}, {}), {"RecordSaleDialog", "ImportSalesDialog"})

(* The rows, the pages and the filters are the server's.                    *)
SalesTable == Table("sales", "server", FALSE, "no", {"search", "profile", "server"})

SalesExportMenu == Screen("SalesExportMenu", {"useRouters"}, {})

SalesDialogStore == Store("sales")

RecordSaleDialog ==
  Adds(Held(Dialog("RecordSaleDialog", SalesDialogStore, "always", "callback", "success",
                   {"useRecordSale"})))

ImportSalesDialog ==
  Adds(Held(Dialog("ImportSalesDialog", SalesDialogStore, "always", "callback", "never",
                   {"useImportSales"})))

(******************************* reports ***********************************)
DailyReport == Screen("DailyReport", {"useDailyReport", "useRouters"}, {})

DailySalesTable == Table("daily-sales", "one", FALSE, "no", {"search", "profile", "server"})

MonthlyReport == Screen("MonthlyReport", {"useMonthlyReport", "useResumeReport", "useRouters"}, {})

SellingReport == Screen("SellingReport", {"useSellingSummary", "useSellingToday"}, {})

VoucherOverview ==
  Screen("VoucherOverview", {"useDashboardSummary", "useDailyReport", "useQuickPrintPackages"}, {})

VoucherScreens ==
  {VoucherGenerateScreen, VoucherResultTable, VoucherPrintScreen, QuickPrintCard, PresetFormScreen,
   VoucherSalesScreen, SalesExportMenu, DailyReport, MonthlyReport, SellingReport, VoucherOverview}

VoucherDialogs ==
  {VoucherGenerateFormPanel, PresetDeleteDialog, PresetMutateDrawer, RecordSaleDialog,
   ImportSalesDialog}

VoucherForms == {PresetForm}

VoucherTables == {SalesTable, DailySalesTable}
=============================================================================
