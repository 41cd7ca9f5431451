------------------------------ MODULE UiPortal ------------------------------
(* The customer portal and the public registration form.                    *)
EXTENDS Ui

PortalHome == Screen("PortalHome", {"usePortalMe", "usePortalSubscriptions", "usePortalInvoices"}, {})

PortalSubscriptions == Screen("PortalSubscriptions", {"usePortalSubscriptions"}, {})

InvoiceList == Screen("PortalInvoices", {"usePortalInvoices"}, {})

PaymentHistory == Screen("PortalPayments", {"usePortalPayments"}, {})

InvoiceDetail ==
  Screen("PortalInvoice", {"usePortalInvoice", "usePaymentGatewayStatus", "usePortalPayments"},
         {"useInitiateOnlinePayment", "useUploadProof", "useCreatePortalPayment"})

(* The upload and the payment are two requests: the second is sent by the   *)
(* callback of the first, and the keys are invalidated by the callback of   *)
(* the second, so both are lost when the page is left.                      *)
ProofPanel ==
  Dialog("ProofPanel", Local("portalInvoice"), "open", "callback", "never",
         {"useUploadProof", "useCreatePortalPayment"})

PortalProfile ==
  Opening(Screen("PortalProfile", {"usePortalMe"}, {"useChangePortalPassword"}), {"PasswordSheet"})

PasswordSheet ==
  Adds(Dialog("PasswordSheet", Local("portalProfile"), "always", "callback", "success",
              {"useChangePortalPassword"}))

RegisterForm == Screen("Register", {"usePublicPackages"}, {"useSubmitRegistration"})

PortalScreens ==
  {PortalHome, PortalSubscriptions, InvoiceList, PaymentHistory, InvoiceDetail, PortalProfile,
   RegisterForm}

PortalDialogs == {ProofPanel, PasswordSheet}
=============================================================================
