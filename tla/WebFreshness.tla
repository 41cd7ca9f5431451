---------------------------- MODULE WebFreshness ----------------------------
(* How fresh the data on a screen is: the properties of QueryCache. *)
EXTENDS QueryCache

Gap(mutations, queries) == mutations \X queries

(* Pairs of hooks of the office pages where the mutation changes what the    *)
(* query shows and does not invalidate its key: the page of the query keeps  *)
(* the old data until its staleTime has passed and it is mounted or focused  *)
(* again, or until its next poll.                                            *)
KnownGaps ==
  \* profiles/ and billing/ keep the same rows under two keys
  Gap({"useAddHotspotProfile", "useUpdateHotspotProfile", "useRemoveHotspotProfile",
       "useSyncHotspotProfiles"}, {"useHotspotDbProfiles"})
  \cup
  Gap({"useCreateHotspotDbProfile", "useUpdateHotspotDbProfile", "useRemoveHotspotDbProfile",
       "useSyncHotspotDbProfiles"}, {"useHotspotProfiles"})
  \cup
  \* a billing profile is pushed to the router
  Gap({"useCreatePPPDbProfile", "useUpdatePPPDbProfile", "useRemovePPPDbProfile"},
      {"usePPPProfiles"})
  \cup
  \* so is a subscription, and a voucher is a hotspot user
  Gap({"useCreateSubscription", "useUpdateSubscription", "usePatchSubscriptionStatus",
       "useReconcileSubscription", "useRemoveSubscription"},
      {"usePPPSecrets", "useHotspotUsers"})
  \cup Gap({"useGenerateVoucher"}, {"useHotspotUsers"})
  \cup Gap({"useRemoveHotspotUser"}, {"useScripts", "useSchedulers"})
  \cup
  \* sessions, and the router's own state
  Gap({"useRemoveHotspotActive", "useDisconnectPPPActive"}, {"useSubscriptionsByDevice"})
  \cup Gap({"useReboot", "useShutdown"}, {"useSystemResource"})
  \cup
  \* money: a cash payment restores the subscription, an install bills the first month
  Gap({"useCreatePayment"}, {"useSubscriptions", "useSubscriptionsByDevice"})
  \cup Gap({"useCompleteInstall"}, {"useInvoices", "useInvoice"})
  \cup
  \* the signed-in account under three keys
  Gap({"useUpdateAdminUser"}, {"useCurrentUser", "useMe"})
  \cup Gap({"useUpdateMe"}, {"useAdminUsers", "useCurrentUser"})
  \cup
  \* the portal
  Gap({"useInitiateOnlinePayment"}, {"usePortalPayments"})

(* Every other pair of hooks that meet on a site is covered. *)
GapsAreListed ==
  \A m \in Mutations, q \in Queries :
    Overlap(m, q) => Invalidates(m, q) \/ <<m.name, q.name>> \in KnownGaps

(* The query is on display and nothing is under way that would change it. *)
Settled == mounted /\ entry.has /\ fetch.at = "none"

(* A query whose key the mutation invalidates shows the user's own write     *)
(* once the screen has come to rest, unless its request failed, or an answer *)
(* that was read before the write came after it (useMutation's onSuccess in  *)
(* every api/queries.ts, with Query.fetch's join and cancel).                *)
OwnWritesShown ==
  Settled /\ Invalidates(mutation, query) /\ entry.why = "none" => entry.ver >= acked

(* The only screens that come to rest on data older than a write their user  *)
(* was told of are the ones of KnownGaps: every other mutation hook          *)
(* invalidates every query it changes (lib/api/query-keys.ts).               *)
StaleOnlyInGaps ==
  Settled /\ entry.why = "none" /\ entry.ver < acked
    => <<mutation.name, query.name>> \in KnownGaps

(* A polled query that stays on display catches up with the server, whoever  *)
(* wrote and whatever failed (refetchInterval).                              *)
PolledCatchesUp ==
  query.poll /\ <>[]mounted => <>[](entry.has /\ entry.ver = db)
=============================================================================
