------------------------- MODULE MCQuotaRefreshLease -------------------------
(* Two collectors that race for the lease and recover each other's fences. *)
EXTENDS QuotaRefreshLease
==============================================================================
