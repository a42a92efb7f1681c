----------------------------- MODULE MCBilling -----------------------------
(***************************************************************************)
(* Billing on small instances.  BillingEvents.cfg: three events of a       *)
(* tenant, enough to subscribe twice and cancel once, and one event        *)
(* without a location_id.  BillingPaymentFailed.cfg: one tenant.           *)
(***************************************************************************)
EXTENDS Billing

MCMaxEvents == [t \in Tenants |-> IF t \in Anonymous THEN 1 ELSE 3]
=============================================================================
