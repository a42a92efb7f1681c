------------------------------ MODULE Billing ------------------------------
(***************************************************************************)
(* The Stripe billing server: POST /checkout opens a Checkout Session,     *)
(* POST /webhook turns Stripe's events into PATCHes of the tenant's active *)
(* flag on the cloud server.  Every webhook is handled by a goroutine of   *)
(* its own.  Stripe delivers an event until it gets a 2xx answer, so an    *)
(* event may be delivered again, and events of one tenant may be delivered *)
(* in any order and handled at the same time.                              *)
(*                                                                         *)
(* The k-th thing Stripe reports about tenant t is the event <<t, k>>; its *)
(* kind is log[t][k].                                                      *)
(***************************************************************************)
EXTENDS Naturals, Sequences

CONSTANTS
  Tenants,     \* location ids
  Anonymous,   \* "tenants" of Stripe objects that carry no location_id
  MaxEvents    \* bound: how many events of each tenant are explored

ASSUME TenantsAssumption == Anonymous \subseteq Tenants
ASSUME BoundsAssumption == MaxEvents \in [Tenants -> Nat]

Kinds == {"checkout.session.completed", "customer.subscription.deleted",
          "invoice.payment_failed"}
Events == UNION {{t} \X (1..MaxEvents[t]) : t \in Tenants}
Stages == {"none", "pending", "accepted", "answered", "done"}

VARIABLES
  session,   \* tenants with an open Checkout Session
  live,      \* live[t]: how many subscriptions t pays for
  log,       \* log[t]: what Stripe reported about t so far
  stage,     \* stage[e]: delivery of event e
  active,    \* active[t]: the flag on the cloud server
  top,       \* history: top[t] is the newest event of t that sent a PATCH
  upToDate,  \* history: t's last PATCH succeeded, and was that of top[t]
  doubled    \* history: tenants who ever had two subscriptions at once

vars == <<session, live, log, stage, active, top, upToDate, doubled>>
stripe == <<session, live, log, doubled>>

TypeOK ==
  /\ session \subseteq Tenants
  /\ live \in [Tenants -> Nat]
  /\ log \in [Tenants -> Seq(Kinds)]
  /\ \A t \in Tenants : Len(log[t]) <= MaxEvents[t]
  /\ stage \in [Events -> Stages]
  /\ active \in [Tenants -> BOOLEAN]
  /\ \A t \in Anonymous : ~active[t]  \* there is no such tenant to activate
  /\ top \in [Tenants -> Nat]
  /\ \A t \in Tenants : top[t] <= Len(log[t])
  /\ upToDate \in [Tenants -> BOOLEAN]
  /\ doubled \subseteq Tenants

Init ==
  /\ session = {}
  /\ live = [t \in Tenants |-> 0]
  /\ log = [t \in Tenants |-> << >>]
  /\ stage = [e \in Events |-> "none"]
  /\ active = [t \in Tenants |-> FALSE]
  /\ top = [t \in Tenants |-> 0]
  /\ upToDate = [t \in Tenants |-> TRUE]
  /\ doubled = {}

-----------------------------------------------------------------------------
(* The server. *)

\* Mutant: the tenant is activated when the session is created.
CheckoutActivates(t) ==
  /\ t \notin Anonymous
  /\ session' = session \cup {t}
  /\ active' = [active EXCEPT ![t] = TRUE]
  /\ UNCHANGED <<live, log, stage, top, upToDate, doubled>>

\* The request to Stripe for a session with t in its own and its subscription's
\* metadata; it may fail.
CreateCheckoutSession(t) == session' \in {session, session \cup {t}}

\* POST /checkout, whatever subscription t has already; a request without
\* location_id is refused.  Nothing is recorded anywhere but at Stripe.
Checkout(t) ==
  /\ t \notin Anonymous
  /\ CreateCheckoutSession(t)
  /\ UNCHANGED <<live, log, stage, active, top, upToDate, doubled>>

\* A delivery that can be read and has a right and recent signature.  Any other
\* is refused, which changes nothing: Stripe delivers again.
Accept(e) ==
  /\ stage[e] = "pending"
  /\ stage' = [stage EXCEPT ![e] = "accepted"]
  /\ UNCHANGED <<stripe, active, top, upToDate>>

\* Mutant: the end of a subscription is not handled.
CompletedOnly(e) ==
  e[1] \notin Anonymous /\ log[e[1]][e[2]] = "checkout.session.completed"

\* Mutant: the handler forgets to ask whether there is a location_id.
ActsAnonymously(e) ==
  log[e[1]][e[2]] \in {"checkout.session.completed", "customer.subscription.deleted"}

\* The events that make the server send a PATCH.
Acts(e) ==
  /\ e[1] \notin Anonymous
  /\ log[e[1]][e[2]] \in {"checkout.session.completed", "customer.subscription.deleted"}

NewFlag(e) == log[e[1]][e[2]] = "checkout.session.completed"

\* The PATCH of t's flag.  It may fail before or after the cloud server did it.
SetActive(t, flag, failed) ==
  active' \in {[active EXCEPT ![t] = flag]} \cup (IF failed THEN {active} ELSE {})

\* What an event that acts does: one PATCH.  Whether a newer event's PATCH was
\* sent before is not asked.
Patch(e) ==
  LET t == e[1]
  IN  \E failed \in BOOLEAN :
        /\ SetActive(t, NewFlag(e), failed)
        /\ upToDate' = [upToDate EXCEPT ![t] = ~failed /\ top[t] <= e[2]]
        /\ top' = [top EXCEPT ![t] = IF @ < e[2] THEN e[2] ELSE @]

\* Mutant: only an event that was acted upon is answered.
HandleActing(e) ==
  /\ stage[e] = "accepted" /\ Acts(e) /\ Patch(e)
  /\ stage' = [stage EXCEPT ![e] = "answered"]
  /\ UNCHANGED stripe

\* The event's PATCH, if it has one, and the answer, which is 200 in every
\* case: a PATCH that fails is only logged.
Handle(e) ==
  /\ stage[e] = "accepted"
  /\ \/ Acts(e) /\ Patch(e)
     \/ ~Acts(e) /\ UNCHANGED <<active, top, upToDate>>
  /\ stage' = [stage EXCEPT ![e] = "answered"]
  /\ UNCHANGED stripe

-----------------------------------------------------------------------------
(* Stripe. *)

\* Stripe sees the 200, or loses it and delivers the event again.
Answered(e) ==
  /\ stage[e] = "answered"
  /\ \E s \in {"done", "pending"} : stage' = [stage EXCEPT ![e] = s]
  /\ UNCHANGED <<stripe, active, top, upToDate>>

\* Something happens to a subscription of t: Stripe begins to deliver an event.
Report(t, kind) ==
  LET k == Len(log[t]) + 1
  IN  /\ k <= MaxEvents[t]
      /\ log' = [log EXCEPT ![t] = Append(@, kind)]
      /\ stage' = [stage EXCEPT ![<<t, k>>] = "pending"]
      /\ UNCHANGED <<active, top, upToDate>>

\* A session is paid, which starts a subscription, the first or one more.  The
\* anonymous ones were not opened by this server.
CustomerPays(t) ==
  /\ t \in session \cup Anonymous
  /\ session' = session \ {t}
  /\ live' = [live EXCEPT ![t] = @ + 1]
  /\ doubled' = IF live[t] > 0 THEN doubled \cup {t} ELSE doubled
  /\ Report(t, "checkout.session.completed")

PaymentFails(t) ==
  /\ live[t] > 0
  /\ Report(t, "invoice.payment_failed")
  /\ UNCHANGED <<session, live, doubled>>

Cancelled(t) ==
  /\ live[t] > 0
  /\ live' = [live EXCEPT ![t] = @ - 1]
  /\ Report(t, "customer.subscription.deleted")
  /\ UNCHANGED <<session, doubled>>

Stripe(t) == CustomerPays(t) \/ PaymentFails(t) \/ Cancelled(t)

Next ==
  \/ \E t \in Tenants : Checkout(t) \/ Stripe(t)
  \/ \E e \in Events : Accept(e) \/ Handle(e) \/ Answered(e)

Spec == Init /\ [][Next]_vars

\* Stripe delivers an event until a delivery is accepted (the refused ones are
\* stuttering steps), handlers end (their HTTP client has a timeout), and of
\* repeated answers one arrives at last.
Fairness ==
  \A e \in Events :
    /\ WF_vars(Accept(e))
    /\ WF_vars(Handle(e))
    /\ SF_vars(Answered(e) /\ stage'[e] = "done")

FairSpec == Spec /\ Fairness

-----------------------------------------------------------------------------
(* Properties. *)

Settled(t) == \A k \in 1..Len(log[t]) : stage[<<t, k>>] = "done"

\* "Tenants are inactive by default and only become active after a successful
\* Stripe payment" (README): however deliveries are repeated or reordered.
ActiveOnlyIfPaid ==
  \A t \in Tenants : active[t] =>
    \E k \in 1..top[t] : log[t][k] = "checkout.session.completed"

NoPaymentFailed(t) ==
  \A k \in 1..Len(log[t]) : log[t][k] # "invoice.payment_failed"

\* The newest word counts, whatever went wrong before it: when Stripe has
\* nothing left to deliver, and the last PATCH for a tenant succeeded and was
\* that of the newest of his events that send one (handleWebhook), then if he is
\* active he pays for a subscription, and if he pays for one he is active.
\* PATCHes that failed, old events handled again and events handled out of
\* order before that last PATCH do no harm.  The second half is said of tenants
\* who never had two subscriptions at once and none of whose payments failed
\* (those are to be deactivated, see FailedPaymentDeactivates).
NewestDecides ==
  \A t \in Tenants \ Anonymous : upToDate[t] /\ Settled(t) =>
    /\ active[t] => live[t] > 0
    /\ live[t] > 0 /\ t \notin doubled /\ NoPaymentFailed(t) => active[t]

\* "invoice.payment_failed: Deactivate tenant (set active=false)" (README): a
\* tenant whose last event is a failed payment ends up inactive, when no PATCH
\* failed and no event was handled late.
FailedPaymentDeactivates ==
  \A t \in Tenants \ Anonymous :
    /\ upToDate[t] /\ Settled(t)
    /\ Len(log[t]) > 0 /\ log[t][Len(log[t])] = "invoice.payment_failed"
    => ~active[t]

\* Every event is acknowledged in the end, those the server has no use for and
\* those without a location_id too: Stripe would disable an endpoint that
\* keeps failing.
EveryEventIsAcknowledged ==
  \A e \in Events : stage[e] # "none" ~> stage[e] = "done"
=============================================================================
