--------------------------- MODULE BillingProofs ---------------------------
(***************************************************************************)
(* Type correctness of the billing server; that no order, repetition or    *)
(* failure of its webhooks activates a tenant who never paid; and that the *)
(* flag is right as soon as the last PATCH was the newest event's.         *)
(***************************************************************************)
EXTENDS Billing, TLAPS

\* Only what Stripe reported is delivered.
ReportedInv == \A e \in Events : stage[e] # "none" => e[2] <= Len(log[e[1]])

IInv == TypeOK /\ ReportedInv /\ ActiveOnlyIfPaid

\* What the first n events of a log say: a payment, and no cancellation after it.
Subscribed(events, n) ==
  \E k \in 1..n : /\ events[k] = "checkout.session.completed"
                  /\ \A j \in (k+1)..n : events[j] # "customer.subscription.deleted"

\* Whatever Stripe reported is being delivered or was handled, and what was
\* handled and sends a PATCH is not newer than top.
HandledInv ==
  \A t \in Tenants : \A k \in 1..Len(log[t]) :
    /\ stage[<<t, k>>] # "none"
    /\ stage[<<t, k>>] \in {"answered", "done"} /\ Acts(<<t, k>>) => k <= top[t]

\* After the newest event's PATCH the flag is what the log says up to it.
FlagInv ==
  \A t \in Tenants \ Anonymous :
    upToDate[t] => (active[t] <=> Subscribed(log[t], top[t]))

\* What t pays for and what the log says of it.
LiveInv ==
  \A t \in Tenants :
    /\ Subscribed(log[t], Len(log[t])) => live[t] > 0
    /\ t \notin doubled => /\ live[t] <= 1
                           /\ live[t] > 0 => Subscribed(log[t], Len(log[t]))

OrderInv == HandledInv /\ FlagInv /\ LiveInv

LEMMA EventsAre ==
  \A e \in Events : /\ e[1] \in Tenants /\ e[2] \in Nat \ {0}
                    /\ e = <<e[1], e[2]>> /\ e[2] <= MaxEvents[e[1]]
<1>1. SUFFICES ASSUME NEW e \in Events
      PROVE /\ e[1] \in Tenants /\ e[2] \in Nat \ {0}
            /\ e = <<e[1], e[2]>> /\ e[2] <= MaxEvents[e[1]]
  OBVIOUS
<1>2. PICK t \in Tenants : e \in {t} \X (1..MaxEvents[t])
  BY DEF Events
<1>3. MaxEvents[t] \in Nat
  BY BoundsAssumption
<1> QED BY <1>2, <1>3

LEMMA InitIInv == Init => IInv
BY TenantsAssumption, BoundsAssumption DEF Init, IInv, TypeOK, ReportedInv, ActiveOnlyIfPaid, Kinds, Stages

\* A step of the server that moves event e keeps what is not about its tenant.
LEMMA CheckoutStep == ASSUME IInv, NEW t \in Tenants, Checkout(t) PROVE IInv'
BY DEF IInv, TypeOK, ReportedInv, ActiveOnlyIfPaid, Checkout, CreateCheckoutSession

LEMMA AcceptStep == ASSUME IInv, NEW e \in Events, Accept(e) PROVE IInv'
<1> USE DEF IInv
<1>1. TypeOK'
  BY DEF TypeOK, Accept, Stages, stripe
<1>2. ReportedInv'
  BY DEF TypeOK, ReportedInv, Accept, stripe
<1>3. ActiveOnlyIfPaid'
  BY DEF ActiveOnlyIfPaid, Accept, stripe
<1> QED BY <1>1, <1>2, <1>3

LEMMA AnsweredStep == ASSUME IInv, NEW e \in Events, Answered(e) PROVE IInv'
<1> USE DEF IInv
<1>1. TypeOK'
  BY DEF TypeOK, Answered, Stages, stripe
<1>2. ReportedInv'
  BY DEF TypeOK, ReportedInv, Answered, stripe
<1>3. ActiveOnlyIfPaid'
  BY DEF ActiveOnlyIfPaid, Answered, stripe
<1> QED BY <1>1, <1>2, <1>3

\* The handler: an event that activates its tenant is a payment, and is then
\* among those handled.
LEMMA HandleStep == ASSUME IInv, NEW e \in Events, Handle(e) PROVE IInv'
<1> DEFINE t == e[1]
<1>0. /\ t \in Tenants /\ e[2] \in Nat \ {0} /\ stage[e] = "accepted"
      /\ e[2] <= Len(log[t]) /\ log \in [Tenants -> Seq(Kinds)]
      /\ active \in [Tenants -> BOOLEAN] /\ top \in [Tenants -> Nat]
      /\ upToDate \in [Tenants -> BOOLEAN]
  BY EventsAre DEF IInv, TypeOK, ReportedInv, Handle
<1>1. /\ stage' = [stage EXCEPT ![e] = "answered"]
      /\ session' = session /\ live' = live /\ log' = log /\ doubled' = doubled
  BY DEF Handle, stripe
<1>2. /\ active[t] \in BOOLEAN /\ NewFlag(e) \in BOOLEAN
      /\ top[t] \in Nat /\ top[t] <= Len(log[t])
  BY <1>0 DEF IInv, TypeOK, NewFlag
<1>a. PICK a \in BOOLEAN : /\ active' = [active EXCEPT ![t] = a]
                           /\ a => active[t] \/ (NewFlag(e) /\ Acts(e))
  <2>1. CASE active' = active
    <3>1. active' = [active EXCEPT ![t] = active[t]]
      BY <2>1, <1>0
    <3> QED BY <3>1, <1>2
  <2>2. CASE Acts(e) /\ active' = [active EXCEPT ![t] = NewFlag(e)]
    BY <2>2, <1>2
  <2>3. active' = active \/ (Acts(e) /\ active' = [active EXCEPT ![t] = NewFlag(e)])
    <3>1. CASE ~Acts(e)
      BY <3>1 DEF Handle
    <3>2. CASE Acts(e)
      <4>1. \E failed \in BOOLEAN : SetActive(t, NewFlag(e), failed)
        BY <3>2 DEF Handle, Patch
      <4> QED BY <4>1, <3>2 DEF SetActive
    <3> QED BY <3>1, <3>2
  <2> QED BY <2>1, <2>2, <2>3
<1>n. PICK n \in Nat : /\ top' = [top EXCEPT ![t] = n]
                       /\ top[t] <= n /\ n <= Len(log[t])
                       /\ Acts(e) => e[2] <= n
  <2>1. CASE ~Acts(e)
    <3> DEFINE m == top[t]
    <3>1. top' = [top EXCEPT ![t] = m]
      BY <2>1, <1>0 DEF Handle
    <3>2. m \in Nat /\ top[t] <= m /\ m <= Len(log[t])
      BY <1>2
    <3> HIDE DEF m
    <3> QED BY <3>1, <3>2, <2>1
  <2>2. CASE Acts(e)
    <3> DEFINE m == IF top[t] < e[2] THEN e[2] ELSE top[t]
    <3>1. top' = [top EXCEPT ![t] = m]
      BY <2>2 DEF Handle, Patch
    <3>2. m \in Nat /\ e[2] <= m /\ top[t] <= m /\ m <= Len(log[t])
      BY <1>0, <1>2
    <3> HIDE DEF m
    <3> QED BY <3>1, <3>2
  <2> QED BY <2>1, <2>2
<1>u. PICK u \in BOOLEAN : upToDate' = [upToDate EXCEPT ![t] = u]
  <2>1. CASE ~Acts(e)
    <3>1. upToDate' = [upToDate EXCEPT ![t] = upToDate[t]] /\ upToDate[t] \in BOOLEAN
      BY <2>1, <1>0 DEF Handle
    <3> QED BY <3>1
  <2>2. CASE Acts(e)
    <3>1. PICK failed \in BOOLEAN :
            upToDate' = [upToDate EXCEPT ![t] = ~failed /\ top[t] <= e[2]]
      BY <2>2 DEF Handle, Patch
    <3>2. (~failed /\ top[t] <= e[2]) \in BOOLEAN
      OBVIOUS
    <3> QED BY <3>1, <3>2
  <2> QED BY <2>1, <2>2
<1>3. upToDate' \in [Tenants -> BOOLEAN]
  BY <1>0, <1>u
<1>4. active' \in [Tenants -> BOOLEAN] /\ \A v \in Anonymous : ~active'[v]
  <2>1. active' \in [Tenants -> BOOLEAN]
    BY <1>0, <1>a
  <2>2. \A v \in Anonymous : ~active'[v]
    BY <1>0, <1>a, TenantsAssumption DEF IInv, TypeOK, Acts
  <2> QED BY <2>1, <2>2
<1>5. top' \in [Tenants -> Nat] /\ \A v \in Tenants : top'[v] <= Len(log[v])
  BY <1>0, <1>n DEF IInv, TypeOK
<1>6. stage' \in [Events -> Stages]
  BY <1>1 DEF IInv, TypeOK, Stages
<1>7. TypeOK'
  BY <1>1, <1>3, <1>4, <1>5, <1>6 DEF IInv, TypeOK
<1>8. ReportedInv'
  BY <1>0, <1>1 DEF IInv, TypeOK, ReportedInv
<1>9. ActiveOnlyIfPaid'
  <2>1. SUFFICES ASSUME NEW v \in Tenants, active'[v]
        PROVE \E k \in 1..top'[v] : log[v][k] = "checkout.session.completed"
    BY <1>1 DEF ActiveOnlyIfPaid
  <2>2. top[v] \in Nat /\ top'[v] \in Nat /\ top[v] <= top'[v]
    BY <1>0, <1>n
  <2>3. CASE active[v]
    BY <2>2, <2>3 DEF IInv, ActiveOnlyIfPaid
  <2>4. CASE ~active[v]
    <3>1. v = t /\ NewFlag(e) /\ e[2] <= n
      BY <2>1, <2>4, <1>0, <1>a, <1>n
    <3>2. e[2] <= top'[v]
      BY <3>1, <1>0, <1>n
    <3> QED BY <3>1, <3>2, <2>2, <1>0 DEF NewFlag
  <2> QED BY <2>3, <2>4
<1> QED BY <1>7, <1>8, <1>9 DEF IInv

\* Stripe's report: what was in the log stays where it was.
LEMMA ReportStep ==
  ASSUME IInv, NEW t \in Tenants, NEW kind \in Kinds, Report(t, kind),
         session' \subseteq Tenants, live' \in [Tenants -> Nat],
         doubled' \subseteq Tenants
  PROVE IInv'
<1> DEFINE k == Len(log[t]) + 1
<1>0. /\ k \in Nat \ {0} /\ k <= MaxEvents[t] /\ log[t] \in Seq(Kinds)
      /\ MaxEvents[t] \in Nat
  <2>1. log[t] \in Seq(Kinds)
    BY DEF IInv, TypeOK
  <2>2. Len(log[t]) \in Nat
    BY <2>1
  <2>3. k <= MaxEvents[t]
    BY DEF Report
  <2> QED BY <2>1, <2>2, <2>3, BoundsAssumption
<1>1. <<t, k>> \in Events
  BY <1>0 DEF Events
<1>2. /\ log' = [log EXCEPT ![t] = Append(@, kind)]
      /\ stage' = [stage EXCEPT ![<<t, k>>] = "pending"]
      /\ active' = active /\ top' = top /\ upToDate' = upToDate
  BY DEF Report
<1>3. log' \in [Tenants -> Seq(Kinds)]
  BY <1>0, <1>2 DEF IInv, TypeOK
<1>4. \A u \in Tenants : /\ Len(log'[u]) = IF u = t THEN k ELSE Len(log[u])
                         /\ \A j \in 1..Len(log[u]) : log'[u][j] = log[u][j]
  BY <1>0, <1>2 DEF IInv, TypeOK
<1>5. TypeOK'
  <2>1. stage' \in [Events -> Stages]
    BY <1>1, <1>2 DEF IInv, TypeOK, Stages
  <2>2. \A u \in Tenants : Len(log'[u]) <= MaxEvents[u] /\ top[u] <= Len(log'[u])
    <3>1. TAKE u \in Tenants
    <3>2. /\ Len(log[u]) \in Nat /\ Len(log[u]) <= MaxEvents[u]
          /\ top[u] \in Nat /\ top[u] <= Len(log[u])
      BY DEF IInv, TypeOK
    <3> QED BY <3>2, <1>0, <1>4
  <2> QED BY <1>2, <1>3, <2>1, <2>2 DEF IInv, TypeOK
<1>6. ReportedInv'
  <2>1. SUFFICES ASSUME NEW e \in Events, stage'[e] # "none"
        PROVE e[2] <= Len(log'[e[1]])
    BY DEF ReportedInv
  <2>2. e[1] \in Tenants /\ e[2] \in Nat
    BY EventsAre
  <2>3. Len(log[e[1]]) \in Nat
    BY <2>2 DEF IInv, TypeOK
  <2>4. CASE e = <<t, k>>
    BY <2>4, <1>0, <1>4
  <2>5. CASE e # <<t, k>>
    <3>1. e[2] <= Len(log[e[1]])
      BY <2>1, <2>5, <1>1, <1>2 DEF IInv, TypeOK, ReportedInv
    <3> QED BY <3>1, <2>2, <2>3, <1>0, <1>4
  <2> QED BY <2>4, <2>5
<1>7. ActiveOnlyIfPaid'
  <2>1. SUFFICES ASSUME NEW u \in Tenants, active[u]
        PROVE \E j \in 1..top[u] : log'[u][j] = "checkout.session.completed"
    BY <1>2 DEF ActiveOnlyIfPaid
  <2>2. PICK j \in 1..top[u] : log[u][j] = "checkout.session.completed"
    BY <2>1 DEF IInv, ActiveOnlyIfPaid
  <2>3. j \in 1..Len(log[u])
    BY DEF IInv, TypeOK
  <2> QED BY <2>2, <2>3, <1>4
<1> QED BY <1>5, <1>6, <1>7 DEF IInv

LEMMA StripeStep == ASSUME IInv, NEW t \in Tenants, Stripe(t) PROVE IInv'
<1>0. session \subseteq Tenants /\ live \in [Tenants -> Nat] /\ doubled \subseteq Tenants
  BY DEF IInv, TypeOK
<1>1. CASE CustomerPays(t)
  <2>1. /\ Report(t, "checkout.session.completed")
        /\ session' \subseteq Tenants /\ live' \in [Tenants -> Nat]
        /\ doubled' \subseteq Tenants
    BY <1>0, <1>1 DEF CustomerPays
  <2> QED BY <2>1, ReportStep DEF Kinds
<1>2. CASE PaymentFails(t)
  <2>1. Report(t, "invoice.payment_failed") /\ UNCHANGED <<session, live, doubled>>
    BY <1>2 DEF PaymentFails
  <2> QED BY <2>1, <1>0, ReportStep DEF Kinds
<1>3. CASE Cancelled(t)
  <2>1. Report(t, "customer.subscription.deleted")
    BY <1>3 DEF Cancelled
  <2>2. live' \in [Tenants -> Nat] /\ UNCHANGED <<session, doubled>>
    BY <1>0, <1>3 DEF Cancelled
  <2> QED BY <2>1, <2>2, <1>0, ReportStep DEF Kinds
<1> QED BY <1>1, <1>2, <1>3 DEF Stripe

LEMMA StepIInv == IInv /\ [Next]_vars => IInv'
<1>1. SUFFICES ASSUME IInv, [Next]_vars PROVE IInv'
  OBVIOUS
<1>2. CASE UNCHANGED vars
  BY <1>1, <1>2 DEF IInv, TypeOK, ReportedInv, ActiveOnlyIfPaid, vars
<1>3. CASE \E t \in Tenants : Checkout(t) \/ Stripe(t)
  BY <1>1, <1>3, CheckoutStep, StripeStep
<1>4. CASE \E e \in Events : Accept(e) \/ Handle(e) \/ Answered(e)
  BY <1>1, <1>4, AcceptStep, HandleStep, AnsweredStep
<1> QED BY <1>1, <1>2, <1>3, <1>4 DEF Next

LEMMA SpecIInv == Spec => []IInv
BY InitIInv, StepIInv, PTL DEF Spec

\* Deliveries, events and flags stay well typed, for any number of tenants and
\* events.
THEOREM BillingTypeCorrect == Spec => []TypeOK
<1>1. IInv => TypeOK
  BY DEF IInv
<1> QED BY <1>1, SpecIInv, PTL

\* No repetition, reordering or failure of webhooks activates a tenant of whom
\* no payment was handled.
THEOREM NoFreeTenant == Spec => []ActiveOnlyIfPaid
<1>1. IInv => ActiveOnlyIfPaid
  BY DEF IInv
<1> QED BY <1>1, SpecIInv, PTL

-----------------------------------------------------------------------------
(* The newest event. *)

\* One more event: a payment subscribes, a cancellation ends it, a failed
\* payment changes nothing.
LEMMA SubscribedNext ==
  ASSUME NEW l, NEW n \in Nat
  PROVE Subscribed(l, n + 1) <=>
          \/ l[n + 1] = "checkout.session.completed"
          \/ Subscribed(l, n) /\ l[n + 1] # "customer.subscription.deleted"
<1>1. ASSUME Subscribed(l, n + 1), l[n + 1] # "checkout.session.completed"
      PROVE Subscribed(l, n) /\ l[n + 1] # "customer.subscription.deleted"
  <2>1. PICK k \in 1..(n + 1) :
          /\ l[k] = "checkout.session.completed"
          /\ \A j \in (k+1)..(n+1) : l[j] # "customer.subscription.deleted"
    BY <1>1 DEF Subscribed
  <2>2. k \in 1..n
    BY <1>1, <2>1
  <2> QED BY <2>1, <2>2 DEF Subscribed
<1>2. ASSUME l[n + 1] = "checkout.session.completed"
      PROVE Subscribed(l, n + 1)
  BY <1>2 DEF Subscribed
<1>3. ASSUME Subscribed(l, n), l[n + 1] # "customer.subscription.deleted"
      PROVE Subscribed(l, n + 1)
  <2>1. PICK k \in 1..n :
          /\ l[k] = "checkout.session.completed"
          /\ \A j \in (k+1)..n : l[j] # "customer.subscription.deleted"
    BY <1>3 DEF Subscribed
  <2>2. \A j \in (k+1)..(n+1) : j = n + 1 \/ j \in (k+1)..n
    OBVIOUS
  <2>3. k \in 1..(n + 1)
    OBVIOUS
  <2> QED BY <1>3, <2>1, <2>2, <2>3 DEF Subscribed
<1> QED BY <1>1, <1>2, <1>3

\* What the first n events say depends on them alone.
LEMMA SubscribedSame ==
  ASSUME NEW l, NEW m, NEW n \in Nat, \A j \in 1..n : l[j] = m[j]
  PROVE Subscribed(l, n) <=> Subscribed(m, n)
<1>1. \A k \in 1..n : \A j \in (k+1)..n : j \in 1..n
  OBVIOUS
<1> QED BY <1>1 DEF Subscribed

\* Failed payments say nothing.
LEMMA SubscribedSkip ==
  ASSUME NEW l, NEW m \in Nat, NEW n \in Nat, m <= n,
         \A j \in (m+1)..n : l[j] \notin {"checkout.session.completed",
                                         "customer.subscription.deleted"}
  PROVE Subscribed(l, m) <=> Subscribed(l, n)
<1>1. ASSUME Subscribed(l, m) PROVE Subscribed(l, n)
  <2>1. PICK k \in 1..m : /\ l[k] = "checkout.session.completed"
                          /\ \A j \in (k+1)..m : l[j] # "customer.subscription.deleted"
    BY <1>1 DEF Subscribed
  <2>2. \A j \in (k+1)..n : j \in (k+1)..m \/ j \in (m+1)..n
    OBVIOUS
  <2>3. k \in 1..n
    OBVIOUS
  <2> QED BY <2>1, <2>2, <2>3 DEF Subscribed
<1>2. ASSUME Subscribed(l, n) PROVE Subscribed(l, m)
  <2>1. PICK k \in 1..n : /\ l[k] = "checkout.session.completed"
                          /\ \A j \in (k+1)..n : l[j] # "customer.subscription.deleted"
    BY <1>2 DEF Subscribed
  <2>2. k \in 1..m
    <3>1. k \notin (m+1)..n
      BY <2>1
    <3> QED BY <3>1
  <2>3. \A j \in (k+1)..m : j \in (k+1)..n
    OBVIOUS
  <2> QED BY <2>1, <2>2, <2>3 DEF Subscribed
<1> QED BY <1>1, <1>2

\* Events of t, one by one.
LEMMA EventsOf ==
  ASSUME TypeOK, NEW t \in Tenants, NEW k \in 1..Len(log[t])
  PROVE <<t, k>> \in Events
<1>1. Len(log[t]) \in Nat /\ MaxEvents[t] \in Nat /\ Len(log[t]) <= MaxEvents[t]
  BY BoundsAssumption DEF TypeOK
<1>2. k \in 1..MaxEvents[t]
  BY <1>1
<1> QED BY <1>2 DEF Events

LEMMA InitOrderInv == Init => OrderInv
BY DEF Init, OrderInv, HandledInv, FlagInv, LiveInv, Subscribed

LEMMA CheckoutOrder ==
  ASSUME OrderInv, NEW t \in Tenants, Checkout(t) PROVE OrderInv'
<1>1. UNCHANGED <<live, log, stage, active, top, upToDate, doubled>>
  BY DEF Checkout
<1> QED BY <1>1 DEF OrderInv, HandledInv, FlagInv, LiveInv, Acts

\* A delivery begins or ends: the flag is left alone.
LEMMA DeliveryOrder ==
  ASSUME IInv, OrderInv, NEW e \in Events, Accept(e) \/ Answered(e) PROVE OrderInv'
<1>1. PICK s \in Stages \ {"none"} :
        /\ stage' = [stage EXCEPT ![e] = s]
        /\ s \in {"answered", "done"} => stage[e] \in {"answered", "done"}
        /\ UNCHANGED <<live, log, doubled, active, top, upToDate>>
  BY DEF Accept, Answered, Stages, stripe
<1>2. stage \in [Events -> Stages]
  BY DEF IInv, TypeOK
<1>3. \A t \in Tenants : \A k \in 1..Len(log[t]) : <<t, k>> \in Events
  BY EventsOf DEF IInv
<1>4. HandledInv'
  BY <1>1, <1>2, <1>3 DEF OrderInv, HandledInv, Acts
<1>5. FlagInv' /\ LiveInv'
  BY <1>1 DEF OrderInv, FlagInv, LiveInv
<1> QED BY <1>4, <1>5 DEF OrderInv

\* A handler whose PATCH is the newest and succeeds sets the flag as the log
\* says, whatever the flag was before.  Any other ends what is said of it.
LEMMA HandleOrder ==
  ASSUME IInv, OrderInv, NEW e \in Events, Handle(e) PROVE OrderInv'
<1> DEFINE t == e[1]
           n == e[2]
<1>0. /\ t \in Tenants /\ n \in 1..Len(log[t]) /\ n \in Nat /\ e = <<t, n>>
      /\ stage[e] = "accepted" /\ stage \in [Events -> Stages]
      /\ top \in [Tenants -> Nat] /\ active \in [Tenants -> BOOLEAN]
      /\ upToDate \in [Tenants -> BOOLEAN]
      /\ \A u \in Tenants : \A k \in 1..Len(log[u]) : <<u, k>> \in Events
  <2>1. t \in Tenants /\ n \in Nat \ {0} /\ e = <<t, n>>
    BY EventsAre
  <2>2. /\ stage[e] = "accepted" /\ stage \in [Events -> Stages]
        /\ log[t] \in Seq(Kinds) /\ top \in [Tenants -> Nat]
        /\ active \in [Tenants -> BOOLEAN] /\ upToDate \in [Tenants -> BOOLEAN]
    BY <2>1 DEF IInv, TypeOK, Handle
  <2>3. n \in 1..Len(log[t])
    <3>1. Len(log[t]) \in Nat
      BY <2>2
    <3>2. n <= Len(log[t])
      BY <2>2 DEF IInv, ReportedInv
    <3> QED BY <3>1, <3>2, <2>1
  <2> QED BY <2>1, <2>2, <2>3, EventsOf DEF IInv
<1>1. /\ stage' = [stage EXCEPT ![e] = "answered"]
      /\ live' = live /\ log' = log /\ doubled' = doubled
  BY DEF Handle, stripe
<1>2. CASE ~Acts(e)
  <2>1. UNCHANGED <<active, top, upToDate>>
    BY <1>2 DEF Handle
  <2>2. HandledInv'
    <3>1. SUFFICES ASSUME NEW u \in Tenants, NEW k \in 1..Len(log[u])
          PROVE /\ stage'[<<u, k>>] # "none"
                /\ stage'[<<u, k>>] \in {"answered", "done"} /\ Acts(<<u, k>>) => k <= top[u]
      BY <1>1, <2>1 DEF HandledInv, Acts
    <3>2. CASE <<u, k>> = e
      BY <3>2, <1>0, <1>1, <1>2
    <3>3. CASE <<u, k>> # e
      <4>1. stage'[<<u, k>>] = stage[<<u, k>>]
        BY <3>3, <1>0, <1>1
      <4> QED BY <4>1 DEF OrderInv, HandledInv
    <3> QED BY <3>2, <3>3
  <2> QED BY <2>1, <2>2, <1>1 DEF OrderInv, FlagInv, LiveInv
<1>3. CASE Acts(e)
  <2>1. PICK failed \in BOOLEAN :
          /\ SetActive(t, NewFlag(e), failed)
          /\ upToDate' = [upToDate EXCEPT ![t] = ~failed /\ top[t] <= n]
          /\ top' = [top EXCEPT ![t] = IF @ < n THEN n ELSE @]
    BY <1>3 DEF Handle, Patch
  <2>2. /\ top[t] \in Nat /\ n <= top'[t]
        /\ \A u \in Tenants : top[u] \in Nat /\ top'[u] \in Nat /\ top[u] <= top'[u]
    BY <1>0, <2>1
  <2>3. HandledInv'
    <3>1. SUFFICES ASSUME NEW u \in Tenants, NEW k \in 1..Len(log[u])
          PROVE /\ stage'[<<u, k>>] # "none"
                /\ stage'[<<u, k>>] \in {"answered", "done"} /\ Acts(<<u, k>>) => k <= top'[u]
      BY <1>1 DEF HandledInv, Acts
    <3>2. CASE <<u, k>> = e
      BY <3>2, <1>0, <1>1, <2>2
    <3>3. CASE <<u, k>> # e
      <4>1. stage'[<<u, k>>] = stage[<<u, k>>]
        BY <3>3, <1>0, <1>1
      <4>2. top[u] \in Nat /\ top'[u] \in Nat /\ top[u] <= top'[u]
        BY <2>2
      <4> QED BY <4>1, <4>2 DEF OrderInv, HandledInv
    <3> QED BY <3>2, <3>3
  <2>4. FlagInv'
    <3>1. SUFFICES ASSUME NEW u \in Tenants \ Anonymous, upToDate'[u]
          PROVE active'[u] <=> Subscribed(log[u], top'[u])
      BY <1>1 DEF FlagInv
    <3>2. CASE u # t
      <4>1. active'[u] = active[u] /\ upToDate'[u] = upToDate[u] /\ top'[u] = top[u]
        BY <3>2, <1>0, <2>1 DEF SetActive
      <4> QED BY <3>1, <4>1 DEF OrderInv, FlagInv
    <3>3. CASE u = t
      <4>1. ~failed /\ top[t] <= n
        BY <3>1, <3>3, <2>1, <1>0
      <4>2. top'[t] = n
        BY <4>1, <2>1, <2>2, <1>0
      <4>3. active'[t] = NewFlag(e)
        BY <4>1, <2>1, <1>0 DEF SetActive
      <4>4. /\ n - 1 \in Nat
            /\ Subscribed(log[t], n) <=>
                 \/ log[t][n] = "checkout.session.completed"
                 \/ Subscribed(log[t], n - 1) /\ log[t][n] # "customer.subscription.deleted"
        <5>1. n - 1 \in Nat /\ (n - 1) + 1 = n
          BY <1>0
        <5> QED BY <5>1, SubscribedNext
      <4>5. NewFlag(e) <=> Subscribed(log[t], n)
        BY <4>4, <1>3 DEF Acts, NewFlag
      <4> QED BY <4>2, <4>3, <4>5, <3>3
    <3> QED BY <3>2, <3>3
  <2> QED BY <2>3, <2>4, <1>1 DEF OrderInv, LiveInv
<1> QED BY <1>2, <1>3

\* A report says one thing more, and has to be delivered.
LEMMA ReportOrder ==
  ASSUME IInv, OrderInv, NEW t \in Tenants, NEW kind \in Kinds, Report(t, kind)
  PROVE /\ HandledInv' /\ FlagInv'
        /\ \A u \in Tenants \ {t} :
             Subscribed(log'[u], Len(log'[u])) <=> Subscribed(log[u], Len(log[u]))
        /\ Subscribed(log'[t], Len(log'[t])) <=>
             \/ kind = "checkout.session.completed"
             \/ Subscribed(log[t], Len(log[t])) /\ kind # "customer.subscription.deleted"
<1> DEFINE k == Len(log[t]) + 1
<1>0. /\ k \in Nat \ {0} /\ log[t] \in Seq(Kinds) /\ log \in [Tenants -> Seq(Kinds)]
      /\ stage \in [Events -> Stages]
      /\ \A u \in Tenants : /\ Len(log[u]) \in Nat /\ top[u] \in Nat
                            /\ top[u] <= Len(log[u])
  <2>1. log \in [Tenants -> Seq(Kinds)] /\ top \in [Tenants -> Nat]
    BY DEF IInv, TypeOK
  <2>2. \A u \in Tenants : Len(log[u]) \in Nat /\ top[u] \in Nat
    BY <2>1
  <2> QED BY <2>1, <2>2 DEF IInv, TypeOK
<1>1. /\ k <= MaxEvents[t]
      /\ log' = [log EXCEPT ![t] = Append(@, kind)]
      /\ stage' = [stage EXCEPT ![<<t, k>>] = "pending"]
      /\ active' = active /\ top' = top /\ upToDate' = upToDate
  BY DEF Report
<1>2. <<t, k>> \in Events
  BY <1>0, <1>1, BoundsAssumption DEF Events
<1>3. \A u \in Tenants : /\ Len(log'[u]) = IF u = t THEN k ELSE Len(log[u])
                         /\ \A j \in 1..Len(log[u]) : log'[u][j] = log[u][j]
  BY <1>0, <1>1
<1>4. log'[t][k] = kind
  BY <1>0, <1>1
<1>5. \A u \in Tenants : \A n \in 0..Len(log[u]) : Subscribed(log'[u], n) <=> Subscribed(log[u], n)
  <2>1. TAKE u \in Tenants
  <2>2. TAKE n \in 0..Len(log[u])
  <2>3. n \in Nat /\ \A j \in 1..n : log'[u][j] = log[u][j]
    BY <1>0, <1>3
  <2> QED BY <2>3, SubscribedSame
<1>6. \A u \in Tenants : \A j \in 1..Len(log[u]) :
        stage'[<<u, j>>] = stage[<<u, j>>] /\ j \in 1..Len(log'[u])
  <2>1. TAKE u \in Tenants
  <2>2. TAKE j \in 1..Len(log[u])
  <2>3. <<u, j>> \in Events /\ <<u, j>> # <<t, k>>
    BY <1>0, EventsOf DEF IInv
  <2> QED BY <2>3, <1>0, <1>1, <1>3
<1>7. HandledInv'
  <2>1. SUFFICES ASSUME NEW u \in Tenants, NEW j \in 1..Len(log'[u])
        PROVE /\ stage'[<<u, j>>] # "none"
              /\ stage'[<<u, j>>] \in {"answered", "done"} /\ Acts(<<u, j>>)' => j <= top[u]
    BY <1>1 DEF HandledInv
  <2>2. CASE j \in 1..Len(log[u])
    <3>1. Acts(<<u, j>>)' <=> Acts(<<u, j>>)
      BY <2>2, <1>3 DEF Acts
    <3> QED BY <3>1, <2>2, <1>6 DEF OrderInv, HandledInv
  <2>3. CASE j \notin 1..Len(log[u])
    <3>1. u = t /\ j = k
      BY <2>3, <1>0, <1>3
    <3>2. stage'[<<t, k>>] = "pending"
      BY <1>0, <1>1, <1>2
    <3> QED BY <3>1, <3>2
  <2> QED BY <2>2, <2>3
<1>8. FlagInv'
  <2>1. SUFFICES ASSUME NEW u \in Tenants \ Anonymous, upToDate[u]
        PROVE active[u] <=> Subscribed(log'[u], top[u])
    BY <1>1 DEF FlagInv
  <2>2. Subscribed(log'[u], top[u]) <=> Subscribed(log[u], top[u])
    BY <1>0, <1>5
  <2> QED BY <2>1, <2>2 DEF OrderInv, FlagInv
<1>9. \A u \in Tenants \ {t} :
        Subscribed(log'[u], Len(log'[u])) <=> Subscribed(log[u], Len(log[u]))
  BY <1>0, <1>3, <1>5
<1>10. Subscribed(log'[t], Len(log'[t])) <=>
         \/ kind = "checkout.session.completed"
         \/ Subscribed(log[t], Len(log[t])) /\ kind # "customer.subscription.deleted"
  <2>1. Len(log[t]) \in Nat /\ Len(log'[t]) = Len(log[t]) + 1
    BY <1>0, <1>3
  <2>2. Subscribed(log'[t], Len(log[t])) <=> Subscribed(log[t], Len(log[t]))
    BY <1>0, <1>5
  <2> QED BY <2>1, <2>2, <1>4, SubscribedNext
<1> QED BY <1>7, <1>8, <1>9, <1>10

\* A payment, a failed one and a cancellation: what t pays for stays what the
\* log says, unless a second subscription began before the first one ended.
LEMMA StripeOrder ==
  ASSUME IInv, OrderInv, NEW t \in Tenants, Stripe(t) PROVE OrderInv'
<1>0. live \in [Tenants -> Nat]
  BY DEF IInv, TypeOK
<1>1. PICK kind \in Kinds : Report(t, kind) /\ \/ kind = "checkout.session.completed" /\ CustomerPays(t)
                                               \/ kind = "invoice.payment_failed" /\ PaymentFails(t)
                                               \/ kind = "customer.subscription.deleted" /\ Cancelled(t)
  BY DEF Stripe, CustomerPays, PaymentFails, Cancelled, Kinds
<1>2. /\ HandledInv' /\ FlagInv'
      /\ \A u \in Tenants \ {t} :
           Subscribed(log'[u], Len(log'[u])) <=> Subscribed(log[u], Len(log[u]))
      /\ Subscribed(log'[t], Len(log'[t])) <=>
           \/ kind = "checkout.session.completed"
           \/ Subscribed(log[t], Len(log[t])) /\ kind # "customer.subscription.deleted"
  BY <1>1, ReportOrder
<1>3. /\ \A u \in Tenants \ {t} : live'[u] = live[u] /\ (u \in doubled' <=> u \in doubled)
      /\ doubled \subseteq doubled'
  BY <1>0, <1>1 DEF CustomerPays, PaymentFails, Cancelled
<1>4. SUFFICES ASSUME NEW u \in Tenants
      PROVE /\ Subscribed(log'[u], Len(log'[u])) => live'[u] > 0
            /\ u \notin doubled' => /\ live'[u] <= 1
                                    /\ live'[u] > 0 => Subscribed(log'[u], Len(log'[u]))
  BY <1>2 DEF OrderInv, LiveInv
<1>5. /\ live[u] \in Nat
      /\ Subscribed(log[u], Len(log[u])) => live[u] > 0
      /\ u \notin doubled => /\ live[u] <= 1
                             /\ live[u] > 0 => Subscribed(log[u], Len(log[u]))
  BY <1>0 DEF OrderInv, LiveInv
<1>6. CASE u # t
  BY <1>2, <1>3, <1>5, <1>6
<1>7. CASE u = t /\ kind = "checkout.session.completed"
  <2>1. live'[t] = live[t] + 1 /\ (t \notin doubled' => live[t] = 0)
    BY <1>0, <1>1, <1>5, <1>7 DEF CustomerPays
  <2> QED BY <2>1, <1>2, <1>5, <1>7
<1>8. CASE u = t /\ kind = "invoice.payment_failed"
  <2>1. live'[t] = live[t] /\ doubled' = doubled
    BY <1>1, <1>8 DEF PaymentFails
  <2> QED BY <2>1, <1>2, <1>5, <1>8
<1>9. CASE u = t /\ kind = "customer.subscription.deleted"
  <2>1. live[t] > 0 /\ live'[t] = live[t] - 1 /\ doubled' = doubled
    BY <1>0, <1>1, <1>9 DEF Cancelled
  <2> QED BY <2>1, <1>2, <1>5, <1>9
<1> QED BY <1>1, <1>6, <1>7, <1>8, <1>9

LEMMA StepOrderInv == IInv /\ OrderInv /\ [Next]_vars => OrderInv'
<1>1. SUFFICES ASSUME IInv, OrderInv, [Next]_vars PROVE OrderInv'
  OBVIOUS
<1>2. CASE UNCHANGED vars
  BY <1>1, <1>2 DEF OrderInv, HandledInv, FlagInv, LiveInv, Acts, vars
<1>3. CASE \E t \in Tenants : Checkout(t) \/ Stripe(t)
  BY <1>1, <1>3, CheckoutOrder, StripeOrder
<1>4. CASE \E e \in Events : Accept(e) \/ Handle(e) \/ Answered(e)
  BY <1>1, <1>4, DeliveryOrder, HandleOrder
<1> QED BY <1>1, <1>2, <1>3, <1>4 DEF Next

LEMMA SpecOrderInv == Spec => []OrderInv
BY SpecIInv, InitOrderInv, StepOrderInv, PTL DEF Spec

\* Where Stripe has nothing left to deliver, every event of t was handled:
\* those newer than top are failed payments.
LEMMA SettledIsHandled ==
  ASSUME IInv, OrderInv, NEW t \in Tenants \ Anonymous, Settled(t)
  PROVE Subscribed(log[t], top[t]) <=> Subscribed(log[t], Len(log[t]))
<1>1. /\ top[t] \in Nat /\ Len(log[t]) \in Nat /\ top[t] <= Len(log[t])
  <2>1. log[t] \in Seq(Kinds) /\ top[t] \in Nat
    BY DEF IInv, TypeOK
  <2> QED BY <2>1 DEF IInv, TypeOK
<1>2. ASSUME NEW j \in (top[t]+1)..Len(log[t])
      PROVE log[t][j] \notin {"checkout.session.completed", "customer.subscription.deleted"}
  <2>1. j \in 1..Len(log[t]) /\ ~(j <= top[t])
    BY <1>1, <1>2
  <2>2. stage[<<t, j>>] = "done"
    BY <2>1 DEF Settled
  <2>3. ~Acts(<<t, j>>)
    BY <2>1, <2>2 DEF OrderInv, HandledInv
  <2> QED BY <2>3 DEF Acts
<1> QED BY <1>1, <1>2, SubscribedSkip

\* A tenant whose last PATCH succeeded and was that of his newest event, with
\* nothing left to deliver, is active exactly when Stripe reported a payment
\* and no cancellation since.
FlagFollowsLog ==
  \A t \in Tenants \ Anonymous : upToDate[t] /\ Settled(t) =>
    (active[t] <=> Subscribed(log[t], Len(log[t])))

\* For any number of tenants and events, whatever was repeated, late or failed
\* before the newest event's PATCH (SetActive): that PATCH makes the flag what
\* the whole log says.  The failed payments in the log do not matter.
THEOREM NewestFlagFollowsLog == Spec => []FlagFollowsLog
<1>1. ASSUME IInv, OrderInv PROVE FlagFollowsLog
  <2>1. SUFFICES ASSUME NEW t \in Tenants \ Anonymous, upToDate[t], Settled(t)
        PROVE active[t] <=> Subscribed(log[t], Len(log[t]))
    BY DEF FlagFollowsLog
  <2>2. Subscribed(log[t], top[t]) <=> Subscribed(log[t], Len(log[t]))
    BY <1>1, <2>1, SettledIsHandled
  <2> QED BY <1>1, <2>1, <2>2 DEF OrderInv, FlagInv
<1> QED BY <1>1, SpecIInv, SpecOrderInv, PTL

\* In the same cases an active tenant pays for a subscription, and a tenant who
\* pays for one is active unless two were paid at once before or one of his
\* payments failed.
THEOREM NewestEventDecides == Spec => []NewestDecides
<1>1. ASSUME OrderInv, FlagFollowsLog PROVE NewestDecides
  BY <1>1 DEF OrderInv, LiveInv, FlagFollowsLog, NewestDecides
<1> QED BY <1>1, SpecOrderInv, NewestFlagFollowsLog, PTL
=============================================================================
