------------------------------ MODULE Accounts ------------------------------
(***************************************************************************)
(* Accounts and billing of the API: registration (api/handler/auth.go),    *)
(* the plan's limits on hosts and regions (api/handler/host.go,            *)
(* billing.go), and Stripe's webhook events (billing.go), over the tables  *)
(* of MariaDB (api/storage).  No handler uses a transaction, so requests   *)
(* interleave at every statement, and every statement may fail.            *)
(*                                                                         *)
(* Every org has the free plan: no handler changes subscriptions.plan_id.  *)
(* Ids of orgs are UUIDs, numbered in the order they are made in.          *)
(***************************************************************************)
EXTENDS Integers, FiniteSets

CONSTANTS
    MaxOrgs,       \* bound of the model: organisations ever created
    Emails,
    Requests,      \* requests in flight at the same time
    StripeSubs,    \* ids of Stripe subscriptions
    Regions, DefaultRegion,
    HostLimit,     \* plans.host_limit (1 in the free plan)
    Included,      \* plans.regions_included (1 in the free plan)
    Extra,         \* region add-ons allowed beyond them (10)
    None,
    MaxRequests,   \* bound of the model: requests ever made
    MaxFaults      \* bound of the model: statements that fail

Orgs == 1..MaxOrgs

ASSUME AccountsAssumption ==
    /\ {MaxOrgs, Extra, MaxRequests, MaxFaults} \subseteq Nat
    /\ {HostLimit, Included} \subseteq Nat \ {0}
    /\ DefaultRegion \in Regions
    /\ None \notin Orgs \cup StripeSubs \cup Emails \cup [org : Orgs, customer : Orgs]
    /\ IsFiniteSet(Requests) /\ IsFiniteSet(Regions)

VARIABLES
    made,        \* orgs 1..made exist
    userOf,      \* users: the org of the user with an email
    sub,         \* subscriptions: [customer, stripe, status], or None
    hosts,       \* number of hosts of an org
    regions,     \* org_regions
    invoices,    \* number of invoices of an org (None: a row that names no org)
    sold,        \* Stripe: [org, customer] that bought a subscription
    req,         \* where each request is, and its locals
    started,     \* requests made so far
    faults,
    unchecked,   \* history: host creations let through without a limit
    paid,        \* history: invoice.paid events that found a row of an org
    latest       \* history: the status Stripe last told of a subscription, as
                 \* far as the events were handled one by one

tables == <<made, userOf, sub, hosts, regions, invoices>>
bounds == <<started, faults>>
told   == <<paid, latest>>
vars   == <<tables, sold, req, bounds, unchecked, told>>

Idle == [pc |-> "idle", email |-> None, org |-> None, region |-> None, stripe |-> None]

Row(customer, stripe, status) ==
    [customer |-> customer, stripe |-> stripe, status |-> status]

Init ==
    /\ made = 0
    /\ userOf = [e \in Emails |-> None]
    /\ sub = [o \in Orgs |-> None]
    /\ hosts = [o \in Orgs |-> 0]
    /\ regions = [o \in Orgs |-> {}]
    /\ invoices = [o \in Orgs \cup {None} |-> 0]
    /\ sold = [s \in StripeSubs |-> None]
    /\ req = [r \in Requests |-> Idle]
    /\ started = 0 /\ faults = 0
    /\ unchecked = [o \in Orgs |-> 0]
    /\ paid = [o \in Orgs \cup {None} |-> 0]
    /\ latest = [s \in StripeSubs |-> None]

----------------------------------------------------------------------------
(* Steps of a request. *)

Arrives(r) == req[r] = Idle /\ started < MaxRequests /\ started' = started + 1
At(r, pc)  == req[r].pc = pc /\ UNCHANGED started
Goes(r, pc) == req' = [req EXCEPT ![r].pc = pc]
Answers(r) == req' = [req EXCEPT ![r] = Idle]

Fault    == faults < MaxFaults /\ faults' = faults + 1
NoFault  == UNCHANGED faults

\* A statement that changes one table, or fails without a change.  One that is
\* done and whose answer is lost is a step of the first kind: the handlers that
\* use Does go on alike with an error and without.
Does(change, unchanged) == (change /\ NoFault) \/ (unchanged /\ Fault)

GetUserByEmail(e) == userOf[e]

Login(e, o) == GetUserByEmail(e) = o

\* The token of a request names an organisation someone has logged in to.
HasUser(o) == o # None /\ \E e \in Emails : Login(e, o)

----------------------------------------------------------------------------
(* Register *)

RegisterLookup(r, e) ==
    /\ Arrives(r)
    /\ GetUserByEmail(e) = None
    /\ req' = [req EXCEPT ![r] = [Idle EXCEPT !.pc = "org", !.email = e]]
    /\ NoFault
    /\ UNCHANGED <<tables, sold, unchecked, told>>

InsertOrg == made < MaxOrgs /\ made' = made + 1

\* An INSERT that fails is done all the same when only its answer is lost: the
\* registration ends there, and leaves what it made.
CreateOrg(r) ==
    /\ At(r, "org")
    /\ \/ /\ InsertOrg
          /\ req' = [req EXCEPT ![r] = [@ EXCEPT !.pc = "user", !.org = made + 1]]
          /\ NoFault
       \/ (InsertOrg \/ UNCHANGED made) /\ Fault /\ Answers(r)
    /\ UNCHANGED <<userOf, sub, hosts, regions, invoices, sold, unchecked, told>>

\* Mutant: the error of CreateUser is dropped like the ones after it.
CreateUserIgnored(r) ==
    /\ At(r, "user")
    /\ userOf' = IF userOf[req[r].email] = None
                 THEN [userOf EXCEPT ![req[r].email] = req[r].org] ELSE userOf
    /\ Goes(r, "subscription")
    /\ NoFault
    /\ UNCHANGED <<made, sub, hosts, regions, invoices, sold, unchecked, told>>

\* uniq_email lets one of two registrations of an address through.
InsertUser(q) ==
    userOf[q.email] = None /\ userOf' = [userOf EXCEPT ![q.email] = q.org]

CreateUser(r) ==
    /\ At(r, "user")
    /\ \/ InsertUser(req[r]) /\ NoFault /\ Goes(r, "subscription")
       \/ userOf[req[r].email] # None /\ UNCHANGED userOf /\ NoFault /\ Answers(r)
       \/ (InsertUser(req[r]) \/ UNCHANGED userOf) /\ Fault /\ Answers(r)
    /\ UNCHANGED <<made, sub, hosts, regions, invoices, sold, unchecked, told>>

\* Mutant: a status the rest of the code does not know.
CreateFreeSubscription(r) ==
    /\ At(r, "subscription")
    /\ Does(sub' = [sub EXCEPT ![req[r].org] = Row(None, None, "free")], UNCHANGED sub)
    /\ Goes(r, "region")
    /\ UNCHANGED <<made, userOf, hosts, regions, invoices, sold, unchecked, told>>

\* The errors from here on are dropped.
CreateSubscription(r) ==
    /\ At(r, "subscription")
    /\ Does(sub' = [sub EXCEPT ![req[r].org] = Row(None, None, "active")], UNCHANGED sub)
    /\ Goes(r, "region")
    /\ UNCHANGED <<made, userOf, hosts, regions, invoices, sold, unchecked, told>>

DefaultOrgRegion(r) ==
    /\ At(r, "region")
    /\ Does(regions' = [regions EXCEPT ![req[r].org] = @ \cup {DefaultRegion}],
            UNCHANGED regions)
    /\ Goes(r, "customer")
    /\ UNCHANGED <<made, userOf, sub, hosts, invoices, sold, unchecked, told>>

\* UPDATE subscriptions ... WHERE org_id = ?: no row, no change.
UpdateStripe(o, row) ==
    sub' = IF o \in Orgs /\ sub[o] # None THEN [sub EXCEPT ![o] = row] ELSE sub

\* Mutant: the customer is written without resetting the rest of the row.
LinkCustomerOnly(r) ==
    /\ At(r, "customer")
    /\ sub' = IF sub[req[r].org] # None
              THEN [sub EXCEPT ![req[r].org].customer = req[r].org] ELSE sub
    /\ NoFault
    /\ Answers(r)
    /\ UNCHANGED <<made, userOf, hosts, regions, invoices, sold, unchecked, told>>

\* Stripe makes a new customer; when it is not configured or refuses, or the
\* UPDATE fails, the row has none.
CreateCustomer(o) == {o, None}

LinkCustomer(r) ==
    /\ At(r, "customer")
    /\ \/ \E customer \in CreateCustomer(req[r].org) \ {None} :
             UpdateStripe(req[r].org, Row(customer, None, "active"))
       \/ UNCHANGED sub
    /\ NoFault
    /\ Answers(r)
    /\ UNCHANGED <<made, userOf, hosts, regions, invoices, sold, unchecked, told>>

----------------------------------------------------------------------------
(* HostHandler.Create and Delete *)

\* What the handlers make of a SELECT, whose error they drop.
GetSubscription(o, ok)   == IF ok THEN sub[o] ELSE None
GetPlan(ok)              == IF ok THEN [hosts |-> HostLimit, regions |-> Included]
                                  ELSE [hosts |-> 0, regions |-> 0]
CountActiveHosts(o, ok)  == IF ok THEN hosts[o] ELSE 0
CountOrgRegions(o, ok)   == IF ok THEN Cardinality(regions[o]) ELSE 0

Reads(ok) == IF ok THEN NoFault ELSE Fault

\* Without a row, or with an error, no limit applies.
HostSubscription(r, o) ==
    /\ Arrives(r)
    /\ HasUser(o)
    /\ \E ok \in BOOLEAN :
        /\ Reads(ok)
        /\ IF GetSubscription(o, ok) # None
           THEN /\ req' = [req EXCEPT ![r] = [Idle EXCEPT !.pc = "hosts", !.org = o]]
                /\ UNCHANGED unchecked
           ELSE /\ req' = [req EXCEPT ![r] = [Idle EXCEPT !.pc = "host", !.org = o]]
                /\ unchecked' = [unchecked EXCEPT ![o] = @ + 1]
    /\ UNCHANGED <<tables, sold, told>>

\* Mutant: one host too many.
LimitReachedTooLate(count, plan) == count > plan.hosts

LimitReached(count, plan) == count >= plan.hosts

HostCount(r) ==
    /\ At(r, "hosts")
    /\ \E plan, count \in BOOLEAN :
        /\ Reads(plan /\ count)
        /\ IF LimitReached(CountActiveHosts(req[r].org, count), GetPlan(plan))
           THEN Answers(r) /\ UNCHANGED unchecked
           ELSE /\ Goes(r, "host")
                /\ unchecked' = [unchecked EXCEPT ![req[r].org] = @ + IF count THEN 0 ELSE 1]
    /\ UNCHANGED <<tables, sold, told>>

InsertHost(o) == hosts' = [hosts EXCEPT ![o] = @ + 1]

CreateHost(r) ==
    /\ At(r, "host")
    /\ Does(InsertHost(req[r].org), UNCHANGED hosts)
    /\ Answers(r)
    /\ UNCHANGED <<made, userOf, sub, regions, invoices, sold, unchecked, told>>

DeleteHost(o) ==
    /\ HasUser(o) /\ hosts[o] > 0
    /\ hosts' = [hosts EXCEPT ![o] = @ - 1]
    /\ UNCHANGED <<made, userOf, sub, regions, invoices, sold, req, bounds, unchecked, told>>

----------------------------------------------------------------------------
(* BillingHandler.AddRegion and RemoveRegion *)

\* Only the organisation's own and active subscription will do.
RegionSubscription(r, o, g) ==
    /\ Arrives(r)
    /\ HasUser(o) /\ g \in Regions
    /\ GetSubscription(o, TRUE) # None /\ sub[o].status = "active"
    /\ req' = [req EXCEPT ![r] = [Idle EXCEPT !.pc = "regions", !.org = o, !.region = g]]
    /\ NoFault
    /\ UNCHANGED <<tables, sold, unchecked, told>>

\* Mutant: one region too many.
RegionsFullTooLate(count, plan) == count > plan.regions + Extra

RegionsFull(count, plan) == count >= plan.regions + Extra

RegionCount(r) ==
    /\ At(r, "regions")
    /\ \E plan, count \in BOOLEAN :
        /\ Reads(plan /\ count)
        /\ IF RegionsFull(CountOrgRegions(req[r].org, count), GetPlan(plan))
           THEN Answers(r) ELSE Goes(r, "addRegion")
    /\ UNCHANGED <<tables, sold, unchecked, told>>

\* INSERT IGNORE: uniq_org_region.
InsertRegion(o, g) == regions' = [regions EXCEPT ![o] = @ \cup {g}]
DeleteRegion(o, g) == regions' = [regions EXCEPT ![o] = @ \ {g}]

AddOrgRegion(r) ==
    /\ At(r, "addRegion")
    /\ Does(InsertRegion(req[r].org, req[r].region), UNCHANGED regions)
    /\ Answers(r)
    /\ UNCHANGED <<made, userOf, sub, hosts, invoices, sold, unchecked, told>>

RemoveRegion(o, g) ==
    /\ HasUser(o) /\ g \in regions[o]
    /\ DeleteRegion(o, g)
    /\ UNCHANGED <<made, userOf, sub, hosts, invoices, sold, req, bounds, unchecked, told>>

----------------------------------------------------------------------------
(* Checkout and Webhook.  Stripe delivers every event of a subscription at *)
(* least once, late, and in any order.                                     *)

\* Checkout: the session is the customer's in the org's row.
CreateCheckoutSession(o, customer) == [org |-> o, customer |-> customer]

\* A user follows the checkout link and pays.
Buy(o, s) ==
    /\ HasUser(o)
    /\ GetSubscription(o, TRUE) # None /\ sub[o].customer # None
    /\ sold[s] = None
    /\ sold' = [sold EXCEPT ![s] = CreateCheckoutSession(o, sub[o].customer)]
    /\ UNCHANGED <<tables, req, bounds, unchecked, told>>

Event(r, s) == Arrives(r) /\ sold[s] # None

\* History: an event that is still being handled when another of its
\* subscription arrives, or that a statement failed for, leaves unclear what
\* the row has to show; so does one that cannot reach every row.
InFlight(s) == \E r \in Requests : req[r].pc \in {"bind", "renew"} /\ req[r].stripe = s
Told(s, status) == latest' = [latest EXCEPT ![s] = IF InFlight(s) THEN "unclear" ELSE status]
Bound(s) == {o \in Orgs : sub[o] # None /\ sub[o].stripe = s}
Handled(s, o, status) ==
    latest' = [latest EXCEPT ![s] = IF @ = "pending" /\ Bound(s) \subseteq {o}
                                    THEN status ELSE "unclear"]

\* GetSubscriptionByStripeID; a failed query yields a row that names no org.
Finds(stripe, o) ==
    IF o = None THEN Fault ELSE sub[o] # None /\ sub[o].stripe = stripe /\ NoFault

\* checkout.session.completed looks for a row with an empty Stripe id.
CheckoutCompleted(r, s) ==
    /\ Event(r, s)
    /\ \E o \in Orgs \cup {None} :
        /\ Finds(None, o)
        /\ req' = [req EXCEPT ![r] = [Idle EXCEPT !.pc = "bind", !.org = o, !.stripe = s]]
    /\ Told(s, "pending")
    /\ UNCHANGED <<tables, sold, unchecked, paid>>

\* An UPDATE of the row of an org, or one that fails.
Updates(r, status) ==
    LET o == req[r].org
        s == req[r].stripe
    IN \/ /\ UpdateStripe(o, Row(sold[s].customer, s, status)) /\ NoFault
          /\ Handled(s, o, IF o = None THEN "unclear" ELSE status)
       \/ /\ UNCHANGED sub /\ Fault
          /\ Handled(s, o, "unclear")

\* The session's subscription may be an id only: its status is then empty,
\* and the end of its period 0, which a TIMESTAMP may refuse.
Bind(r) ==
    /\ At(r, "bind")
    /\ \/ \E status \in {"active", "trialing", ""} : Updates(r, status)
       \/ UNCHANGED sub /\ NoFault /\ Handled(req[r].stripe, req[r].org, "unclear")
    /\ Answers(r)
    /\ UNCHANGED <<made, userOf, hosts, regions, invoices, sold, unchecked, paid>>

InvoicePaid(r, s) ==
    /\ Event(r, s)
    /\ \E o \in Orgs \cup {None} :
        /\ Finds(s, o)
        /\ req' = [req EXCEPT ![r] = [Idle EXCEPT !.pc = "renew", !.org = o, !.stripe = s]]
        /\ paid' = [paid EXCEPT ![o] = @ + 1]
    /\ Told(s, "pending")
    /\ UNCHANGED <<tables, sold, unchecked>>

\* Mutant: a payment leaves the status to other events.
RenewKeepsStatus(r) ==
    /\ At(r, "renew")
    /\ UNCHANGED sub /\ NoFault
    /\ Handled(req[r].stripe, req[r].org, IF req[r].org = None THEN "unclear" ELSE "active")
    /\ Goes(r, "invoice")
    /\ UNCHANGED <<made, userOf, hosts, regions, invoices, sold, unchecked, paid>>

\* Mutant: the rest of the event is skipped when the UPDATE changes nothing.
RenewOrSkip(r) ==
    /\ At(r, "renew")
    /\ Updates(r, "active")
    /\ IF sub' = sub THEN Answers(r) ELSE Goes(r, "invoice")
    /\ UNCHANGED <<made, userOf, hosts, regions, invoices, sold, unchecked, paid>>

\* The error is dropped, and the invoice stored all the same.
Renew(r) ==
    /\ At(r, "renew")
    /\ Updates(r, "active")
    /\ Goes(r, "invoice")
    /\ UNCHANGED <<made, userOf, hosts, regions, invoices, sold, unchecked, paid>>

\* ON DUPLICATE KEY never applies: the only key is a UUID made for the row.
InsertInvoice(o) == invoices' = [invoices EXCEPT ![o] = @ + 1]

UpsertInvoice(r) ==
    /\ At(r, "invoice")
    /\ Does(InsertInvoice(req[r].org), UNCHANGED invoices)
    /\ Answers(r)
    /\ UNCHANGED <<made, userOf, sub, hosts, regions, sold, unchecked, told>>

SetStatus(s, status) ==
    sub' = [o \in Orgs |-> IF o \in Bound(s) THEN [sub[o] EXCEPT !.status = status] ELSE sub[o]]

\* invoice.payment_failed and customer.subscription.deleted
StatusEvent(r, s) ==
    /\ Event(r, s)
    /\ \E status \in {"past_due", "canceled"} : SetStatus(s, status) /\ Told(s, status)
    /\ NoFault
    /\ UNCHANGED <<made, userOf, hosts, regions, invoices, sold, req, unchecked, paid>>

----------------------------------------------------------------------------
Register(r) ==
    \/ \E e \in Emails : RegisterLookup(r, e)
    \/ CreateOrg(r) \/ CreateUser(r) \/ CreateSubscription(r)
    \/ DefaultOrgRegion(r) \/ LinkCustomer(r)

Limits(r) ==
    \/ \E o \in Orgs : HostSubscription(r, o)
    \/ \E o \in Orgs, g \in Regions : RegionSubscription(r, o, g)
    \/ HostCount(r) \/ CreateHost(r) \/ RegionCount(r) \/ AddOrgRegion(r)

Webhook(r) ==
    \/ \E s \in StripeSubs : CheckoutCompleted(r, s) \/ InvoicePaid(r, s) \/ StatusEvent(r, s)
    \/ Bind(r) \/ Renew(r) \/ UpsertInvoice(r)

Next ==
    \/ \E r \in Requests : Register(r) \/ Limits(r) \/ Webhook(r)
    \/ \E o \in Orgs : DeleteHost(o)
    \/ \E o \in Orgs, g \in Regions : RemoveRegion(o, g)
    \/ \E o \in Orgs, s \in StripeSubs : Buy(o, s)

Spec == Init /\ [][Next]_vars

----------------------------------------------------------------------------
(* Properties *)

Rows == [customer : Orgs \cup {None}, stripe : StripeSubs \cup {None},
         status : {"active", "trialing", "past_due", "canceled", ""}]

\* Type invariant.
TypeOK ==
    /\ made \in 0..MaxOrgs
    /\ userOf \in [Emails -> (1..made) \cup {None}]
    /\ sub \in [Orgs -> Rows \cup {None}]
    /\ hosts \in [Orgs -> Nat]
    /\ regions \in [Orgs -> SUBSET Regions]
    /\ invoices \in [Orgs \cup {None} -> Nat]
    /\ sold \in [StripeSubs -> [org : Orgs, customer : Orgs] \cup {None}]
    /\ \A r \in Requests :
        /\ req[r].pc \in {"idle", "org", "user", "subscription", "region", "customer",
                          "hosts", "host", "regions", "addRegion", "bind", "renew", "invoice"}
        /\ req[r].email \in Emails \cup {None} /\ req[r].org \in (1..made) \cup {None}
        /\ req[r].region \in Regions \cup {None}
        /\ req[r].stripe \in StripeSubs \cup {None}
    /\ started \in 0..MaxRequests /\ faults \in 0..MaxFaults
    /\ unchecked \in [Orgs -> Nat]
    /\ paid \in [Orgs \cup {None} -> Nat]
    /\ latest \in [StripeSubs ->
           {None, "pending", "unclear", "active", "trialing", "past_due", "canceled", ""}]

\* The host limit is checked before the insert and not with it: requests in
\* flight together may all pass.  But that, and creations which found no
\* limit to check, is all an org can have beyond its plan.
HostsBounded ==
    \A o \in Orgs : hosts[o] <= HostLimit - 1 + Cardinality(Requests) + unchecked[o]

\* The same for regions; a count that fails lets one more through.
RegionsBounded ==
    \A o \in Orgs :
        Cardinality(regions[o]) <= Included + Extra - 1 + Cardinality(Requests) + faults

\* A subscription row is consistent at any time: without a Stripe
\* subscription the org is active (it is never shut out by events of others),
\* and with one the row's customer is the one who bought it.
RowConsistent ==
    \A o \in Orgs : sub[o] # None =>
        IF sub[o].stripe = None
        THEN sub[o].status = "active" /\ sub[o].customer \in {o, None}
        ELSE sub[o].customer = sold[sub[o].stripe].customer

\* A registration that lost a race or failed half way leaves an empty org at
\* the most: whatever hangs on an org can be reached by its user.
NoOrphanData ==
    \A o \in Orgs : sub[o] # None \/ hosts[o] > 0 \/ regions[o] # {} => HasUser(o)

\* The invoices of an org are those of the payments that were told while its
\* row was bound to the subscription, one for each time they were told: none
\* gets lost but by a failure, and none is written to another org.  (A payment
\* told twice is two invoices, and counts twice in GetRevenueStats.)
Invoicing(o) == Cardinality({r \in Requests : req[r].pc \in {"renew", "invoice"} /\ req[r].org = o})
InvoicesExact ==
    \A o \in Orgs \cup {None} :
        /\ invoices[o] + Invoicing(o) <= paid[o]
        /\ paid[o] <= invoices[o] + Invoicing(o) + faults

\* A row shows the status of the event of its subscription that was handled
\* last: the order of arrival decides and not Stripe's, so a payment that is
\* told late makes a cancelled subscription active.  It holds where the
\* events of a subscription do not overlap and none of its updates failed.
LatestShows ==
    \A s \in StripeSubs : latest[s] \notin {None, "pending", "unclear"} =>
        \A o \in Bound(s) : sub[o].status = latest[s]

\* billing.go:37, "Overview returns the org's current subscription": the
\* subscription in an org's row was bought by that org.
SubscriptionIsOwn ==
    \A o \in Orgs : sub[o] # None /\ sub[o].stripe # None => sold[sub[o].stripe].org = o

============================================================================
