--------------------------- MODULE AccountsProofs ---------------------------
(***************************************************************************)
(* Proofs about accounts and billing, for every number of organisations,   *)
(* requests in flight and failures, and every plan.  Reached is inductive  *)
(* together with TypeOK: it says what a request has established when it is *)
(* at a statement.  The bounds and the consistency of the rows follow, each*)
(* from an invariant of its own that is inductive relative to these two.   *)
(***************************************************************************)
EXTENDS Accounts, FiniteSetTheorems, TLAPS

PCs == {"idle", "org", "user", "subscription", "region", "customer",
        "hosts", "host", "regions", "addRegion", "bind", "renew", "invoice"}

ReqRecords ==
    [pc : PCs, email : Emails \cup {None}, org : Orgs \cup {None},
     region : Regions \cup {None}, stripe : StripeSubs \cup {None}]

\* What request q has established on the way to its statement.
Established(q) ==
    /\ q.org \in (1..made) \cup {None}
    /\ q.pc \in {"org", "user"} => q.email \in Emails
    /\ q.pc = "user" => q.org \in 1..made
    /\ q.pc \in {"subscription", "region", "customer", "hosts", "host", "regions", "addRegion"} =>
           HasUser(q.org)
    /\ q.pc \in {"regions", "addRegion"} => q.region \in Regions
    /\ q.pc \in {"bind", "renew"} => q.stripe \in StripeSubs /\ sold[q.stripe] # None

\* TypeOK without the requests.
TypedTables ==
    /\ made \in 0..MaxOrgs
    /\ userOf \in [Emails -> (1..made) \cup {None}]
    /\ sub \in [Orgs -> Rows \cup {None}]
    /\ hosts \in [Orgs -> Nat]
    /\ regions \in [Orgs -> SUBSET Regions]
    /\ invoices \in [Orgs \cup {None} -> Nat]
    /\ sold \in [StripeSubs -> [org : Orgs, customer : Orgs] \cup {None}]
    /\ unchecked \in [Orgs -> Nat]
    /\ paid \in [Orgs \cup {None} -> Nat]
    /\ latest \in [StripeSubs ->
           {None, "pending", "unclear", "active", "trialing", "past_due", "canceled", ""}]

Reached ==
    /\ req \in [Requests -> ReqRecords]
    /\ \A r \in Requests : Established(req[r])
    /\ NoOrphanData

----------------------------------------------------------------------------
(* Constants, requests and tables. *)

LEMMA Constants ==
    /\ MaxOrgs \in Nat /\ Extra \in Nat /\ MaxRequests \in Nat /\ MaxFaults \in Nat
    /\ HostLimit \in Nat \ {0} /\ Included \in Nat \ {0}
    /\ DefaultRegion \in Regions /\ Orgs = 1..MaxOrgs
    /\ None \notin Orgs /\ None \notin StripeSubs /\ None \notin Emails
    /\ None \notin [org : Orgs, customer : Orgs]
    /\ IsFiniteSet(Requests) /\ IsFiniteSet(Regions)
  BY AccountsAssumption DEF Orgs

\* A user belongs to an organisation that was made.
LEMMA UserLemma ==
    ASSUME TypeOK, NEW o, HasUser(o)
    PROVE  o \in 1..made /\ o \in Orgs
<1>1. made \in 0..MaxOrgs /\ userOf \in [Emails -> (1..made) \cup {None}]
  BY DEF TypeOK
<1>2. o # None /\ \E e \in Emails : userOf[e] = o
  BY DEF HasUser, Login, GetUserByEmail
<1> QED
  BY <1>1, <1>2, Constants

\* Requests and failures are counted.
LEMMA CountLemma ==
    ASSUME started \in 0..MaxRequests, faults \in 0..MaxFaults,
           \/ UNCHANGED started
           \/ started < MaxRequests /\ started' = started + 1,
           Fault \/ NoFault
    PROVE  /\ started' \in 0..MaxRequests /\ faults' \in 0..MaxFaults
           /\ faults' = faults \/ faults' = faults + 1
  BY Constants DEF Fault, NoFault

\* Nothing takes back what a request has established.
LEMMA GrowsLemma ==
    ASSUME TypeOK, Reached,
           made' \in made..MaxOrgs,
           \A e \in Emails : userOf[e] # None => userOf'[e] = userOf[e],
           \A s \in StripeSubs : sold[s] # None => sold'[s] # None
    PROVE  /\ \A o : HasUser(o) => HasUser(o)'
           /\ \A q \in ReqRecords : Established(q) => Established(q)'
<1>1. ASSUME NEW o, HasUser(o)
      PROVE  HasUser(o)'
  BY <1>1 DEF HasUser, Login, GetUserByEmail
<1>2. 1..made \subseteq 1..made'
  <2>1. made \in 0..MaxOrgs
    BY DEF TypeOK
  <2> QED
    BY <2>1, Constants
<1> QED
  BY <1>1, <1>2 DEF Established

\* A request moves from one statement to another, or is answered.
LEMMA MoveLemma ==
    ASSUME req \in [Requests -> ReqRecords], NEW r \in Requests
    PROVE  /\ \A pc \in PCs : Goes(r, pc) => req' = [req EXCEPT ![r] = [req[r] EXCEPT !.pc = pc]]
           /\ Answers(r) => req' = [req EXCEPT ![r] = Idle]
           /\ \A pc \in PCs : [req[r] EXCEPT !.pc = pc] \in ReqRecords
           /\ Idle \in ReqRecords
           /\ Established(Idle)
           /\ Established(Idle)'
<1>1. req[r] \in ReqRecords
  OBVIOUS
<1> QED
  BY <1>1 DEF Goes, Answers, Idle, ReqRecords, PCs, Established

\* What a step of request r has to show for the requests.
LEMMA RequestLemma ==
    ASSUME TypeOK, Reached,
           made' \in made..MaxOrgs,
           \A e \in Emails : userOf[e] # None => userOf'[e] = userOf[e],
           \A s \in StripeSubs : sold[s] # None => sold'[s] # None,
           NEW r \in Requests, NEW q \in ReqRecords, Established(q)',
           req' = [req EXCEPT ![r] = q]
    PROVE  req' \in [Requests -> ReqRecords] /\ \A p \in Requests : Established(req[p])'
<1>1. \A p \in Requests : req'[p] = IF p = r THEN q ELSE req[p]
  BY DEF Reached
<1>2. ASSUME NEW p \in Requests
      PROVE  Established(req[p])'
  <2>1. CASE p = r
    BY <1>1, <2>1 DEF Established
  <2>2. CASE p # r
    <3>1. req[p] \in ReqRecords /\ Established(req[p])
      BY DEF Reached
    <3>2. PICK v : v = req[p]
      OBVIOUS
    <3>3. Established(v)'
      BY <3>1, <3>2, GrowsLemma
    <3> QED
      BY <1>1, <2>2, <3>2, <3>3 DEF Established
  <2> QED
    BY <2>1, <2>2
<1> QED
  BY <1>2 DEF Reached

\* What a step has to show: the tables keep their types, nothing is taken
\* back, at most one request moves, and whatever hangs on an organisation has
\* its user.
LEMMA StepLemma ==
    ASSUME TypeOK, Reached, TypedTables',
           made' \in made..MaxOrgs,
           \A e \in Emails : userOf[e] # None => userOf'[e] = userOf[e],
           \A s \in StripeSubs : sold[s] # None => sold'[s] # None,
           \/ UNCHANGED started
           \/ started < MaxRequests /\ started' = started + 1,
           Fault \/ NoFault,
           \/ UNCHANGED req
           \/ \E r \in Requests, q \in ReqRecords :
                  Established(q)' /\ req' = [req EXCEPT ![r] = q],
           \A o \in Orgs : sub'[o] # None \/ hosts'[o] > 0 \/ regions'[o] # {} =>
               \/ HasUser(o)
               \/ sub[o] # None \/ hosts[o] > 0 \/ regions[o] # {}
    PROVE  TypeOK' /\ Reached'
<1>1. started' \in 0..MaxRequests /\ faults' \in 0..MaxFaults
  BY CountLemma DEF TypeOK
<1>2. req' \in [Requests -> ReqRecords] /\ \A p \in Requests : Established(req[p])'
  <2>1. CASE UNCHANGED req
    <3>1. \A p \in Requests : req[p] \in ReqRecords /\ Established(req[p])
      BY DEF Reached
    <3>2. \A v \in ReqRecords : Established(v) => Established(v)'
      BY GrowsLemma
    <3>3. ASSUME NEW p \in Requests
          PROVE  Established(req[p])'
      <4>1. PICK v : v = req[p]
        OBVIOUS
      <4> QED
        BY <2>1, <3>1, <3>2, <4>1 DEF Established
    <3> QED
      BY <2>1, <3>3 DEF Reached
  <2>2. ASSUME NEW r \in Requests, NEW q \in ReqRecords, Established(q)',
               req' = [req EXCEPT ![r] = q]
        PROVE  req' \in [Requests -> ReqRecords] /\ \A p \in Requests : Established(req[p])'
    BY <2>2, RequestLemma
  <2> QED
    BY <2>1, <2>2
<1>3. \A r \in Requests :
        /\ req'[r].pc \in PCs /\ req'[r].email \in Emails \cup {None}
        /\ req'[r].org \in (1..made') \cup {None} /\ req'[r].region \in Regions \cup {None}
        /\ req'[r].stripe \in StripeSubs \cup {None}
  BY <1>2 DEF ReqRecords, Established
<1>4. NoOrphanData'
  BY GrowsLemma DEF Reached, NoOrphanData
<1> QED
  BY <1>1, <1>2, <1>3, <1>4 DEF TypeOK, TypedTables, Reached, PCs

----------------------------------------------------------------------------
(* The inductive step, one lemma for each group of handlers. *)

LEMMA TypedLemma ==
    ASSUME TypeOK, Reached
    PROVE  /\ TypedTables /\ NoOrphanData
           /\ made \in 0..MaxOrgs /\ made \in made..MaxOrgs
           /\ req \in [Requests -> ReqRecords]
           /\ \A r \in Requests : req[r] \in ReqRecords /\ Established(req[r])
<1>1. TypedTables
  BY DEF TypeOK, TypedTables
<1>2. made \in 0..MaxOrgs
  BY DEF TypeOK
<1> QED
  BY <1>1, <1>2, Constants DEF Reached

LEMMA RegisterLemma ==
    ASSUME TypeOK, Reached, NEW r \in Requests, Register(r)
    PROVE  TypeOK' /\ Reached'
<1> USE DEF tables, bounds, told, Arrives, At, NoFault
<1>0. /\ TypedTables /\ req \in [Requests -> ReqRecords] /\ req[r] \in ReqRecords
      /\ Established(req[r]) /\ NoOrphanData
      /\ made \in 0..MaxOrgs /\ made \in made..MaxOrgs
  BY TypedLemma
<1>1. ASSUME NEW e \in Emails, RegisterLookup(r, e)
      PROVE  TypeOK' /\ Reached'
  <2>1. PICK q \in ReqRecords : q = [Idle EXCEPT !.pc = "org", !.email = e]
    BY DEF Idle, ReqRecords, PCs
  <2>2. Established(q)' /\ req' = [req EXCEPT ![r] = q]
    BY <1>1, <2>1 DEF RegisterLookup, Idle, Established
  <2> QED
    BY <1>0, <1>1, <2>1, <2>2, StepLemma DEF RegisterLookup, TypedTables
<1>2. CASE CreateOrg(r)
  <2>1. CASE /\ InsertOrg /\ NoFault
             /\ req' = [req EXCEPT ![r] = [@ EXCEPT !.pc = "user", !.org = made + 1]]
    <3>1. made' = made + 1 /\ made' \in made..MaxOrgs /\ made' \in 1..MaxOrgs
      <4>1. made < MaxOrgs /\ made' = made + 1
        BY <2>1 DEF InsertOrg
      <4> QED
        BY <1>0, <4>1, Constants
    <3>2. PICK q \in ReqRecords : q = [req[r] EXCEPT !.pc = "user", !.org = made + 1]
      BY <1>0, <3>1, Constants DEF ReqRecords, PCs
    <3>3. req' = [req EXCEPT ![r] = q]
      BY <1>0, <2>1, <3>2
    <3>4. Established(q)'
      <4>1. req[r].email \in Emails
        BY <1>0, <1>2 DEF CreateOrg, Established
      <4>2. q.pc = "user" /\ q.org = made + 1 /\ q.email = req[r].email
        BY <1>0, <3>2 DEF ReqRecords
      <4>3. made + 1 \in 1..made'
        BY <3>1, <1>0
      <4> QED
        BY <4>1, <4>2, <4>3 DEF Established
    <3>5. TypedTables'
      <4>1. UNCHANGED <<userOf, sub, hosts, regions, invoices, sold, unchecked, paid, latest>>
        BY <1>2 DEF CreateOrg
      <4>2. 1..made \subseteq 1..made' /\ made' \in 0..MaxOrgs
        BY <1>0, <3>1, Constants
      <4> QED
        BY <1>0, <4>1, <4>2 DEF TypedTables
    <3>6. UNCHANGED <<userOf, sold, sub, hosts, regions, started, faults>>
      BY <1>2, <2>1 DEF CreateOrg
    <3> QED
      BY <3>1, <3>2, <3>3, <3>4, <3>5, <3>6, StepLemma
  <2>2. CASE (InsertOrg \/ UNCHANGED made) /\ Fault /\ Answers(r)
    <3>1. made' \in made..MaxOrgs /\ made' \in 0..MaxOrgs /\ 1..made \subseteq 1..made'
      BY <1>0, <2>2, Constants DEF InsertOrg
    <3>2. UNCHANGED <<userOf, sub, hosts, regions, invoices, sold, unchecked, paid, latest, started>>
      BY <1>2 DEF CreateOrg
    <3>3. TypedTables'
      BY <1>0, <3>1, <3>2 DEF TypedTables
    <3>4. \E q \in ReqRecords : Established(q)' /\ req' = [req EXCEPT ![r] = q]
      BY <1>0, <2>2, MoveLemma
    <3> QED
      BY <2>2, <3>1, <3>2, <3>3, <3>4, StepLemma
  <2> QED
    BY <1>2, <2>1, <2>2 DEF CreateOrg
<1>3. CASE CreateUser(r)
  \* The row of the user, whether or not its answer arrives.
  <2>0. /\ req[r].email \in Emails /\ req[r].org \in 1..made /\ req[r].org # None
        /\ UNCHANGED <<made, sub, hosts, regions, invoices, sold, unchecked, paid, latest, started>>
    <3>1. req[r].email \in Emails /\ req[r].org \in 1..made
      BY <1>0, <1>3 DEF CreateUser, Established
    <3> QED
      BY <1>0, <1>3, <3>1, Constants DEF CreateUser
  <2>1. ASSUME InsertUser(req[r])
        PROVE  /\ TypedTables' /\ userOf'[req[r].email] = req[r].org
               /\ \A e \in Emails : userOf[e] # None => userOf'[e] = userOf[e]
    <3>1. /\ userOf[req[r].email] = None
          /\ userOf' = [userOf EXCEPT ![req[r].email] = req[r].org]
      BY <2>1 DEF InsertUser
    <3> QED
      BY <1>0, <2>0, <3>1 DEF TypedTables
  <2>2. CASE InsertUser(req[r]) /\ NoFault /\ Goes(r, "subscription")
    <3>2. /\ TypedTables' /\ userOf'[req[r].email] = req[r].org
          /\ \A e \in Emails : userOf[e] # None => userOf'[e] = userOf[e]
      BY <2>1, <2>2
    <3>3. PICK q \in ReqRecords : q = [req[r] EXCEPT !.pc = "subscription"]
      BY <1>0, MoveLemma DEF PCs
    <3>4. req' = [req EXCEPT ![r] = q]
      BY <1>0, <2>2, <3>3, MoveLemma DEF PCs
    <3>5. Established(q)'
      <4>1. q.pc = "subscription" /\ q.org = req[r].org
        BY <1>0, <3>3 DEF ReqRecords
      <4>2. PICK v : v = req[r].org
        OBVIOUS
      <4>3. HasUser(v)'
        BY <2>0, <3>2, <4>2 DEF HasUser, Login, GetUserByEmail
      <4> QED
        BY <2>0, <4>1, <4>2, <4>3 DEF Established
    <3> QED
      BY <1>0, <2>0, <2>2, <3>2, <3>4, <3>5, StepLemma
  <2>3. CASE UNCHANGED userOf /\ (NoFault \/ Fault) /\ Answers(r)
    <3>1. TypedTables'
      BY <1>0, <2>0, <2>3 DEF TypedTables
    <3>2. \E q \in ReqRecords : Established(q)' /\ req' = [req EXCEPT ![r] = q]
      BY <1>0, <2>3, MoveLemma
    <3> QED
      BY <1>0, <2>0, <2>3, <3>1, <3>2, StepLemma
  <2>4. CASE InsertUser(req[r]) /\ Fault /\ Answers(r)
    <3>1. /\ TypedTables'
          /\ \A e \in Emails : userOf[e] # None => userOf'[e] = userOf[e]
      BY <2>1, <2>4
    <3>2. \E q \in ReqRecords : Established(q)' /\ req' = [req EXCEPT ![r] = q]
      BY <1>0, <2>4, MoveLemma
    <3> QED
      BY <1>0, <2>0, <2>4, <3>1, <3>2, StepLemma
  <2> QED
    BY <1>3, <2>2, <2>3, <2>4 DEF CreateUser
\* The rest writes the tables of an organisation whose user exists.
<1>4. ASSUME NEW pc \in PCs, pc \in {"region", "customer"},
             req[r].pc \in {"subscription", "region"}, Goes(r, pc),
             UNCHANGED <<made, userOf, sold>>
      PROVE  /\ HasUser(req[r].org) /\ req[r].org \in Orgs
             /\ \E q \in ReqRecords : Established(q)' /\ req' = [req EXCEPT ![r] = q]
  <2>1. HasUser(req[r].org) /\ req[r].org \in Orgs
    BY <1>0, <1>4, UserLemma DEF Established
  <2>2. PICK q \in ReqRecords : q = [req[r] EXCEPT !.pc = pc]
    BY <1>0, <1>4, MoveLemma
  <2>3. req' = [req EXCEPT ![r] = q]
    BY <1>0, <1>4, <2>2, MoveLemma
  <2>4. Established(q)
    BY <1>0, <1>4, <2>1, <2>2 DEF Established, ReqRecords
  <2>5. Established(q)'
    BY <1>4, <2>4 DEF Established, HasUser, Login, GetUserByEmail
  <2> QED
    BY <2>1, <2>3, <2>5
<1>5. CASE CreateSubscription(r)
  <2>1. /\ HasUser(req[r].org) /\ req[r].org \in Orgs
        /\ \E q \in ReqRecords : Established(q)' /\ req' = [req EXCEPT ![r] = q]
    BY <1>4, <1>5 DEF CreateSubscription, PCs
  <2>2. Fault \/ NoFault
    BY <1>5 DEF CreateSubscription, Does
  <2>3. CASE sub' = [sub EXCEPT ![req[r].org] = Row(None, None, "active")]
    <3>1. Row(None, None, "active") \in Rows
      BY DEF Row, Rows
    <3>2. TypedTables'
      BY <1>0, <1>5, <2>1, <2>3, <3>1 DEF CreateSubscription, TypedTables
    <3>3. \A o \in Orgs : sub'[o] # None => sub[o] # None \/ HasUser(o)
      BY <1>0, <2>1, <2>3 DEF TypedTables
    <3> QED
      BY <1>0, <1>5, <2>1, <2>2, <3>2, <3>3, StepLemma DEF CreateSubscription
  <2>4. CASE UNCHANGED sub
    <3>1. TypedTables'
      BY <1>0, <1>5, <2>4 DEF CreateSubscription, TypedTables
    <3> QED
      BY <1>0, <1>5, <2>1, <2>2, <2>4, <3>1, StepLemma DEF CreateSubscription
  <2> QED
    BY <1>5, <2>3, <2>4 DEF CreateSubscription, Does
<1>6. CASE DefaultOrgRegion(r)
  <2>1. /\ HasUser(req[r].org) /\ req[r].org \in Orgs
        /\ \E q \in ReqRecords : Established(q)' /\ req' = [req EXCEPT ![r] = q]
    BY <1>4, <1>6 DEF DefaultOrgRegion, PCs
  <2>2. Fault \/ NoFault
    BY <1>6 DEF DefaultOrgRegion, Does
  <2>3. CASE regions' = [regions EXCEPT ![req[r].org] = @ \cup {DefaultRegion}]
    <3>1. TypedTables'
      <4>1. regions' \in [Orgs -> SUBSET Regions]
        BY <1>0, <2>1, <2>3, Constants DEF TypedTables
      <4>2. UNCHANGED <<made, userOf, sub, hosts, invoices, sold, unchecked, paid, latest>>
        BY <1>6 DEF DefaultOrgRegion, told
      <4> QED
        BY <1>0, <4>1, <4>2 DEF TypedTables
    <3>2. \A o \in Orgs : regions'[o] # {} => regions[o] # {} \/ HasUser(o)
      BY <1>0, <2>1, <2>3 DEF TypedTables
    <3> QED
      BY <1>0, <1>6, <2>1, <2>2, <3>1, <3>2, StepLemma DEF DefaultOrgRegion
  <2>4. CASE UNCHANGED regions
    <3>1. TypedTables'
      BY <1>0, <1>6, <2>4 DEF DefaultOrgRegion, TypedTables
    <3> QED
      BY <1>0, <1>6, <2>1, <2>2, <2>4, <3>1, StepLemma DEF DefaultOrgRegion
  <2> QED
    BY <1>6, <2>3, <2>4 DEF DefaultOrgRegion, Does
<1>7. CASE LinkCustomer(r)
  <2>1. req[r].org \in Orgs
    BY <1>0, <1>7, UserLemma DEF LinkCustomer, Established
  <2>2. /\ sub' \in [Orgs -> Rows \cup {None}]
        /\ \A o \in Orgs : sub'[o] # None => sub[o] # None
    <3>1. ASSUME NEW customer \in CreateCustomer(req[r].org) \ {None},
                 UpdateStripe(req[r].org, Row(customer, None, "active"))
          PROVE  /\ sub' \in [Orgs -> Rows \cup {None}]
                 /\ \A o \in Orgs : sub'[o] # None => sub[o] # None
      <4>1. Row(customer, None, "active") \in Rows
        BY <2>1, <3>1 DEF Row, Rows, CreateCustomer
      <4> QED
        BY <1>0, <2>1, <3>1, <4>1 DEF UpdateStripe, TypedTables
    <3>2. CASE UNCHANGED sub
      BY <1>0, <3>2 DEF TypedTables
    <3> QED
      BY <1>7, <3>1, <3>2 DEF LinkCustomer
  <2>3. TypedTables'
    BY <1>0, <1>7, <2>2 DEF LinkCustomer, TypedTables
  <2> QED
    BY <1>0, <1>7, <2>2, <2>3, MoveLemma, StepLemma DEF LinkCustomer
<1> QED
  BY <1>1, <1>2, <1>3, <1>5, <1>6, <1>7 DEF Register

LEMMA LimitsLemma ==
    ASSUME TypeOK, Reached, NEW r \in Requests, Limits(r)
    PROVE  TypeOK' /\ Reached'
<1> USE DEF tables, bounds, told, Arrives, At, NoFault
<1>0. /\ TypedTables /\ req \in [Requests -> ReqRecords] /\ req[r] \in ReqRecords
      /\ Established(req[r]) /\ NoOrphanData
      /\ made \in 0..MaxOrgs /\ made \in made..MaxOrgs
  BY TypedLemma
<1>1. ASSUME NEW o \in Orgs, HostSubscription(r, o)
      PROVE  TypeOK' /\ Reached'
  <2>1. Fault \/ NoFault
    BY <1>1 DEF HostSubscription, Reads
  <2>2. TypedTables'
    <3>1. unchecked' \in [Orgs -> Nat]
      <4>1. unchecked \in [Orgs -> Nat]
        BY <1>0 DEF TypedTables
      <4>2. unchecked' = unchecked \/ unchecked' = [unchecked EXCEPT ![o] = @ + 1]
        BY <1>1 DEF HostSubscription
      <4> QED
        BY <4>1, <4>2
    <3> QED
      BY <1>0, <1>1, <3>1 DEF HostSubscription, TypedTables
  <2>3. o \in 1..made
    BY <1>1, UserLemma DEF HostSubscription
  <2>4. PICK pc \in {"hosts", "host"} : req' = [req EXCEPT ![r] = [Idle EXCEPT !.pc = pc, !.org = o]]
    BY <1>1 DEF HostSubscription
  <2>5. PICK q \in ReqRecords : q = [Idle EXCEPT !.pc = pc, !.org = o]
    BY DEF Idle, ReqRecords, PCs
  <2>6. HasUser(o)'
    BY <1>1 DEF HostSubscription, HasUser, Login, GetUserByEmail
  <2>7. Established(q)'
    BY <1>1, <2>3, <2>5, <2>6 DEF HostSubscription, Idle, Established
  <2> QED
    BY <1>0, <1>1, <2>1, <2>2, <2>4, <2>5, <2>7, StepLemma DEF HostSubscription
<1>2. ASSUME NEW o \in Orgs, NEW g \in Regions, RegionSubscription(r, o, g)
      PROVE  TypeOK' /\ Reached'
  <2>1. TypedTables'
    BY <1>0, <1>2 DEF RegionSubscription, TypedTables
  <2>2. o \in 1..made
    BY <1>2, UserLemma DEF RegionSubscription
  <2>3. PICK q \in ReqRecords : q = [Idle EXCEPT !.pc = "regions", !.org = o, !.region = g]
    BY DEF Idle, ReqRecords, PCs
  <2>4. HasUser(o)'
    BY <1>2 DEF RegionSubscription, HasUser, Login, GetUserByEmail
  <2>5. Established(q)'
    BY <1>2, <2>2, <2>3, <2>4 DEF RegionSubscription, Idle, Established
  <2> QED
    BY <1>0, <1>2, <2>1, <2>3, <2>5, StepLemma DEF RegionSubscription
\* A request that goes on with the organisation it has.
<1>3. ASSUME NEW pc \in {"host", "addRegion"},
             req[r].pc \in {"hosts", "regions"}, pc = "addRegion" => req[r].pc = "regions",
             Goes(r, pc), UNCHANGED <<made, userOf, sold>>
      PROVE  \E q \in ReqRecords : Established(q)' /\ req' = [req EXCEPT ![r] = q]
  <2>0. pc \in PCs
    BY DEF PCs
  <2>1. PICK q \in ReqRecords : q = [req[r] EXCEPT !.pc = pc]
    BY <1>0, <2>0, MoveLemma
  <2>2. req' = [req EXCEPT ![r] = q]
    BY <1>0, <1>3, <2>0, <2>1, MoveLemma
  <2>3. Established(q)
    BY <1>0, <1>3, <2>1 DEF Established, ReqRecords
  <2>4. Established(q)'
    BY <1>3, <2>3 DEF Established, HasUser, Login, GetUserByEmail
  <2> QED
    BY <2>2, <2>4
<1>4. CASE HostCount(r)
  <2>1. req[r].org \in Orgs /\ req[r].pc = "hosts"
    BY <1>0, <1>4, UserLemma DEF HostCount, Established
  <2>2. PICK plan \in BOOLEAN, count \in BOOLEAN :
          /\ Reads(plan /\ count)
          /\ IF LimitReached(CountActiveHosts(req[r].org, count), GetPlan(plan))
             THEN Answers(r) /\ UNCHANGED unchecked
             ELSE /\ Goes(r, "host")
                  /\ unchecked' = [unchecked EXCEPT ![req[r].org] = @ + IF count THEN 0 ELSE 1]
    BY <1>4 DEF HostCount
  <2>3. Fault \/ NoFault
    BY <2>2 DEF Reads
  <2>4. unchecked' \in [Orgs -> Nat]
    <3>1. unchecked \in [Orgs -> Nat]
      BY <1>0 DEF TypedTables
    <3>2. PICK n \in {0, 1} :
            unchecked' = unchecked \/ unchecked' = [unchecked EXCEPT ![req[r].org] = @ + n]
      BY <2>2
    <3> QED
      BY <3>1, <3>2
  <2>5. TypedTables'
    BY <1>0, <1>4, <2>4 DEF HostCount, TypedTables
  <2>6. \E q \in ReqRecords : Established(q)' /\ req' = [req EXCEPT ![r] = q]
    <3>1. CASE Answers(r)
      BY <1>0, <3>1, MoveLemma
    <3>2. CASE Goes(r, "host")
      BY <1>3, <1>4, <2>1, <3>2 DEF HostCount
    <3> QED
      BY <2>2, <3>1, <3>2
  <2> QED
    BY <1>0, <1>4, <2>3, <2>5, <2>6, StepLemma DEF HostCount
<1>5. CASE CreateHost(r)
  <2>1. HasUser(req[r].org) /\ req[r].org \in Orgs
    BY <1>0, <1>5, UserLemma DEF CreateHost, Established
  <2>2. Fault \/ NoFault
    BY <1>5 DEF CreateHost, Does
  <2>3. /\ hosts' \in [Orgs -> Nat]
        /\ \A o \in Orgs : hosts'[o] > 0 => hosts[o] > 0 \/ HasUser(o)
    <3>1. hosts \in [Orgs -> Nat]
      BY <1>0 DEF TypedTables
    <3>2. hosts' = hosts \/ hosts' = [hosts EXCEPT ![req[r].org] = @ + 1]
      BY <1>5 DEF CreateHost, Does, InsertHost
    <3> QED
      BY <2>1, <3>1, <3>2
  <2>4. TypedTables'
    BY <1>0, <1>5, <2>3 DEF CreateHost, TypedTables
  <2> QED
    BY <1>0, <1>5, <2>2, <2>3, <2>4, MoveLemma, StepLemma DEF CreateHost
<1>6. CASE RegionCount(r)
  <2>1. Fault \/ NoFault
    BY <1>6 DEF RegionCount, Reads
  <2>2. TypedTables'
    BY <1>0, <1>6 DEF RegionCount, TypedTables
  <2>3. \E q \in ReqRecords : Established(q)' /\ req' = [req EXCEPT ![r] = q]
    <3>1. CASE Answers(r)
      BY <1>0, <3>1, MoveLemma
    <3>2. CASE Goes(r, "addRegion")
      BY <1>3, <1>6, <3>2 DEF RegionCount
    <3> QED
      BY <1>6, <3>1, <3>2 DEF RegionCount
  <2> QED
    BY <1>0, <1>6, <2>1, <2>2, <2>3, StepLemma DEF RegionCount
<1>7. CASE AddOrgRegion(r)
  <2>1. HasUser(req[r].org) /\ req[r].org \in Orgs /\ req[r].region \in Regions
    BY <1>0, <1>7, UserLemma DEF AddOrgRegion, Established
  <2>2. Fault \/ NoFault
    BY <1>7 DEF AddOrgRegion, Does
  <2>3. /\ regions' \in [Orgs -> SUBSET Regions]
        /\ \A o \in Orgs : regions'[o] # {} => regions[o] # {} \/ HasUser(o)
    <3>1. regions \in [Orgs -> SUBSET Regions]
      BY <1>0 DEF TypedTables
    <3>2. \/ regions' = regions
          \/ regions' = [regions EXCEPT ![req[r].org] = @ \cup {req[r].region}]
      BY <1>7 DEF AddOrgRegion, Does, InsertRegion
    <3> QED
      BY <2>1, <3>1, <3>2
  <2>4. TypedTables'
    BY <1>0, <1>7, <2>3 DEF AddOrgRegion, TypedTables
  <2> QED
    BY <1>0, <1>7, <2>2, <2>3, <2>4, MoveLemma, StepLemma DEF AddOrgRegion
<1> QED
  BY <1>1, <1>2, <1>4, <1>5, <1>6, <1>7 DEF Limits

\* The row an UPDATE writes for the events of a subscription that was sold.
LEMMA UpdateLemma ==
    ASSUME TypedTables, NEW o \in Orgs \cup {None}, NEW s \in StripeSubs, sold[s] # None,
           NEW status \in {"active", "trialing", ""},
           UpdateStripe(o, Row(sold[s].customer, s, status))
    PROVE  /\ sub' \in [Orgs -> Rows \cup {None}]
           /\ \A p \in Orgs : sub'[p] # None => sub[p] # None
<1>1. sub \in [Orgs -> Rows \cup {None}] /\ sold[s].customer \in Orgs
  BY DEF TypedTables
<1>2. Row(sold[s].customer, s, status) \in Rows
  BY <1>1 DEF Row, Rows
<1> QED
  BY <1>1, <1>2 DEF UpdateStripe

LEMMA UpdatesLemma ==
    ASSUME TypedTables, NEW r \in Requests, req[r].org \in Orgs \cup {None},
           req[r].stripe \in StripeSubs, sold[req[r].stripe] # None,
           NEW status \in {"active", "trialing", ""}, Updates(r, status)
    PROVE  /\ sub' \in [Orgs -> Rows \cup {None}]
           /\ \A p \in Orgs : sub'[p] # None => sub[p] # None
           /\ latest' \in [StripeSubs ->
                {None, "pending", "unclear", "active", "trialing", "past_due", "canceled", ""}]
           /\ Fault \/ NoFault
<1>1. sub \in [Orgs -> Rows \cup {None}]
  BY DEF TypedTables
<1>2. /\ sub' \in [Orgs -> Rows \cup {None}]
      /\ \A p \in Orgs : sub'[p] # None => sub[p] # None
  <2>1. CASE UpdateStripe(req[r].org, Row(sold[req[r].stripe].customer, req[r].stripe, status))
    BY <2>1, UpdateLemma
  <2>2. CASE UNCHANGED sub
    BY <1>1, <2>2
  <2> QED
    BY <2>1, <2>2 DEF Updates
<1>3. latest \in [StripeSubs ->
        {None, "pending", "unclear", "active", "trialing", "past_due", "canceled", ""}]
  BY DEF TypedTables
<1>4. \E told2 \in {"unclear", status} : latest' = [latest EXCEPT ![req[r].stripe] = told2]
  BY DEF Updates, Handled
<1> QED
  BY <1>2, <1>3, <1>4 DEF Updates

LEMMA WebhookLemma ==
    ASSUME TypeOK, Reached, NEW r \in Requests, Webhook(r)
    PROVE  TypeOK' /\ Reached'
<1> USE DEF tables, bounds, told, Arrives, At, NoFault
<1> DEFINE Latest ==
      {None, "pending", "unclear", "active", "trialing", "past_due", "canceled", ""}
<1>0. /\ TypedTables /\ req \in [Requests -> ReqRecords] /\ req[r] \in ReqRecords
      /\ Established(req[r]) /\ NoOrphanData
      /\ made \in 0..MaxOrgs /\ made \in made..MaxOrgs
  BY TypedLemma
<1>1. latest \in [StripeSubs -> Latest] /\ paid \in [Orgs \cup {None} -> Nat]
  BY <1>0 DEF TypedTables
<1>2. \A s \in StripeSubs, status \in Latest :
        Told(s, status) => latest' \in [StripeSubs -> Latest]
  BY <1>1 DEF Told
<1> HIDE DEF Latest
\* The row that is found belongs to an organisation that was made.
<1>3. ASSUME NEW s \in StripeSubs, NEW stripe, NEW o \in Orgs \cup {None}, Finds(stripe, o)
      PROVE  o \in (1..made) \cup {None} /\ (Fault \/ NoFault)
  <2>1. CASE o = None
    BY <1>3, <2>1 DEF Finds
  <2>2. CASE o # None
    <3>1. o \in Orgs /\ sub[o] # None /\ NoFault
      BY <1>3, <2>2 DEF Finds
    <3>2. HasUser(o)
      BY <1>0, <3>1 DEF NoOrphanData
    <3> QED
      BY <3>1, <3>2, UserLemma
  <2> QED
    BY <2>1, <2>2
\* An event arrives.
<1>4. ASSUME NEW s \in StripeSubs, Event(r, s), NEW o \in (1..made) \cup {None},
             o \in Orgs \cup {None}, NEW pc \in {"bind", "renew"},
             req' = [req EXCEPT ![r] = [Idle EXCEPT !.pc = pc, !.org = o, !.stripe = s]],
             UNCHANGED <<made, userOf, sold>>
      PROVE  \E q \in ReqRecords : Established(q)' /\ req' = [req EXCEPT ![r] = q]
  <2>1. PICK q \in ReqRecords : q = [Idle EXCEPT !.pc = pc, !.org = o, !.stripe = s]
    BY <1>4 DEF Idle, ReqRecords, PCs
  <2>2. Established(q)'
    BY <1>4, <2>1 DEF Event, Idle, Established
  <2> QED
    BY <1>4, <2>1, <2>2
<1>5. ASSUME NEW s \in StripeSubs, CheckoutCompleted(r, s)
      PROVE  TypeOK' /\ Reached'
  <2>1. PICK o \in Orgs \cup {None} :
          /\ Finds(None, o)
          /\ req' = [req EXCEPT ![r] = [Idle EXCEPT !.pc = "bind", !.org = o, !.stripe = s]]
    BY <1>5 DEF CheckoutCompleted
  <2>2. o \in (1..made) \cup {None} /\ (Fault \/ NoFault)
    BY <1>3, <2>1
  <2>3. \E q \in ReqRecords : Established(q)' /\ req' = [req EXCEPT ![r] = q]
    BY <1>4, <1>5, <2>1, <2>2 DEF CheckoutCompleted
  <2>4. latest' \in [StripeSubs -> Latest]
    BY <1>2, <1>5 DEF CheckoutCompleted, Latest
  <2>5. TypedTables'
    BY <1>0, <1>5, <2>4 DEF CheckoutCompleted, TypedTables, Latest
  <2> QED
    BY <1>0, <1>5, <2>2, <2>3, <2>5, StepLemma DEF CheckoutCompleted, Event
<1>6. ASSUME NEW s \in StripeSubs, InvoicePaid(r, s)
      PROVE  TypeOK' /\ Reached'
  <2>1. PICK o \in Orgs \cup {None} :
          /\ Finds(s, o)
          /\ req' = [req EXCEPT ![r] = [Idle EXCEPT !.pc = "renew", !.org = o, !.stripe = s]]
          /\ paid' = [paid EXCEPT ![o] = @ + 1]
    BY <1>6 DEF InvoicePaid
  <2>2. o \in (1..made) \cup {None} /\ (Fault \/ NoFault)
    BY <1>3, <2>1
  <2>3. \E q \in ReqRecords : Established(q)' /\ req' = [req EXCEPT ![r] = q]
    BY <1>4, <1>6, <2>1, <2>2 DEF InvoicePaid
  <2>4. latest' \in [StripeSubs -> Latest] /\ paid' \in [Orgs \cup {None} -> Nat]
    <3>1. latest' \in [StripeSubs -> Latest]
      BY <1>2, <1>6 DEF InvoicePaid, Latest
    <3> QED
      BY <1>1, <2>1, <3>1
  <2>5. TypedTables'
    BY <1>0, <1>6, <2>4 DEF InvoicePaid, TypedTables, Latest
  <2> QED
    BY <1>0, <1>6, <2>2, <2>3, <2>5, StepLemma DEF InvoicePaid, Event
<1>7. ASSUME NEW s \in StripeSubs, StatusEvent(r, s)
      PROVE  TypeOK' /\ Reached'
  <2>1. PICK status \in {"past_due", "canceled"} : SetStatus(s, status) /\ Told(s, status)
    BY <1>7 DEF StatusEvent
  <2>2. sub' \in [Orgs -> Rows \cup {None}] /\ \A p \in Orgs : sub'[p] # None => sub[p] # None
    <3>1. sub \in [Orgs -> Rows \cup {None}]
      BY <1>0 DEF TypedTables
    <3>2. \A o \in Orgs : sub[o] # None => [sub[o] EXCEPT !.status = status] \in Rows
      BY <3>1 DEF Rows
    <3>3. \A o \in Orgs :
            sub'[o] = IF o \in Bound(s) THEN [sub[o] EXCEPT !.status = status] ELSE sub[o]
      BY <2>1 DEF SetStatus
    <3>4. \A o \in Bound(s) : sub[o] # None
      BY DEF Bound
    <3>5. sub' = [o \in Orgs |-> sub'[o]]
      BY <2>1 DEF SetStatus
    <3>6. ASSUME NEW o \in Orgs
          PROVE  sub'[o] \in Rows \cup {None} /\ (sub'[o] # None => sub[o] # None)
      BY <3>1, <3>2, <3>3, <3>4
    <3> QED
      BY <3>5, <3>6
  <2>3. latest' \in [StripeSubs -> Latest]
    BY <1>2, <2>1 DEF Latest
  <2>4. TypedTables'
    BY <1>0, <1>7, <2>2, <2>3 DEF StatusEvent, TypedTables, Latest
  <2> QED
    BY <1>0, <1>7, <2>2, <2>4, StepLemma DEF StatusEvent, Event
\* What a request at an UPDATE knows.
<1>8. ASSUME req[r].pc \in {"bind", "renew"}
      PROVE  /\ req[r].org \in Orgs \cup {None}
             /\ req[r].stripe \in StripeSubs /\ sold[req[r].stripe] # None
  BY <1>0, <1>8 DEF ReqRecords, Established
<1>9. CASE Bind(r)
  <2>1. /\ sub' \in [Orgs -> Rows \cup {None}]
        /\ \A p \in Orgs : sub'[p] # None => sub[p] # None
        /\ latest' \in [StripeSubs -> Latest]
        /\ Fault \/ NoFault
    <3>1. ASSUME NEW status \in {"active", "trialing", ""}, Updates(r, status)
          PROVE  /\ sub' \in [Orgs -> Rows \cup {None}]
                 /\ \A p \in Orgs : sub'[p] # None => sub[p] # None
                 /\ latest' \in [StripeSubs -> Latest]
                 /\ Fault \/ NoFault
      BY <1>0, <1>8, <1>9, <3>1, UpdatesLemma DEF Bind, Latest
    <3>2. CASE UNCHANGED sub /\ NoFault /\ Handled(req[r].stripe, req[r].org, "unclear")
      <4>1. sub' \in [Orgs -> Rows \cup {None}]
        BY <1>0, <3>2 DEF TypedTables
      <4>2. latest' = [latest EXCEPT ![req[r].stripe] = "unclear"] /\ "unclear" \in Latest
        BY <3>2 DEF Handled, Latest
      <4>3. latest' \in [StripeSubs -> Latest]
        BY <1>1, <4>2
      <4> QED
        BY <3>2, <4>1, <4>3
    <3> QED
      BY <1>9, <3>1, <3>2 DEF Bind
  <2>2. TypedTables'
    BY <1>0, <1>9, <2>1 DEF Bind, TypedTables, Latest
  <2> QED
    BY <1>0, <1>9, <2>1, <2>2, MoveLemma, StepLemma DEF Bind
<1>10. CASE Renew(r)
  <2>1. /\ sub' \in [Orgs -> Rows \cup {None}]
        /\ \A p \in Orgs : sub'[p] # None => sub[p] # None
        /\ latest' \in [StripeSubs -> Latest]
        /\ Fault \/ NoFault
    BY <1>0, <1>8, <1>10, UpdatesLemma DEF Renew, Latest
  <2>2. TypedTables'
    BY <1>0, <1>10, <2>1 DEF Renew, TypedTables, Latest
  <2>3. \E q \in ReqRecords : Established(q)' /\ req' = [req EXCEPT ![r] = q]
    <3>1. PICK q \in ReqRecords : q = [req[r] EXCEPT !.pc = "invoice"]
      BY <1>0, MoveLemma DEF PCs
    <3>2. req' = [req EXCEPT ![r] = q]
      BY <1>0, <1>10, <3>1, MoveLemma DEF Renew, PCs
    <3>3. Established(q)'
      BY <1>0, <1>10, <3>1 DEF Renew, ReqRecords, Established
    <3> QED
      BY <3>2, <3>3
  <2> QED
    BY <1>0, <1>10, <2>1, <2>2, <2>3, StepLemma DEF Renew
<1>11. CASE UpsertInvoice(r)
  <2>1. Fault \/ NoFault
    BY <1>11 DEF UpsertInvoice, Does
  <2>2. invoices' \in [Orgs \cup {None} -> Nat]
    <3>1. invoices \in [Orgs \cup {None} -> Nat] /\ req[r].org \in Orgs \cup {None}
      BY <1>0 DEF TypedTables, ReqRecords
    <3>2. invoices' = invoices \/ invoices' = [invoices EXCEPT ![req[r].org] = @ + 1]
      BY <1>11 DEF UpsertInvoice, Does, InsertInvoice
    <3> QED
      BY <3>1, <3>2
  <2>3. TypedTables'
    BY <1>0, <1>11, <2>2 DEF UpsertInvoice, TypedTables
  <2> QED
    BY <1>0, <1>11, <2>1, <2>3, MoveLemma, StepLemma DEF UpsertInvoice
<1> QED
  BY <1>5, <1>6, <1>7, <1>9, <1>10, <1>11 DEF Webhook

----------------------------------------------------------------------------
(* The invariant. *)

LEMMA InitLemma ==
    ASSUME Init
    PROVE  TypeOK /\ Reached
<1> USE DEF Init
<1>1. TypeOK
  <2>1. req \in [Requests -> ReqRecords]
    BY DEF Idle, ReqRecords, PCs
  <2>2. /\ made \in 0..MaxOrgs /\ started \in 0..MaxRequests /\ faults \in 0..MaxFaults
    BY Constants
  <2>3. \A r \in Requests : req[r] = Idle
    OBVIOUS
  <2> QED
    BY <2>2, <2>3 DEF TypeOK, Idle
<1>2. Reached
  <2>1. req \in [Requests -> ReqRecords]
    BY DEF Idle, ReqRecords, PCs
  <2>2. \A r \in Requests : Established(req[r])
    BY DEF Idle, Established
  <2>3. NoOrphanData
    BY DEF NoOrphanData
  <2> QED
    BY <2>1, <2>2, <2>3 DEF Reached
<1> QED
  BY <1>1, <1>2

LEMMA ReachedInductive ==
    ASSUME TypeOK, Reached, [Next]_vars
    PROVE  TypeOK' /\ Reached'
<1> USE DEF tables, bounds, told, NoFault
<1>0. TypedTables /\ made \in made..MaxOrgs
  BY TypedLemma
<1>1. ASSUME NEW r \in Requests, Register(r) \/ Limits(r) \/ Webhook(r)
      PROVE  TypeOK' /\ Reached'
  BY <1>1, RegisterLemma, LimitsLemma, WebhookLemma
<1>2. ASSUME NEW o \in Orgs, DeleteHost(o)
      PROVE  TypeOK' /\ Reached'
  <2>1. hosts' \in [Orgs -> Nat] /\ \A p \in Orgs : hosts'[p] > 0 => hosts[p] > 0
    <3>1. hosts \in [Orgs -> Nat] /\ hosts[o] > 0 /\ hosts' = [hosts EXCEPT ![o] = @ - 1]
      BY <1>0, <1>2 DEF DeleteHost, TypedTables
    <3> QED
      BY <3>1
  <2>2. TypedTables'
    BY <1>0, <1>2, <2>1 DEF DeleteHost, TypedTables
  <2> QED
    BY <1>0, <1>2, <2>1, <2>2, StepLemma DEF DeleteHost
<1>3. ASSUME NEW o \in Orgs, NEW g \in Regions, RemoveRegion(o, g)
      PROVE  TypeOK' /\ Reached'
  <2>1. /\ regions' \in [Orgs -> SUBSET Regions]
        /\ \A p \in Orgs : regions'[p] # {} => regions[p] # {}
    BY <1>0, <1>3 DEF RemoveRegion, DeleteRegion, TypedTables
  <2>2. TypedTables'
    BY <1>0, <1>3, <2>1 DEF RemoveRegion, TypedTables
  <2> QED
    BY <1>0, <1>3, <2>1, <2>2, StepLemma DEF RemoveRegion
<1>4. ASSUME NEW o \in Orgs, NEW s \in StripeSubs, Buy(o, s)
      PROVE  TypeOK' /\ Reached'
  <2>1. sub[o] # None /\ sub[o] \in Rows /\ sub[o].customer # None
    BY <1>0, <1>4 DEF Buy, GetSubscription, TypedTables
  <2>2. CreateCheckoutSession(o, sub[o].customer) \in [org : Orgs, customer : Orgs]
    BY <2>1 DEF CreateCheckoutSession, Rows
  <2>3. TypedTables' /\ \A t \in StripeSubs : sold[t] # None => sold'[t] # None
    BY <1>0, <1>4, <2>2 DEF Buy, TypedTables
  <2> QED
    BY <1>0, <1>4, <2>3, StepLemma DEF Buy
<1>5. CASE UNCHANGED vars
  <2>1. TypedTables'
    BY <1>0, <1>5 DEF vars, TypedTables
  <2> QED
    BY <1>0, <1>5, <2>1, StepLemma DEF vars
<1> QED
  BY <1>1, <1>2, <1>3, <1>4, <1>5 DEF Next

LEMMA ReachedAlways == Spec => [](TypeOK /\ Reached)
<1>1. Init => TypeOK /\ Reached
  BY InitLemma
<1>2. TypeOK /\ Reached /\ [Next]_vars => (TypeOK /\ Reached)'
  BY ReachedInductive
<1> QED
  BY <1>1, <1>2, PTL DEF Spec

\* Type correctness, of the tables and of what every request carries.
THEOREM TypeCorrect == Spec => []TypeOK
  BY ReachedAlways, PTL

\* However registrations race and fail, a subscription, a host or a region
\* hangs on no organisation that nobody can log in to (Register, auth.go).
THEOREM NoOrphans == Spec => []NoOrphanData
<1>1. TypeOK /\ Reached => NoOrphanData
  BY DEF Reached
<1> QED
  BY <1>1, ReachedAlways, PTL

----------------------------------------------------------------------------
(* The rows of the subscriptions. *)

\* The rows a step may leave behind: the one of before, one of a registration,
\* one of an event, or the one of before with another status.
Statuses == {"active", "trialing", "past_due", "canceled", ""}
Registered(o, row) == \E c \in {o, None} : row = Row(c, None, "active")
Sold(row) ==
    \E s \in StripeSubs, status \in Statuses :
        sold[s] # None /\ row = Row(sold[s].customer, s, status)
Restated(o, row) ==
    /\ sub[o] # None /\ sub[o].stripe \in StripeSubs
    /\ \E status \in Statuses : row = [sub[o] EXCEPT !.status = status]

LEMMA RowLemma ==
    ASSUME TypeOK, Reached, [Next]_vars, NEW o \in Orgs
    PROVE  sub'[o] = sub[o] \/ Registered(o, sub'[o]) \/ Sold(sub'[o]) \/ Restated(o, sub'[o])
<1> USE DEF tables, bounds, told, At
<1>0. /\ sub \in [Orgs -> Rows \cup {None}] /\ None \notin Orgs
      /\ \A r \in Requests : req[r] \in ReqRecords /\ Established(req[r])
  BY TypedLemma, Constants DEF TypedTables
<1>1. ASSUME NEW r \in Requests, Register(r)
      PROVE  sub'[o] = sub[o] \/ Registered(o, sub'[o])
  <2>1. CASE CreateSubscription(r)
    BY <1>0, <2>1 DEF CreateSubscription, Does, Registered
  <2>2. CASE LinkCustomer(r)
    BY <1>0, <2>2 DEF LinkCustomer, UpdateStripe, CreateCustomer, Registered
  <2>3. CASE \/ \E e \in Emails : RegisterLookup(r, e)
             \/ CreateOrg(r) \/ CreateUser(r) \/ DefaultOrgRegion(r)
    BY <2>3 DEF RegisterLookup, CreateOrg, CreateUser, DefaultOrgRegion
  <2> QED
    BY <1>1, <2>1, <2>2, <2>3 DEF Register
<1>2. ASSUME NEW r \in Requests, Limits(r)
      PROVE  sub'[o] = sub[o]
  BY <1>2 DEF Limits, HostSubscription, RegionSubscription, HostCount, CreateHost,
              RegionCount, AddOrgRegion
<1>3. ASSUME NEW r \in Requests, Webhook(r)
      PROVE  sub'[o] = sub[o] \/ Sold(sub'[o]) \/ Restated(o, sub'[o])
  <2>1. ASSUME NEW status \in Statuses, req[r].pc \in {"bind", "renew"}, Updates(r, status)
        PROVE  sub'[o] = sub[o] \/ Sold(sub'[o])
    <3>1. req[r].stripe \in StripeSubs /\ sold[req[r].stripe] # None
      BY <1>0, <2>1 DEF Established
    <3>2. \/ sub' = sub
          \/ UpdateStripe(req[r].org, Row(sold[req[r].stripe].customer, req[r].stripe, status))
      BY <2>1 DEF Updates
    <3>3. \/ sub' = sub
          \/ sub' = [sub EXCEPT ![req[r].org] =
                        Row(sold[req[r].stripe].customer, req[r].stripe, status)]
      BY <3>2 DEF UpdateStripe
    <3> QED
      BY <1>0, <3>1, <3>3 DEF Sold
  <2>2. CASE Bind(r)
    BY <2>1, <2>2 DEF Bind, Statuses
  <2>3. CASE Renew(r)
    BY <2>1, <2>3 DEF Renew, Statuses
  <2>4. ASSUME NEW s \in StripeSubs, StatusEvent(r, s)
        PROVE  sub'[o] = sub[o] \/ Restated(o, sub'[o])
    <3>1. PICK status \in Statuses : SetStatus(s, status)
      BY <2>4 DEF StatusEvent, Statuses
    <3>2. \/ sub'[o] = sub[o]
          \/ o \in Bound(s) /\ sub'[o] = [sub[o] EXCEPT !.status = status]
      BY <3>1 DEF SetStatus
    <3> QED
      BY <3>1, <3>2 DEF Bound, Restated
  <2>5. CASE \/ \E s \in StripeSubs : CheckoutCompleted(r, s) \/ InvoicePaid(r, s)
             \/ UpsertInvoice(r)
    BY <2>5 DEF CheckoutCompleted, InvoicePaid, UpsertInvoice
  <2> QED
    BY <1>3, <2>2, <2>3, <2>4, <2>5 DEF Webhook
<1>4. CASE \/ \E p \in Orgs : DeleteHost(p)
           \/ \E p \in Orgs, g \in Regions : RemoveRegion(p, g)
           \/ \E p \in Orgs, s \in StripeSubs : Buy(p, s)
           \/ UNCHANGED vars
  BY <1>4 DEF DeleteHost, RemoveRegion, Buy, vars
<1> QED
  BY <1>1, <1>2, <1>3, <1>4 DEF Next

\* What was sold stays sold, to the same customer.
LEMMA SoldLemma ==
    ASSUME TypeOK, Reached, [Next]_vars, NEW s \in StripeSubs, sold[s] # None
    PROVE  sold'[s] = sold[s]
<1> USE DEF tables, bounds, told
<1>0. sold \in [StripeSubs -> [org : Orgs, customer : Orgs] \cup {None}]
  BY TypedLemma DEF TypedTables
<1>1. ASSUME NEW r \in Requests, Register(r)
      PROVE  sold' = sold
  BY <1>1 DEF Register, RegisterLookup, CreateOrg, CreateUser, CreateSubscription,
              DefaultOrgRegion, LinkCustomer
<1>2. ASSUME NEW r \in Requests, Limits(r)
      PROVE  sold' = sold
  BY <1>2 DEF Limits, HostSubscription, RegionSubscription, HostCount, CreateHost,
              RegionCount, AddOrgRegion
<1>3. ASSUME NEW r \in Requests, Webhook(r)
      PROVE  sold' = sold
  BY <1>3 DEF Webhook, CheckoutCompleted, InvoicePaid, StatusEvent, Bind, Renew, UpsertInvoice
<1>4. CASE \/ \E o \in Orgs : DeleteHost(o)
           \/ \E o \in Orgs, g \in Regions : RemoveRegion(o, g)
           \/ UNCHANGED vars
  BY <1>4 DEF DeleteHost, RemoveRegion, vars
<1>5. ASSUME NEW o \in Orgs, NEW t \in StripeSubs, Buy(o, t)
      PROVE  sold'[s] = sold[s]
  BY <1>0, <1>5 DEF Buy
<1> QED
  BY <1>1, <1>2, <1>3, <1>4, <1>5 DEF Next

\* A row names only subscriptions that were sold.
Named == \A o \in Orgs :
    sub[o] # None /\ sub[o].stripe # None =>
        sub[o].stripe \in StripeSubs /\ sold[sub[o].stripe] # None

LEMMA RowInductive ==
    ASSUME TypeOK, Reached, RowConsistent, Named, [Next]_vars
    PROVE  RowConsistent' /\ Named'
<1> SUFFICES ASSUME NEW o \in Orgs, sub'[o] # None
             PROVE  /\ IF sub'[o].stripe = None
                       THEN sub'[o].status = "active" /\ sub'[o].customer \in {o, None}
                       ELSE /\ sub'[o].stripe \in StripeSubs /\ sold'[sub'[o].stripe] # None
                            /\ sub'[o].customer = sold'[sub'[o].stripe].customer
  BY DEF RowConsistent, Named
<1>0. /\ sub[o] \in Rows \cup {None} /\ None \notin StripeSubs
      /\ \A s \in StripeSubs : sold[s] # None => sold'[s] = sold[s]
  BY SoldLemma, TypedLemma, Constants DEF TypedTables
<1>1. sub[o] # None =>
        IF sub[o].stripe = None
        THEN sub[o].status = "active" /\ sub[o].customer \in {o, None}
        ELSE /\ sub[o].stripe \in StripeSubs /\ sold[sub[o].stripe] # None
             /\ sub[o].customer = sold[sub[o].stripe].customer
  BY DEF RowConsistent, Named
<1>2. CASE sub'[o] = sub[o]
  BY <1>0, <1>1, <1>2
<1>3. CASE Registered(o, sub'[o])
  BY <1>3 DEF Registered, Row
<1>4. CASE Sold(sub'[o])
  BY <1>0, <1>4 DEF Sold, Row
<1>5. CASE Restated(o, sub'[o])
  <2>1. /\ sub[o] # None /\ sub[o].stripe \in StripeSubs
        /\ sub'[o].stripe = sub[o].stripe /\ sub'[o].customer = sub[o].customer
    BY <1>0, <1>5 DEF Restated, Rows
  <2> QED
    BY <1>0, <1>1, <2>1
<1> QED
  BY <1>2, <1>3, <1>4, <1>5, RowLemma

\* A subscription row is consistent at any time: the events of webhook
\* handlers that overlap, fail, or come late and out of order never leave an
\* org shut out without a subscription, nor a row with the customer of one and
\* the subscription of another (UpdateSubscriptionStripe, billing.go).
THEOREM RowsConsistent == Spec => []RowConsistent
<1>1. Init => RowConsistent /\ Named
  BY DEF Init, RowConsistent, Named
<1>2. TypeOK /\ Reached /\ RowConsistent /\ Named /\ [Next]_vars => (RowConsistent /\ Named)'
  BY RowInductive
<1> QED
  BY <1>1, <1>2, ReachedAlways, PTL DEF Spec

----------------------------------------------------------------------------
(* The status a row shows. *)

Clear(s) == latest[s] \notin {None, "pending", "unclear"}

\* Rows that are no longer bound, or did not change, still show it.
LEMMA FewerLemma ==
    ASSUME LatestShows, NEW s \in StripeSubs, latest'[s] = latest[s],
           \A o \in Orgs : \/ sub'[o] = sub[o] \/ sub'[o] = None
                           \/ sub'[o].stripe # s
    PROVE  Clear(s)' => \A o \in Bound(s)' : sub'[o].status = latest'[s]
  BY DEF LatestShows, Clear, Bound

\* An UPDATE leaves its own subscription shown, or its status unclear.
LEMMA ShowLemma ==
    ASSUME TypeOK, Reached, LatestShows,
           NEW r \in Requests, req[r].pc \in {"bind", "renew"},
           NEW status \in Statuses, Updates(r, status)
    PROVE  LatestShows'
<1> DEFINE o == req[r].org
           s == req[r].stripe
           row == Row(sold[s].customer, s, status)
<1>0. /\ sub \in [Orgs -> Rows \cup {None}] /\ None \notin Orgs
      /\ latest \in [StripeSubs ->
           {None, "pending", "unclear", "active", "trialing", "past_due", "canceled", ""}]
      /\ o \in Orgs \cup {None} /\ s \in StripeSubs
  BY TypedLemma, Constants DEF TypedTables, ReqRecords, Established
<1>1. \A t \in StripeSubs \ {s} : latest'[t] = latest[t]
  BY <1>0 DEF Updates, Handled
<1>2. sub' = sub \/ (o \in Orgs /\ sub[o] # None /\ sub' = [sub EXCEPT ![o] = row])
  BY DEF Updates, UpdateStripe
<1>3. row.stripe = s /\ row.status = status
  BY DEF Row
<1>4. \/ latest'[s] = "unclear"
      \/ /\ o # None /\ Bound(s) \subseteq {o} /\ latest'[s] = status
         /\ UpdateStripe(o, row)
  BY <1>0 DEF Updates, Handled
<1> HIDE DEF o, s, row
<1>5. ASSUME NEW t \in StripeSubs, t # s
      PROVE  Clear(t)' => \A p \in Bound(t)' : sub'[p].status = latest'[t]
  <2>1. \A p \in Orgs : sub'[p] = sub[p] \/ sub'[p].stripe # t
    BY <1>0, <1>2, <1>3, <1>5
  <2> QED
    BY <1>1, <1>5, <2>1, FewerLemma
<1>6. CASE latest'[s] = "unclear"
  <2>1. ASSUME NEW t \in StripeSubs
        PROVE  Clear(t)' => \A p \in Bound(t)' : sub'[p].status = latest'[t]
    <3>1. CASE t = s
      BY <1>6, <3>1 DEF Clear
    <3> QED
      BY <1>5, <3>1
  <2> QED
    BY <2>1 DEF LatestShows, Clear
<1>7. CASE /\ o # None /\ Bound(s) \subseteq {o} /\ latest'[s] = status
           /\ UpdateStripe(o, row)
  <2>1. \A p \in Orgs : sub'[p] # None /\ sub'[p].stripe = s => p = o
    <3>1. ASSUME NEW p \in Orgs, sub'[p] # None, sub'[p].stripe = s, p # o
          PROVE  p \in Bound(s)
      <4>1. sub'[p] = sub[p]
        BY <1>0, <1>2, <3>1
      <4> QED
        BY <3>1, <4>1 DEF Bound
    <3> QED
      BY <1>7, <3>1
  <2>2. sub[o] # None => sub'[o] = row
    BY <1>0, <1>7 DEF UpdateStripe
  <2>3. sub'[o] # None => sub[o] # None
    BY <1>2
  <2>4. ASSUME NEW t \in StripeSubs
        PROVE  Clear(t)' => \A p \in Bound(t)' : sub'[p].status = latest'[t]
    <3>1. CASE t = s
      BY <1>3, <1>7, <2>1, <2>2, <2>3, <3>1 DEF Bound
    <3> QED
      BY <1>5, <3>1
  <2> QED
    BY <2>4 DEF LatestShows, Clear
<1> QED
  BY <1>4, <1>6, <1>7

LEMMA LatestInductive ==
    ASSUME TypeOK, Reached, LatestShows, [Next]_vars
    PROVE  LatestShows'
<1> USE DEF tables, bounds, told, At
<1>0. /\ sub \in [Orgs -> Rows \cup {None}] /\ None \notin StripeSubs
      /\ latest \in [StripeSubs ->
           {None, "pending", "unclear", "active", "trialing", "past_due", "canceled", ""}]
  BY TypedLemma, Constants DEF TypedTables
\* Steps that say nothing of a subscription bind no row.
<1>1. ASSUME latest' = latest,
             \A o \in Orgs : sub'[o] = sub[o] \/ sub'[o] = None \/ sub'[o].stripe = None
      PROVE  LatestShows'
  <2>1. ASSUME NEW s \in StripeSubs
        PROVE  Clear(s)' => \A o \in Bound(s)' : sub'[o].status = latest'[s]
    BY <1>0, <1>1, FewerLemma
  <2> QED
    BY <2>1 DEF LatestShows, Clear
<1>2. ASSUME NEW r \in Requests, Register(r)
      PROVE  LatestShows'
  <2>1. latest' = latest
    BY <1>2 DEF Register, RegisterLookup, CreateOrg, CreateUser, CreateSubscription,
                DefaultOrgRegion, LinkCustomer
  <2>2. ASSUME NEW o \in Orgs
        PROVE  sub'[o] = sub[o] \/ sub'[o].stripe = None
    <3>1. CASE CreateSubscription(r)
      <4>1. \/ sub' = sub
            \/ sub' = [sub EXCEPT ![req[r].org] = Row(None, None, "active")]
        BY <3>1 DEF CreateSubscription, Does
      <4>2. Row(None, None, "active").stripe = None
        BY DEF Row
      <4> QED
        BY <1>0, <4>1, <4>2
    <3>2. CASE LinkCustomer(r)
      <4>1. \/ sub' = sub
            \/ \E c \in CreateCustomer(req[r].org) :
                   sub' = [sub EXCEPT ![req[r].org] = Row(c, None, "active")]
        BY <3>2 DEF LinkCustomer, UpdateStripe
      <4>2. \A c : Row(c, None, "active").stripe = None
        BY DEF Row
      <4>3. sub' = sub \/ \E row : row.stripe = None /\ sub' = [sub EXCEPT ![req[r].org] = row]
        BY <4>1, <4>2
      <4> QED
        BY <1>0, <4>3
    <3>3. CASE \/ \E e \in Emails : RegisterLookup(r, e)
               \/ CreateOrg(r) \/ CreateUser(r) \/ DefaultOrgRegion(r)
      BY <3>3 DEF RegisterLookup, CreateOrg, CreateUser, DefaultOrgRegion
    <3> QED
      BY <1>2, <3>1, <3>2, <3>3 DEF Register
  <2> QED
    BY <1>1, <2>1, <2>2
<1>3. ASSUME NEW r \in Requests, Limits(r)
      PROVE  LatestShows'
  <2>1. UNCHANGED <<sub, latest>>
    BY <1>3 DEF Limits, HostSubscription, RegionSubscription, HostCount, CreateHost,
                RegionCount, AddOrgRegion
  <2> QED
    BY <1>1, <2>1
\* A subscription that an event is being handled of.
<1>4. ASSUME NEW s \in StripeSubs, NEW status \in {"pending", "unclear"},
             latest' = [latest EXCEPT ![s] = status], UNCHANGED sub
      PROVE  LatestShows'
  BY <1>0, <1>4 DEF LatestShows, Bound
<1>5. ASSUME NEW r \in Requests, NEW s \in StripeSubs,
             CheckoutCompleted(r, s) \/ InvoicePaid(r, s)
      PROVE  LatestShows'
  <2>1. UNCHANGED sub /\ Told(s, "pending")
    BY <1>5 DEF CheckoutCompleted, InvoicePaid
  <2>2. PICK status \in {"pending", "unclear"} : latest' = [latest EXCEPT ![s] = status]
    BY <2>1 DEF Told
  <2> QED
    BY <1>4, <2>1, <2>2
<1>6. ASSUME NEW r \in Requests, NEW s \in StripeSubs, StatusEvent(r, s)
      PROVE  LatestShows'
  <2>1. PICK status \in {"past_due", "canceled"} : SetStatus(s, status) /\ Told(s, status)
    BY <1>6 DEF StatusEvent
  <2>2. /\ \A o \in Bound(s) : sub'[o] = [sub[o] EXCEPT !.status = status]
        /\ \A o \in Orgs \ Bound(s) : sub'[o] = sub[o]
        /\ \A o \in Bound(s) : sub[o] \in Rows
    BY <1>0, <2>1 DEF SetStatus, Bound
  <2>3. \A o \in Bound(s) : sub'[o].stripe = s /\ sub'[o].status = status
    BY <2>2 DEF Bound, Rows
  <2>4. /\ latest'[s] \in {"unclear", status}
        /\ \A t \in StripeSubs \ {s} : latest'[t] = latest[t]
    BY <1>0, <2>1 DEF Told
  <2>5. ASSUME NEW t \in StripeSubs
        PROVE  Clear(t)' => \A o \in Bound(t)' : sub'[o].status = latest'[t]
    <3>1. CASE t = s
      <4>1. \A o \in Bound(s)' : o \in Bound(s)
        BY <2>2 DEF Bound
      <4> QED
        BY <2>3, <2>4, <3>1, <4>1 DEF Clear
    <3>2. CASE t # s
      <4>1. \A o \in Orgs : sub'[o] = sub[o] \/ sub'[o].stripe # t
        BY <2>2, <2>3, <3>2
      <4> QED
        BY <2>4, <3>2, <4>1, FewerLemma
    <3> QED
      BY <3>1, <3>2
  <2> QED
    BY <2>5 DEF LatestShows, Clear
<1>7. ASSUME NEW r \in Requests, Bind(r)
      PROVE  LatestShows'
  <2>1. ASSUME NEW status \in {"active", "trialing", ""}, Updates(r, status)
        PROVE  LatestShows'
    BY <1>7, <2>1, ShowLemma DEF Bind, Statuses
  <2>2. CASE UNCHANGED sub /\ NoFault /\ Handled(req[r].stripe, req[r].org, "unclear")
    <3>1. req[r].stripe \in StripeSubs
      BY <1>7, TypedLemma DEF Bind, Established
    <3> QED
      BY <1>4, <2>2, <3>1 DEF Handled
  <2> QED
    BY <1>7, <2>1, <2>2 DEF Bind
<1>8. ASSUME NEW r \in Requests, Renew(r)
      PROVE  LatestShows'
  BY <1>8, ShowLemma DEF Renew, Statuses
<1>9. ASSUME NEW r \in Requests, UpsertInvoice(r)
      PROVE  LatestShows'
  BY <1>1, <1>9 DEF UpsertInvoice
<1>10. CASE \/ \E o \in Orgs : DeleteHost(o)
            \/ \E o \in Orgs, g \in Regions : RemoveRegion(o, g)
            \/ \E o \in Orgs, s \in StripeSubs : Buy(o, s)
            \/ UNCHANGED vars
  <2>1. UNCHANGED <<sub, latest>>
    BY <1>10 DEF DeleteHost, RemoveRegion, Buy, vars
  <2> QED
    BY <1>1, <2>1
<1> QED
  BY <1>2, <1>3, <1>5, <1>6, <1>7, <1>8, <1>9, <1>10 DEF Next, Webhook

\* Where the events of a Stripe subscription do not overlap and none of its
\* updates failed, every row bound to it shows the status of the event that
\* was handled last (Webhook, billing.go).
THEOREM LatestIsShown == Spec => []LatestShows
<1>1. Init => LatestShows
  BY DEF Init, LatestShows
<1>2. TypeOK /\ Reached /\ LatestShows /\ [Next]_vars => LatestShows'
  BY LatestInductive
<1> QED
  BY <1>1, <1>2, ReachedAlways, PTL DEF Spec

----------------------------------------------------------------------------
(* Counting requests. *)

\* The requests of organisation o at one of some statements.
IsAt(q, pcs, o) == q.pc \in pcs /\ q.org = o
AtWith(pcs, o) == {r \in Requests : IsAt(req[r], pcs, o)}

\* Request r becomes q.
Becomes(r, q) == req' = [req EXCEPT ![r] = q]

\* Sets that differ in one element.
LEMMA DifferLemma ==
    ASSUME NEW A, NEW B, NEW x, IsFiniteSet(A), A \ {x} = B \ {x}
    PROVE  /\ Cardinality(A) \in Nat /\ Cardinality(B) \in Nat
           /\ (x \in A <=> x \in B) => Cardinality(B) = Cardinality(A)
           /\ x \notin A /\ x \in B => Cardinality(B) = Cardinality(A) + 1
           /\ x \in A /\ x \notin B => Cardinality(B) = Cardinality(A) - 1
<1>1. CASE x \in A <=> x \in B
  <2>1. A = B
    BY <1>1
  <2> QED
    BY <1>1, <2>1, FS_CardinalityType
<1>2. CASE x \notin A /\ x \in B
  <2>1. B = A \cup {x}
    BY <1>2
  <2> QED
    BY <1>2, <2>1, FS_AddElement, FS_CardinalityType
<1>3. CASE x \in A /\ x \notin B
  <2>1. B = A \ {x}
    BY <1>3
  <2> QED
    BY <1>3, <2>1, FS_RemoveElement, FS_CardinalityType
<1> QED
  BY <1>1, <1>2, <1>3

\* How many there are changes with the one request that moves.
LEMMA AtLemma ==
    ASSUME req \in [Requests -> ReqRecords], NEW r \in Requests, NEW q \in ReqRecords,
           Becomes(r, q), NEW pcs, NEW o
    PROVE  /\ Cardinality(AtWith(pcs, o)) \in Nat
           /\ Cardinality(AtWith(pcs, o)') \in 0..Cardinality(Requests)
           /\ (IsAt(q, pcs, o) <=> IsAt(req[r], pcs, o)) =>
                  Cardinality(AtWith(pcs, o)') = Cardinality(AtWith(pcs, o))
           /\ IsAt(q, pcs, o) /\ ~IsAt(req[r], pcs, o) =>
                  Cardinality(AtWith(pcs, o)') = Cardinality(AtWith(pcs, o)) + 1
           /\ ~IsAt(q, pcs, o) /\ IsAt(req[r], pcs, o) =>
                  Cardinality(AtWith(pcs, o)') = Cardinality(AtWith(pcs, o)) - 1
<1>1. \A p \in Requests : req'[p] = IF p = r THEN q ELSE req[p]
  BY DEF Becomes
<1>2. PICK A : A = AtWith(pcs, o)
  OBVIOUS
<1>3. PICK B : B = AtWith(pcs, o)'
  OBVIOUS
<1>4. A \subseteq Requests /\ B \subseteq Requests
  BY <1>2, <1>3 DEF AtWith
<1>5. /\ r \in A <=> IsAt(req[r], pcs, o)
      /\ r \in B <=> IsAt(q, pcs, o)
      /\ A \ {r} = B \ {r}
  BY <1>1, <1>2, <1>3 DEF AtWith
<1>6. IsFiniteSet(A) /\ Cardinality(B) <= Cardinality(Requests) /\ Cardinality(Requests) \in Nat
  BY <1>4, Constants, FS_Subset, FS_CardinalityType
<1>7. /\ Cardinality(A) \in Nat /\ Cardinality(B) \in Nat
      /\ (r \in A <=> r \in B) => Cardinality(B) = Cardinality(A)
      /\ r \notin A /\ r \in B => Cardinality(B) = Cardinality(A) + 1
      /\ r \in A /\ r \notin B => Cardinality(B) = Cardinality(A) - 1
  BY <1>5, <1>6, DifferLemma
<1> QED
  BY <1>2, <1>3, <1>5, <1>6, <1>7

LEMMA AtSame ==
    ASSUME UNCHANGED req, NEW pcs, NEW o
    PROVE  AtWith(pcs, o)' = AtWith(pcs, o)
  BY DEF AtWith

LEMMA AtFinite ==
    ASSUME NEW pcs, NEW o
    PROVE  Cardinality(AtWith(pcs, o)) \in Nat /\ Cardinality(Requests) \in Nat
  BY Constants, FS_Subset, FS_CardinalityType DEF AtWith

\* How requests move, by the group of their handler.
LEMMA RegisterMoves ==
    ASSUME TypeOK, Reached, NEW r \in Requests, Register(r)
    PROVE  /\ \E q \in ReqRecords :
                 /\ req' = [req EXCEPT ![r] = q]
                 /\ \/ q = Idle
                    \/ req[r].pc = "idle" /\ q.pc = "org"
                    \/ CreateOrg(r) /\ req[r].pc = "org" /\ q.pc = "user" /\ q.org = made + 1
                    \/ /\ req[r].pc \in {"user", "subscription", "region"}
                       /\ q.pc \in {"subscription", "region", "customer"} /\ q.org = req[r].org
           /\ UNCHANGED <<hosts, invoices, unchecked, paid>>
<1> USE DEF tables, bounds, told, At, Arrives
<1>0. req \in [Requests -> ReqRecords] /\ req[r] \in ReqRecords /\ made \in 0..MaxOrgs
  BY TypedLemma
<1>1. ASSUME NEW e \in Emails, RegisterLookup(r, e)
      PROVE  \E q \in ReqRecords :
               /\ req' = [req EXCEPT ![r] = q]
               /\ req[r].pc = "idle" /\ q.pc = "org"
  <2>1. PICK q \in ReqRecords : q = [Idle EXCEPT !.pc = "org", !.email = e]
    BY DEF Idle, ReqRecords, PCs
  <2>2. q.pc = "org" /\ req[r].pc = "idle"
    BY <1>1, <2>1 DEF RegisterLookup, Idle
  <2> QED
    BY <1>1, <2>1, <2>2 DEF RegisterLookup
<1>2. ASSUME Answers(r)
      PROVE  \E q \in ReqRecords : req' = [req EXCEPT ![r] = q] /\ q = Idle
  BY <1>0, <1>2, MoveLemma
<1>3. ASSUME NEW pc \in PCs, Goes(r, pc)
      PROVE  \E q \in ReqRecords :
               /\ req' = [req EXCEPT ![r] = q]
               /\ q.pc = pc /\ q.org = req[r].org
  <2>1. PICK q \in ReqRecords : q = [req[r] EXCEPT !.pc = pc]
    BY <1>0, MoveLemma
  <2>2. req' = [req EXCEPT ![r] = q]
    BY <1>0, <1>3, <2>1, MoveLemma
  <2>3. q.pc = pc /\ q.org = req[r].org
    BY <1>0, <2>1 DEF ReqRecords
  <2> QED
    BY <2>2, <2>3
<1>4. ASSUME CreateOrg(r), ~Answers(r)
      PROVE  \E q \in ReqRecords :
               /\ req' = [req EXCEPT ![r] = q]
               /\ req[r].pc = "org" /\ q.pc = "user" /\ q.org = made + 1
  <2>1. /\ made < MaxOrgs /\ req[r].pc = "org"
        /\ req' = [req EXCEPT ![r] = [@ EXCEPT !.pc = "user", !.org = made + 1]]
    BY <1>4 DEF CreateOrg, InsertOrg
  <2>2. made + 1 \in Orgs
    BY <1>0, <2>1, Constants
  <2>3. PICK q \in ReqRecords : q = [req[r] EXCEPT !.pc = "user", !.org = made + 1]
    BY <1>0, <2>2 DEF ReqRecords, PCs
  <2>4. q.pc = "user" /\ q.org = made + 1
    BY <1>0, <2>3 DEF ReqRecords
  <2>5. req' = [req EXCEPT ![r] = q]
    BY <1>0, <2>1, <2>3
  <2> QED
    BY <2>1, <2>4, <2>5
<1>5. UNCHANGED <<hosts, invoices, unchecked, paid>>
  BY DEF Register, RegisterLookup, CreateOrg, CreateUser, CreateSubscription,
         DefaultOrgRegion, LinkCustomer
<1>6. \/ \E e \in Emails : RegisterLookup(r, e)
      \/ Answers(r)
      \/ CreateOrg(r) /\ ~Answers(r)
      \/ \E pc \in {"subscription", "region", "customer"} :
           req[r].pc \in {"user", "subscription", "region"} /\ Goes(r, pc)
  BY DEF Register, CreateUser, CreateSubscription, DefaultOrgRegion, LinkCustomer
<1> QED
  BY <1>1, <1>2, <1>3, <1>4, <1>5, <1>6 DEF PCs

LEMMA LimitsMoves ==
    ASSUME TypeOK, Reached, NEW r \in Requests, Limits(r)
    PROVE  /\ \E q \in ReqRecords :
                 /\ req' = [req EXCEPT ![r] = q]
                 /\ \/ q = Idle
                    \/ req[r].pc = "idle" /\ q.pc \in {"hosts", "host", "regions"}
                    \/ req[r].pc = "hosts" /\ q.pc = "host" /\ q.org = req[r].org
                    \/ req[r].pc = "regions" /\ q.pc = "addRegion" /\ q.org = req[r].org
           /\ UNCHANGED <<invoices, paid>>
<1> USE DEF tables, bounds, told, At, Arrives
<1>0. req \in [Requests -> ReqRecords] /\ req[r] \in ReqRecords
  BY TypedLemma
<1>1. ASSUME Answers(r)
      PROVE  \E q \in ReqRecords : req' = [req EXCEPT ![r] = q] /\ q = Idle
  BY <1>0, <1>1, MoveLemma
<1>2. ASSUME NEW pc \in {"host", "addRegion"}, Goes(r, pc)
      PROVE  \E q \in ReqRecords :
               /\ req' = [req EXCEPT ![r] = q]
               /\ q.pc = pc /\ q.org = req[r].org
  <2>0. pc \in PCs
    BY DEF PCs
  <2>1. PICK q \in ReqRecords : q = [req[r] EXCEPT !.pc = pc]
    BY <1>0, <2>0, MoveLemma
  <2>2. req' = [req EXCEPT ![r] = q]
    BY <1>0, <1>2, <2>0, <2>1, MoveLemma
  <2>3. q.pc = pc /\ q.org = req[r].org
    BY <1>0, <2>1 DEF ReqRecords
  <2> QED
    BY <2>2, <2>3
<1>3. UNCHANGED <<invoices, paid>>
  BY DEF Limits, HostSubscription, RegionSubscription, HostCount, CreateHost,
         RegionCount, AddOrgRegion
<1>4. ASSUME NEW o \in Orgs, HostSubscription(r, o)
      PROVE  \E q \in ReqRecords :
               /\ req' = [req EXCEPT ![r] = q]
               /\ req[r].pc = "idle" /\ q.pc \in {"hosts", "host", "regions"}
  <2>1. PICK pc \in {"hosts", "host"} :
          req[r] = Idle /\ req' = [req EXCEPT ![r] = [Idle EXCEPT !.pc = pc, !.org = o]]
    BY <1>4 DEF HostSubscription
  <2>2. PICK q \in ReqRecords : q = [Idle EXCEPT !.pc = pc, !.org = o]
    BY DEF Idle, ReqRecords, PCs
  <2>3. q.pc = pc /\ req[r].pc = "idle"
    BY <2>1, <2>2 DEF Idle
  <2> QED
    BY <2>1, <2>2, <2>3
<1>5. ASSUME NEW o \in Orgs, NEW g \in Regions, RegionSubscription(r, o, g)
      PROVE  \E q \in ReqRecords :
               /\ req' = [req EXCEPT ![r] = q]
               /\ req[r].pc = "idle" /\ q.pc \in {"hosts", "host", "regions"}
  <2>1. /\ req[r] = Idle
        /\ req' = [req EXCEPT ![r] = [Idle EXCEPT !.pc = "regions", !.org = o, !.region = g]]
    BY <1>5 DEF RegionSubscription
  <2>2. PICK q \in ReqRecords : q = [Idle EXCEPT !.pc = "regions", !.org = o, !.region = g]
    BY DEF Idle, ReqRecords, PCs
  <2>3. q.pc = "regions" /\ req[r].pc = "idle"
    BY <2>1, <2>2 DEF Idle
  <2> QED
    BY <2>1, <2>2, <2>3
<1>6. \/ \E o \in Orgs : HostSubscription(r, o)
      \/ \E o \in Orgs, g \in Regions : RegionSubscription(r, o, g)
      \/ Answers(r)
      \/ req[r].pc = "hosts" /\ Goes(r, "host")
      \/ req[r].pc = "regions" /\ Goes(r, "addRegion")
  BY DEF Limits, HostCount, CreateHost, RegionCount, AddOrgRegion
<1> QED
  BY <1>1, <1>2, <1>3, <1>4, <1>5, <1>6

LEMMA WebhookMoves ==
    ASSUME TypeOK, Reached, NEW r \in Requests, Webhook(r)
    PROVE  /\ \/ UNCHANGED req
              \/ \E q \in ReqRecords :
                   /\ req' = [req EXCEPT ![r] = q]
                   /\ \/ q = Idle
                      \/ req[r].pc = "idle" /\ q.pc \in {"bind", "renew"}
                      \/ req[r].pc = "renew" /\ q.pc = "invoice" /\ q.org = req[r].org
           /\ UNCHANGED <<hosts, regions, unchecked>>
<1> USE DEF tables, bounds, told, At, Arrives
<1>0. req \in [Requests -> ReqRecords] /\ req[r] \in ReqRecords
  BY TypedLemma
<1>1. ASSUME NEW s \in StripeSubs, CheckoutCompleted(r, s) \/ InvoicePaid(r, s)
      PROVE  \E q \in ReqRecords :
               /\ req' = [req EXCEPT ![r] = q]
               /\ req[r].pc = "idle" /\ q.pc \in {"bind", "renew"}
  <2>1. PICK o \in Orgs \cup {None}, pc \in {"bind", "renew"} :
          req' = [req EXCEPT ![r] = [Idle EXCEPT !.pc = pc, !.org = o, !.stripe = s]]
    BY <1>1 DEF CheckoutCompleted, InvoicePaid
  <2>2. PICK q \in ReqRecords : q = [Idle EXCEPT !.pc = pc, !.org = o, !.stripe = s]
    BY DEF Idle, ReqRecords, PCs
  <2>3. req[r] = Idle
    BY <1>1 DEF CheckoutCompleted, InvoicePaid, Event
  <2>4. q.pc = pc /\ req[r].pc = "idle"
    BY <2>2, <2>3 DEF Idle
  <2> QED
    BY <2>1, <2>2, <2>4
<1>2. ASSUME Answers(r)
      PROVE  \E q \in ReqRecords : req' = [req EXCEPT ![r] = q] /\ q = Idle
  BY <1>0, <1>2, MoveLemma
<1>3. ASSUME Renew(r)
      PROVE  \E q \in ReqRecords :
               /\ req' = [req EXCEPT ![r] = q]
               /\ req[r].pc = "renew" /\ q.pc = "invoice" /\ q.org = req[r].org
  <2>1. PICK q \in ReqRecords : q = [req[r] EXCEPT !.pc = "invoice"]
    BY <1>0, MoveLemma DEF PCs
  <2>2. req' = [req EXCEPT ![r] = q]
    BY <1>0, <1>3, <2>1, MoveLemma DEF Renew, PCs
  <2>3. q.pc = "invoice" /\ q.org = req[r].org /\ req[r].pc = "renew"
    BY <1>0, <1>3, <2>1 DEF Renew, ReqRecords
  <2> QED
    BY <2>2, <2>3
<1>4. UNCHANGED <<hosts, regions, unchecked>>
  BY DEF Webhook, CheckoutCompleted, InvoicePaid, StatusEvent, Bind, Renew, UpsertInvoice
<1>5. \/ \E s \in StripeSubs : CheckoutCompleted(r, s) \/ InvoicePaid(r, s)
      \/ UNCHANGED req \/ Answers(r) \/ Renew(r)
  BY DEF Webhook, StatusEvent, Bind, UpsertInvoice
<1> QED
  BY <1>1, <1>2, <1>3, <1>4, <1>5

----------------------------------------------------------------------------
(* The plan's limit on hosts. *)

\* A host that is being created counts as if it existed.
Placing(o) == Cardinality(AtWith({"host"}, o))
Placed ==
    \A o \in Orgs :
        hosts[o] + Placing(o) <= HostLimit - 1 + Cardinality(Requests) + unchecked[o]

LEMMA PlacedInductive ==
    ASSUME TypeOK, Reached, Placed, [Next]_vars
    PROVE  Placed'
<1> USE DEF tables, bounds, told, At
<1> SUFFICES ASSUME NEW o \in Orgs
             PROVE  (hosts[o] + Placing(o) <= HostLimit - 1 + Cardinality(Requests) + unchecked[o])'
  BY DEF Placed
<1>0. /\ hosts \in [Orgs -> Nat] /\ unchecked \in [Orgs -> Nat]
      /\ req \in [Requests -> ReqRecords]
      /\ HostLimit \in Nat \ {0} /\ None \notin Orgs /\ Cardinality(Requests) \in Nat
  BY TypedLemma, Constants, AtFinite DEF TypedTables
<1>1. /\ hosts[o] \in Nat /\ unchecked[o] \in Nat /\ Placing(o) \in Nat
      /\ hosts[o] + Placing(o) <= HostLimit - 1 + Cardinality(Requests) + unchecked[o]
  BY <1>0, AtFinite DEF Placed, Placing
\* What a step of a request does to the number that is bounded.
<1>2. ASSUME NEW r \in Requests, NEW q \in ReqRecords, req' = [req EXCEPT ![r] = q]
      PROVE  /\ Placing(o)' \in 0..Cardinality(Requests)
             /\ Placing(o)' = Placing(o)
                    + (IF q.pc = "host" /\ q.org = o THEN 1 ELSE 0)
                    - (IF req[r].pc = "host" /\ req[r].org = o THEN 1 ELSE 0)
  <2>1. PICK pcs : pcs = {"host"}
    OBVIOUS
  <2>2. /\ Cardinality(AtWith(pcs, o)') \in 0..Cardinality(Requests)
        /\ (IsAt(q, pcs, o) <=> IsAt(req[r], pcs, o)) =>
               Cardinality(AtWith(pcs, o)') = Cardinality(AtWith(pcs, o))
        /\ IsAt(q, pcs, o) /\ ~IsAt(req[r], pcs, o) =>
               Cardinality(AtWith(pcs, o)') = Cardinality(AtWith(pcs, o)) + 1
        /\ ~IsAt(q, pcs, o) /\ IsAt(req[r], pcs, o) =>
               Cardinality(AtWith(pcs, o)') = Cardinality(AtWith(pcs, o)) - 1
    <3>1. Becomes(r, q)
      BY <1>2 DEF Becomes
    <3> QED
      BY <1>0, <3>1, AtLemma
  <2>3. /\ Placing(o) = Cardinality(AtWith(pcs, o))
        /\ Placing(o)' = Cardinality(AtWith(pcs, o)')
    BY <2>1 DEF Placing
  <2>4. /\ IsAt(q, pcs, o) <=> q.pc = "host" /\ q.org = o
        /\ IsAt(req[r], pcs, o) <=> req[r].pc = "host" /\ req[r].org = o
    BY <2>1 DEF IsAt
  <2> QED
    BY <1>1, <2>2, <2>3, <2>4
<1>3. ASSUME NEW r \in Requests, NEW q \in ReqRecords, req' = [req EXCEPT ![r] = q],
             q.pc # "host", UNCHANGED <<hosts, unchecked>>
      PROVE  hosts'[o] + Placing(o)' <= HostLimit - 1 + Cardinality(Requests) + unchecked'[o]
  <2>1. Placing(o)' \in Nat /\ Placing(o)' <= Placing(o)
    <3>1. /\ Placing(o)' \in 0..Cardinality(Requests)
          /\ Placing(o)' = Placing(o) + 0
                 - (IF req[r].pc = "host" /\ req[r].org = o THEN 1 ELSE 0)
      BY <1>2, <1>3
    <3> QED
      BY <1>0, <1>1, <3>1
  <2> QED
    BY <1>0, <1>1, <1>3, <2>1
<1>4. ASSUME UNCHANGED <<req, unchecked>>, hosts'[o] \in Nat, hosts'[o] <= hosts[o]
      PROVE  hosts'[o] + Placing(o)' <= HostLimit - 1 + Cardinality(Requests) + unchecked'[o]
  <2>1. Placing(o)' = Placing(o)
    BY <1>4, AtSame DEF Placing
  <2> QED
    BY <1>0, <1>1, <1>4, <2>1
<1>5. ASSUME NEW r \in Requests, Register(r)
      PROVE  hosts'[o] + Placing(o)' <= HostLimit - 1 + Cardinality(Requests) + unchecked'[o]
  BY <1>3, <1>5, RegisterMoves DEF Idle
<1>6. ASSUME NEW r \in Requests, Webhook(r)
      PROVE  hosts'[o] + Placing(o)' <= HostLimit - 1 + Cardinality(Requests) + unchecked'[o]
  <2>1. CASE UNCHANGED <<req, hosts, unchecked>>
    BY <1>1, <1>4, <2>1
  <2> QED
    BY <1>3, <1>6, <2>1, WebhookMoves DEF Idle
<1>7. ASSUME NEW r \in Requests, Limits(r)
      PROVE  hosts'[o] + Placing(o)' <= HostLimit - 1 + Cardinality(Requests) + unchecked'[o]
  <2>1. PICK q \in ReqRecords :
          /\ req' = [req EXCEPT ![r] = q]
          /\ \/ q = Idle
             \/ req[r].pc = "idle" /\ q.pc \in {"hosts", "host", "regions"}
             \/ req[r].pc = "hosts" /\ q.pc = "host" /\ q.org = req[r].org
             \/ req[r].pc = "regions" /\ q.pc = "addRegion" /\ q.org = req[r].org
    BY <1>7, LimitsMoves
  <2>2. /\ Placing(o)' \in 0..Cardinality(Requests)
        /\ Placing(o)' = Placing(o)
               + (IF q.pc = "host" /\ q.org = o THEN 1 ELSE 0)
               - (IF req[r].pc = "host" /\ req[r].org = o THEN 1 ELSE 0)
    BY <1>2, <2>1
  <2>3. req'[r] = q
    BY <1>0, <2>1
  \* Without a limit to check, the creation is let through and counted.
  <2>4. ASSUME NEW p \in Orgs, HostSubscription(r, p)
        PROVE  hosts'[o] + Placing(o)' <= HostLimit - 1 + Cardinality(Requests) + unchecked'[o]
    <3>1. hosts' = hosts
      BY <2>4 DEF HostSubscription
    <3>2. CASE /\ req' = [req EXCEPT ![r] = [Idle EXCEPT !.pc = "hosts", !.org = p]]
               /\ UNCHANGED unchecked
      <4>1. q.pc = "hosts"
        BY <1>0, <2>3, <3>2 DEF Idle
      <4> QED
        BY <1>3, <2>1, <3>1, <3>2, <4>1
    <3>3. CASE /\ req' = [req EXCEPT ![r] = [Idle EXCEPT !.pc = "host", !.org = p]]
               /\ unchecked' = [unchecked EXCEPT ![p] = @ + 1]
      <4>1. q.pc = "host" /\ q.org = p /\ req[r].pc # "host"
        <5>1. q = [Idle EXCEPT !.pc = "host", !.org = p]
          BY <1>0, <2>3, <3>3
        <5>2. req[r] = Idle
          BY <2>4 DEF HostSubscription, Arrives
        <5> QED
          BY <5>1, <5>2 DEF Idle
      <4>2. Placing(o)' = Placing(o) + (IF p = o THEN 1 ELSE 0)
        BY <1>1, <2>2, <4>1
      <4>3. unchecked'[o] = unchecked[o] + (IF p = o THEN 1 ELSE 0)
        BY <1>0, <3>3
      <4> QED
        BY <1>0, <1>1, <3>1, <4>2, <4>3
    <3> QED
      BY <2>4, <3>2, <3>3 DEF HostSubscription
  \* Where the count was read, the org had a place left.
  <2>5. CASE HostCount(r)
    <3>1. hosts' = hosts /\ req[r].pc = "hosts"
      BY <2>5 DEF HostCount
    <3>2. PICK plan \in BOOLEAN, count \in BOOLEAN :
            IF LimitReached(CountActiveHosts(req[r].org, count), GetPlan(plan))
            THEN Answers(r) /\ UNCHANGED unchecked
            ELSE /\ Goes(r, "host")
                 /\ unchecked' = [unchecked EXCEPT ![req[r].org] = @ + IF count THEN 0 ELSE 1]
      BY <2>5 DEF HostCount
    <3>3. CASE Answers(r) /\ UNCHANGED unchecked
      <4>1. q.pc # "host"
        BY <1>0, <2>3, <3>3 DEF Answers, Idle
      <4> QED
        BY <1>3, <2>1, <3>1, <3>3, <4>1
    <3>4. CASE /\ ~LimitReached(CountActiveHosts(req[r].org, count), GetPlan(plan))
               /\ Goes(r, "host")
               /\ unchecked' = [unchecked EXCEPT ![req[r].org] = @ + IF count THEN 0 ELSE 1]
      <4>1. q.pc = "host" /\ q.org = req[r].org
        <5>1. req[r] \in ReqRecords
          BY <1>0
        <5>2. q = [req[r] EXCEPT !.pc = "host"]
          BY <1>0, <2>3, <3>4 DEF Goes
        <5> QED
          BY <5>1, <5>2 DEF ReqRecords
      <4>2. CASE req[r].org # o
        <5>1. Placing(o)' = Placing(o) /\ unchecked'[o] = unchecked[o]
          BY <1>0, <1>1, <2>2, <3>1, <3>4, <4>1, <4>2
        <5> QED
          BY <1>1, <3>1, <5>1
      <4>3. CASE req[r].org = o /\ ~count
        <5>1. unchecked'[o] = unchecked[o] + 1
          BY <1>0, <3>4, <4>3
        <5>2. Placing(o)' = Placing(o) + 1
          BY <1>1, <2>2, <3>1, <4>1, <4>3
        <5> QED
          BY <1>0, <1>1, <3>1, <5>1, <5>2
      <4>4. CASE req[r].org = o /\ count
        <5>1. hosts[o] < HostLimit
          BY <1>0, <1>1, <3>4, <4>4 DEF LimitReached, CountActiveHosts, GetPlan
        <5>2. unchecked'[o] = unchecked[o]
          <6>1. unchecked' = [unchecked EXCEPT ![o] = @ + 0]
            BY <3>4, <4>4
          <6> QED
            BY <1>0, <6>1
        <5> QED
          BY <1>0, <1>1, <2>2, <3>1, <5>1, <5>2
      <4> QED
        BY <4>2, <4>3, <4>4
    <3> QED
      BY <3>2, <3>3, <3>4
  <2>6. CASE CreateHost(r)
    <3>1. /\ unchecked' = unchecked /\ req[r].pc = "host" /\ Answers(r)
          /\ hosts' = hosts \/ hosts' = [hosts EXCEPT ![req[r].org] = @ + 1]
      BY <2>6 DEF CreateHost, Does, InsertHost
    <3>2. q.pc # "host"
      BY <1>0, <2>3, <3>1 DEF Answers, Idle
    <3>3. Placing(o)' = Placing(o) - (IF req[r].org = o THEN 1 ELSE 0)
      BY <1>1, <2>2, <3>1, <3>2
    <3>4. hosts'[o] \in Nat /\ hosts'[o] <= hosts[o] + (IF req[r].org = o THEN 1 ELSE 0)
      BY <1>0, <1>1, <3>1
    <3> QED
      BY <1>0, <1>1, <3>1, <3>3, <3>4
  <2>7. CASE \/ \E p \in Orgs, g \in Regions : RegionSubscription(r, p, g)
             \/ RegionCount(r) \/ AddOrgRegion(r)
    <3>1. UNCHANGED <<hosts, unchecked>>
      BY <2>7 DEF RegionSubscription, RegionCount, AddOrgRegion
    <3>2. req[r].pc # "hosts"
      <4>1. req[r] = Idle \/ req[r].pc \in {"regions", "addRegion"}
        BY <2>7 DEF RegionSubscription, RegionCount, AddOrgRegion, Arrives
      <4> QED
        BY <4>1 DEF Idle
    <3>3. q.pc # "host"
      <4>1. CASE \E p \in Orgs, g \in Regions : RegionSubscription(r, p, g)
        <5>1. PICK p \in Orgs, g \in Regions : RegionSubscription(r, p, g)
          BY <4>1
        <5>2. req' = [req EXCEPT ![r] = [Idle EXCEPT !.pc = "regions", !.org = p, !.region = g]]
          BY <5>1 DEF RegionSubscription
        <5> QED
          BY <1>0, <2>3, <5>2 DEF Idle
      <4>2. CASE RegionCount(r) \/ AddOrgRegion(r)
        BY <2>1, <3>2, <4>2 DEF RegionCount, AddOrgRegion, Idle
      <4> QED
        BY <2>7, <4>1, <4>2
    <3> QED
      BY <1>3, <2>1, <3>1, <3>3
  <2> QED
    BY <1>7, <2>4, <2>5, <2>6, <2>7 DEF Limits
<1>8. ASSUME NEW p \in Orgs, DeleteHost(p)
      PROVE  hosts'[o] + Placing(o)' <= HostLimit - 1 + Cardinality(Requests) + unchecked'[o]
  <2>1. hosts'[o] \in Nat /\ hosts'[o] <= hosts[o]
    BY <1>0, <1>8 DEF DeleteHost
  <2> QED
    BY <1>4, <1>8, <2>1 DEF DeleteHost
<1>9. CASE \/ \E p \in Orgs, g \in Regions : RemoveRegion(p, g)
           \/ \E p \in Orgs, s \in StripeSubs : Buy(p, s)
           \/ UNCHANGED vars
  <2>1. UNCHANGED <<req, unchecked, hosts>>
    BY <1>9 DEF RemoveRegion, Buy, vars
  <2> QED
    BY <1>1, <1>4, <2>1
<1> QED
  BY <1>5, <1>6, <1>7, <1>8, <1>9 DEF Next

\* The host limit is read before the insert and not with it.  Whatever the
\* requests in flight do, an org has at most as many hosts beyond its plan as
\* there may be other requests, and creations that found no limit to check
\* (HostHandler.Create, host.go).
THEOREM HostsAreBounded == Spec => []HostsBounded
<1>1. Init => Placed
  <2> SUFFICES ASSUME Init, NEW o \in Orgs
               PROVE  hosts[o] + Placing(o) <= HostLimit - 1 + Cardinality(Requests) + unchecked[o]
    BY DEF Placed
  <2>1. AtWith({"host"}, o) = {}
    BY DEF Init, Idle, AtWith, IsAt
  <2>2. Placing(o) = 0
    BY <2>1, FS_EmptySet DEF Placing
  <2>3. Cardinality(Requests) \in Nat /\ HostLimit \in Nat \ {0}
    BY AtFinite, Constants
  <2>4. hosts[o] = 0 /\ unchecked[o] = 0
    BY DEF Init
  <2> QED
    BY <2>2, <2>3, <2>4
<1>2. TypeOK /\ Reached /\ Placed /\ [Next]_vars => Placed'
  BY PlacedInductive
<1>3. TypeOK /\ Reached /\ Placed => HostsBounded
  <2> SUFFICES ASSUME TypeOK, Reached, Placed, NEW o \in Orgs
               PROVE  hosts[o] <= HostLimit - 1 + Cardinality(Requests) + unchecked[o]
    BY DEF HostsBounded
  <2>1. hosts[o] \in Nat /\ unchecked[o] \in Nat
    BY TypedLemma DEF TypedTables
  <2> QED
    BY <2>1, AtFinite, Constants DEF Placed, Placing
<1> QED
  BY <1>1, <1>2, <1>3, ReachedAlways, PTL DEF Spec

----------------------------------------------------------------------------
(* The plan's limit on regions. *)

LEMMA FaultsNat ==
    ASSUME TypeOK
    PROVE  faults \in Nat
<1>1. faults \in 0..MaxFaults
  BY DEF TypeOK
<1>2. MaxFaults \in Nat
  BY Constants
<1> QED
  BY <1>1, <1>2

\* No step takes a failure back.
LEMMA FaultsLemma ==
    ASSUME TypeOK, [Next]_vars
    PROVE  faults' = faults \/ faults' = faults + 1
<1> USE DEF bounds, Fault, NoFault, Reads, Does, Finds, Updates
<1>1. ASSUME NEW r \in Requests, Register(r)
      PROVE  faults' = faults \/ faults' = faults + 1
  BY <1>1 DEF Register, RegisterLookup, CreateOrg, CreateUser, CreateSubscription,
              DefaultOrgRegion, LinkCustomer
<1>2. ASSUME NEW r \in Requests, Limits(r)
      PROVE  faults' = faults \/ faults' = faults + 1
  BY <1>2 DEF Limits, HostSubscription, RegionSubscription, HostCount, CreateHost,
              RegionCount, AddOrgRegion
<1>3. ASSUME NEW r \in Requests, Webhook(r)
      PROVE  faults' = faults \/ faults' = faults + 1
  BY <1>3 DEF Webhook, CheckoutCompleted, InvoicePaid, StatusEvent, Bind, Renew, UpsertInvoice
<1>4. CASE \/ \E o \in Orgs : DeleteHost(o)
           \/ \E o \in Orgs, g \in Regions : RemoveRegion(o, g)
           \/ \E o \in Orgs, s \in StripeSubs : Buy(o, s)
           \/ UNCHANGED vars
  BY <1>4 DEF DeleteHost, RemoveRegion, Buy, vars
<1> QED
  BY <1>1, <1>2, <1>3, <1>4 DEF Next

\* A region that is being added counts as if the organisation had it, from
\* the moment the organisation is made or the count was read.
Adding == {"user", "subscription", "region", "addRegion"}
Extending(o) == Cardinality(AtWith(Adding, o))
Extended ==
    \A o \in Orgs :
        Cardinality(regions[o]) + Extending(o)
            <= Included + Extra - 1 + Cardinality(Requests) + faults

LEMMA ExtendedInductive ==
    ASSUME TypeOK, Reached, Extended, [Next]_vars
    PROVE  Extended'
<1> USE DEF tables, bounds, told, At
<1> DEFINE Limit == Included + Extra - 1 + Cardinality(Requests)
<1> SUFFICES ASSUME NEW o \in Orgs
             PROVE  (Cardinality(regions[o]) + Extending(o) <= Limit + faults)'
  BY DEF Extended
<1>0. /\ regions \in [Orgs -> SUBSET Regions] /\ regions' \in [Orgs -> SUBSET Regions]
      /\ req \in [Requests -> ReqRecords]
      /\ Included \in Nat \ {0} /\ Extra \in Nat /\ Cardinality(Requests) \in Nat
      /\ None \notin Orgs /\ Limit \in Nat
  <2>1. TypeOK' /\ Reached'
    BY ReachedInductive
  <2> QED
    <3>1. regions' \in [Orgs -> SUBSET Regions]
      BY <2>1 DEF TypeOK
    <3>2. /\ regions \in [Orgs -> SUBSET Regions]
          /\ req \in [Requests -> ReqRecords]
      BY TypedLemma DEF TypedTables
    <3>3. Cardinality(Requests) \in Nat
      BY AtFinite
    <3> QED
      BY <3>1, <3>2, <3>3, Constants
<1>1. /\ Cardinality(regions[o]) \in Nat /\ Cardinality(regions'[o]) \in Nat
      /\ IsFiniteSet(regions[o]) /\ Extending(o) \in Nat
      /\ Cardinality(regions[o]) + Extending(o) <= Limit + faults
      /\ faults \in Nat /\ faults' \in Nat /\ faults <= faults'
  <2>1. IsFiniteSet(regions[o]) /\ IsFiniteSet(regions'[o])
    BY <1>0, Constants, FS_Subset
  <2>2. faults \in Nat
    BY FaultsNat
  <2>3. Extending(o) \in Nat
    BY AtFinite DEF Extending
  <2> QED
    BY <2>1, <2>2, <2>3, FaultsLemma, FS_CardinalityType DEF Extended
<1> HIDE DEF Limit
<1>2. ASSUME NEW r \in Requests, NEW q \in ReqRecords, req' = [req EXCEPT ![r] = q]
      PROVE  /\ Extending(o)' \in Nat /\ Extending(o)' <= Cardinality(Requests)
             /\ (IsAt(q, Adding, o) <=> IsAt(req[r], Adding, o)) => Extending(o)' = Extending(o)
             /\ ~IsAt(q, Adding, o) => Extending(o)' <= Extending(o)
             /\ Extending(o)' <= Extending(o) + 1
             /\ ~IsAt(q, Adding, o) /\ IsAt(req[r], Adding, o) =>
                    Extending(o)' = Extending(o) - 1
  <2>1. Becomes(r, q)
    BY <1>2 DEF Becomes
  <2>2. PICK pcs : pcs = Adding
    OBVIOUS
  <2>3. /\ Cardinality(AtWith(pcs, o)') \in 0..Cardinality(Requests)
        /\ (IsAt(q, pcs, o) <=> IsAt(req[r], pcs, o)) =>
               Cardinality(AtWith(pcs, o)') = Cardinality(AtWith(pcs, o))
        /\ IsAt(q, pcs, o) /\ ~IsAt(req[r], pcs, o) =>
               Cardinality(AtWith(pcs, o)') = Cardinality(AtWith(pcs, o)) + 1
        /\ ~IsAt(q, pcs, o) /\ IsAt(req[r], pcs, o) =>
               Cardinality(AtWith(pcs, o)') = Cardinality(AtWith(pcs, o)) - 1
    BY <1>0, <2>1, AtLemma
  <2>4. /\ Extending(o) = Cardinality(AtWith(pcs, o))
        /\ Extending(o)' = Cardinality(AtWith(pcs, o)')
    BY <2>2 DEF Extending, Adding
  <2>5. Extending(o)' \in 0..Cardinality(Requests)
    BY <2>3, <2>4
  <2> QED
    BY <1>0, <1>1, <2>2, <2>3, <2>4, <2>5
\* Steps that add no region, and are not about to add one.
<1>3. ASSUME NEW r \in Requests, NEW q \in ReqRecords, req' = [req EXCEPT ![r] = q],
             IsAt(q, Adding, o) => IsAt(req[r], Adding, o), UNCHANGED regions
      PROVE  Cardinality(regions'[o]) + Extending(o)' <= Limit + faults'
  <2>1. Extending(o)' \in Nat /\ Extending(o)' <= Extending(o)
    <3>1. CASE IsAt(q, Adding, o)
      <4>1. Extending(o)' = Extending(o)
        BY <1>2, <1>3, <3>1, Zenon
      <4> QED
        BY <1>1, <4>1
    <3>2. CASE ~IsAt(q, Adding, o)
      BY <1>1, <1>2, <1>3, <3>2
    <3> QED
      BY <3>1, <3>2
  <2> QED
    BY <1>0, <1>1, <1>3, <2>1
<1>4. ASSUME UNCHANGED req, regions'[o] \subseteq regions[o]
      PROVE  Cardinality(regions'[o]) + Extending(o)' <= Limit + faults'
  <2>1. Extending(o)' = Extending(o)
    BY <1>4, AtSame DEF Extending, Adding
  <2>2. Cardinality(regions'[o]) <= Cardinality(regions[o])
    BY <1>1, <1>4, FS_Subset
  <2> QED
    BY <1>0, <1>1, <2>1, <2>2
\* The insert itself, of a request that counted.
<1>5. ASSUME NEW r \in Requests, NEW q \in ReqRecords, req' = [req EXCEPT ![r] = q],
             q.pc \notin Adding, req[r].pc \in Adding, NEW g,
             regions' = regions \/ regions' = [regions EXCEPT ![req[r].org] = @ \cup {g}]
      PROVE  Cardinality(regions'[o]) + Extending(o)' <= Limit + faults'
  <2>1. ~IsAt(q, Adding, o)
    BY <1>5 DEF IsAt
  <2>2. CASE req[r].org = o
    <3>1. Extending(o)' = Extending(o) - 1
      BY <1>2, <1>5, <2>1, <2>2 DEF IsAt
    <3>2. Cardinality(regions'[o]) <= Cardinality(regions[o]) + 1
      <4>1. regions'[o] = regions[o] \/ regions'[o] = regions[o] \cup {g}
        BY <1>0, <1>5, <2>2
      <4> QED
        BY <1>1, <4>1, FS_AddElement
    <3> QED
      BY <1>0, <1>1, <3>1, <3>2
  <2>3. CASE req[r].org # o
    <3>1. Extending(o)' \in Nat /\ Extending(o)' <= Extending(o)
      BY <1>0, <1>2, <1>5, <2>1
    <3>2. regions'[o] = regions[o]
      BY <1>0, <1>5, <2>3
    <3> QED
      BY <1>0, <1>1, <3>1, <3>2
  <2> QED
    BY <2>2, <2>3
<1>6. ASSUME NEW r \in Requests, Register(r)
      PROVE  Cardinality(regions'[o]) + Extending(o)' <= Limit + faults'
  <2>1. PICK q \in ReqRecords :
          /\ req' = [req EXCEPT ![r] = q]
          /\ \/ q = Idle
             \/ req[r].pc = "idle" /\ q.pc = "org"
             \/ CreateOrg(r) /\ req[r].pc = "org" /\ q.pc = "user" /\ q.org = made + 1
             \/ /\ req[r].pc \in {"user", "subscription", "region"}
                /\ q.pc \in {"subscription", "region", "customer"} /\ q.org = req[r].org
    BY <1>6, RegisterMoves
  <2>2. CASE DefaultOrgRegion(r)
    <3>1. q.pc = "customer" /\ req[r].pc = "region"
      <4>1. req[r] \in ReqRecords /\ req'[r] = q
        BY <1>0, <2>1
      <4>2. q = [req[r] EXCEPT !.pc = "customer"]
        BY <1>0, <2>2, <4>1 DEF DefaultOrgRegion, Goes
      <4> QED
        BY <2>2, <4>1, <4>2 DEF DefaultOrgRegion, ReqRecords
    <3>2. \/ regions' = regions
          \/ regions' = [regions EXCEPT ![req[r].org] = @ \cup {DefaultRegion}]
      BY <2>2 DEF DefaultOrgRegion, Does
    <3> QED
      BY <1>5, <2>1, <3>1, <3>2 DEF Adding
  <2>3. CASE ~DefaultOrgRegion(r)
    <3>1. UNCHANGED regions
      BY <1>6, <2>3 DEF Register, RegisterLookup, CreateOrg, CreateUser, CreateSubscription,
                        LinkCustomer
    <3>2. CASE IsAt(q, Adding, o) => IsAt(req[r], Adding, o)
      BY <1>3, <2>1, <3>1, <3>2
    \* A new organisation has no region yet.
    <3>3. CASE q.org = made + 1 /\ o = made + 1
      <4>1. regions[o] = {}
        <5>1. ~HasUser(o)
          BY <3>3, UserLemma, TypedLemma
        <5> QED
          BY <5>1, TypedLemma DEF NoOrphanData
      <4>2. Cardinality(regions'[o]) = 0
        BY <3>1, <4>1, FS_EmptySet
      <4>3. Extending(o)' \in Nat /\ Extending(o)' <= Cardinality(Requests)
        BY <1>0, <1>2, <2>1
      <4> QED
        BY <1>0, <1>1, <4>2, <4>3 DEF Limit
    <3> QED
      BY <2>1, <3>2, <3>3 DEF IsAt, Adding, Idle
  <2> QED
    BY <2>2, <2>3
<1>7. ASSUME NEW r \in Requests, Webhook(r)
      PROVE  Cardinality(regions'[o]) + Extending(o)' <= Limit + faults'
  <2>1. CASE UNCHANGED <<req, regions>>
    BY <1>4, <2>1
  <2> QED
    BY <1>3, <1>7, <2>1, WebhookMoves DEF Idle, IsAt, Adding
<1>8. ASSUME NEW r \in Requests, Limits(r)
      PROVE  Cardinality(regions'[o]) + Extending(o)' <= Limit + faults'
  <2>1. PICK q \in ReqRecords :
          /\ req' = [req EXCEPT ![r] = q]
          /\ \/ q = Idle
             \/ req[r].pc = "idle" /\ q.pc \in {"hosts", "host", "regions"}
             \/ req[r].pc = "hosts" /\ q.pc = "host" /\ q.org = req[r].org
             \/ req[r].pc = "regions" /\ q.pc = "addRegion" /\ q.org = req[r].org
    BY <1>8, LimitsMoves
  <2>2. CASE AddOrgRegion(r)
    <3>1. q = Idle /\ req[r].pc = "addRegion"
      BY <1>0, <2>1, <2>2 DEF AddOrgRegion, Answers
    <3>2. \/ regions' = regions
          \/ regions' = [regions EXCEPT ![req[r].org] = @ \cup {req[r].region}]
      BY <2>2 DEF AddOrgRegion, Does, InsertRegion
    <3>3. q.pc \notin Adding
      BY <3>1 DEF Adding, Idle
    <3> QED
      BY <1>5, <2>1, <3>1, <3>2, <3>3 DEF Adding
  <2>3. CASE ~AddOrgRegion(r)
    <3>1. UNCHANGED regions
      BY <1>8, <2>3 DEF Limits, HostSubscription, RegionSubscription, HostCount, CreateHost,
                        RegionCount
    <3>2. CASE IsAt(q, Adding, o) => IsAt(req[r], Adding, o)
      BY <1>3, <2>1, <3>1, <3>2
    \* Where the count was read, there was a place left.
    <3>3. CASE req[r].pc = "regions" /\ q.pc = "addRegion" /\ q.org = req[r].org /\ req[r].org = o
      <4>1. RegionCount(r) /\ ~Answers(r)
        <5>1. RegionCount(r)
          <6>1. req[r] # Idle
            BY <3>3 DEF Idle
          <6> QED
            BY <1>8, <2>3, <3>3, <6>1 DEF Limits, HostSubscription, RegionSubscription, HostCount,
                                          CreateHost, Arrives
        <5>2. req'[r] = q /\ q # Idle
          BY <1>0, <2>1, <3>3 DEF Idle
        <5> QED
          BY <1>0, <5>1, <5>2 DEF Answers
      <4>2. PICK plan \in BOOLEAN, count \in BOOLEAN :
              /\ Reads(plan /\ count)
              /\ ~RegionsFull(CountOrgRegions(o, count), GetPlan(plan))
        BY <3>3, <4>1 DEF RegionCount
      <4>3. CASE count
        <5>1. GetPlan(plan).regions \in {Included, 0}
          BY DEF GetPlan
        <5>2. Cardinality(regions[o]) <= Included + Extra - 1
          BY <1>0, <1>1, <4>2, <4>3, <5>1 DEF RegionsFull, CountOrgRegions
        <5>3. Extending(o)' \in Nat /\ Extending(o)' <= Cardinality(Requests)
          BY <1>2, <2>1
        <5> QED
          BY <1>0, <1>1, <3>1, <5>2, <5>3 DEF Limit
      <4>4. CASE ~count
        <5>1. faults' = faults + 1
          BY <4>2, <4>4 DEF Reads, Fault
        <5>2. Extending(o)' <= Extending(o) + 1 /\ Extending(o)' \in Nat
          BY <1>0, <1>1, <1>2, <2>1
        <5> QED
          BY <1>0, <1>1, <3>1, <5>1, <5>2
      <4> QED
        BY <4>3, <4>4
    <3> QED
      BY <2>1, <3>2, <3>3 DEF IsAt, Adding, Idle
  <2> QED
    BY <2>2, <2>3
<1>9. ASSUME NEW p \in Orgs, NEW g \in Regions, RemoveRegion(p, g)
      PROVE  Cardinality(regions'[o]) + Extending(o)' <= Limit + faults'
  <2>1. regions'[o] \subseteq regions[o]
    BY <1>0, <1>9 DEF RemoveRegion, DeleteRegion
  <2> QED
    BY <1>4, <1>9, <2>1 DEF RemoveRegion
<1>10. CASE \/ \E p \in Orgs : DeleteHost(p)
            \/ \E p \in Orgs, s \in StripeSubs : Buy(p, s)
            \/ UNCHANGED vars
  <2>1. UNCHANGED <<req, regions>>
    BY <1>10 DEF DeleteHost, Buy, vars
  <2> QED
    BY <1>4, <2>1
<1>11. Cardinality(regions'[o]) + Extending(o)' <= Limit + faults'
  BY <1>6, <1>7, <1>8, <1>9, <1>10 DEF Next
<1> QED
  BY <1>11 DEF Limit

\* The limit on regions is read before the insert, by requests in flight
\* together; all an org can have beyond its plan is one region for each other
\* request in flight and for each statement that failed (AddRegion, billing.go).
THEOREM RegionsAreBounded == Spec => []RegionsBounded
<1>1. Init => Extended
  <2> SUFFICES ASSUME Init, NEW o \in Orgs
               PROVE  Cardinality(regions[o]) + Extending(o)
                          <= Included + Extra - 1 + Cardinality(Requests) + faults
    BY DEF Extended
  <2>1. AtWith(Adding, o) = {} /\ regions[o] = {} /\ faults = 0
    BY DEF Init, Idle, AtWith, IsAt, Adding
  <2>2. Extending(o) = 0 /\ Cardinality(regions[o]) = 0
    BY <2>1, FS_EmptySet DEF Extending
  <2>3. Cardinality(Requests) \in Nat /\ Included \in Nat \ {0} /\ Extra \in Nat
    BY AtFinite, Constants
  <2> QED
    BY <2>1, <2>2, <2>3
<1>2. TypeOK /\ Reached /\ Extended /\ [Next]_vars => Extended'
  BY ExtendedInductive
<1>3. TypeOK /\ Reached /\ Extended => RegionsBounded
  <2> SUFFICES ASSUME TypeOK, Reached, Extended, NEW o \in Orgs
               PROVE  Cardinality(regions[o])
                          <= Included + Extra - 1 + Cardinality(Requests) + faults
    BY DEF RegionsBounded
  <2>1. IsFiniteSet(regions[o])
    <3>1. regions[o] \subseteq Regions
      BY TypedLemma DEF TypedTables
    <3> QED
      BY <3>1, Constants, FS_Subset
  <2>2. faults \in Nat
    BY FaultsNat
  <2> QED
    BY <2>1, <2>2, AtFinite, Constants, FS_CardinalityType DEF Extended, Extending
<1> QED
  BY <1>1, <1>2, <1>3, ReachedAlways, PTL DEF Spec

----------------------------------------------------------------------------
(* Invoices. *)

Billing == {"renew", "invoice"}

\* Where a request of each group may be.
LEMMA PlaceLemma ==
    ASSUME NEW r \in Requests, Register(r) \/ Limits(r)
    PROVE  req[r].pc \notin Billing
<1> USE DEF At, Arrives
<1>1. CASE req[r] = Idle
  BY <1>1 DEF Idle, Billing
<1>2. CASE req[r] # Idle
  <2>1. CASE Register(r)
    BY <1>2, <2>1 DEF Register, RegisterLookup, CreateOrg, CreateUser, CreateSubscription,
                      DefaultOrgRegion, LinkCustomer, Billing
  <2>2. CASE Limits(r)
    BY <1>2, <2>2 DEF Limits, HostSubscription, RegionSubscription, HostCount, CreateHost,
                      RegionCount, AddOrgRegion, Billing
  <2> QED
    BY <2>1, <2>2
<1> QED
  BY <1>1, <1>2

LEMMA InvoicesInductive ==
    ASSUME TypeOK, Reached, InvoicesExact, [Next]_vars
    PROVE  InvoicesExact'
<1> USE DEF tables, bounds, told, At
<1> SUFFICES ASSUME NEW o \in Orgs \cup {None}
             PROVE  (/\ invoices[o] + Invoicing(o) <= paid[o]
                     /\ paid[o] <= invoices[o] + Invoicing(o) + faults)'
  BY DEF InvoicesExact
<1>0. /\ invoices \in [Orgs \cup {None} -> Nat] /\ paid \in [Orgs \cup {None} -> Nat]
      /\ req \in [Requests -> ReqRecords]
  BY TypedLemma DEF TypedTables
<1>1. /\ Invoicing(o) = Cardinality(AtWith(Billing, o))
      /\ Invoicing(o)' = Cardinality(AtWith(Billing, o)')
  BY DEF Invoicing, AtWith, IsAt, Billing
<1>2. /\ invoices[o] \in Nat /\ paid[o] \in Nat /\ Invoicing(o) \in Nat
      /\ invoices[o] + Invoicing(o) <= paid[o]
      /\ paid[o] <= invoices[o] + Invoicing(o) + faults
      /\ faults \in Nat /\ faults' \in Nat /\ faults <= faults'
  BY <1>0, <1>1, AtFinite, FaultsNat, FaultsLemma DEF InvoicesExact
<1>3. ASSUME NEW r \in Requests, NEW q \in ReqRecords, Becomes(r, q)
      PROVE  /\ (IsAt(q, Billing, o) <=> IsAt(req[r], Billing, o)) => Invoicing(o)' = Invoicing(o)
             /\ IsAt(q, Billing, o) /\ ~IsAt(req[r], Billing, o) =>
                    Invoicing(o)' = Invoicing(o) + 1
             /\ ~IsAt(q, Billing, o) /\ IsAt(req[r], Billing, o) =>
                    Invoicing(o)' = Invoicing(o) - 1
  <2>1. PICK pcs : pcs = Billing
    OBVIOUS
  <2>2. /\ (IsAt(q, pcs, o) <=> IsAt(req[r], pcs, o)) =>
               Cardinality(AtWith(pcs, o)') = Cardinality(AtWith(pcs, o))
        /\ IsAt(q, pcs, o) /\ ~IsAt(req[r], pcs, o) =>
               Cardinality(AtWith(pcs, o)') = Cardinality(AtWith(pcs, o)) + 1
        /\ ~IsAt(q, pcs, o) /\ IsAt(req[r], pcs, o) =>
               Cardinality(AtWith(pcs, o)') = Cardinality(AtWith(pcs, o)) - 1
    BY <1>0, <1>3, AtLemma
  <2>3. /\ Invoicing(o) = Cardinality(AtWith(pcs, o))
        /\ Invoicing(o)' = Cardinality(AtWith(pcs, o)')
    BY <1>1, <2>1 DEF Billing
  <2> QED
    BY <2>1, <2>2, <2>3
\* Steps of requests that handle no payment.
<1>4. ASSUME Invoicing(o)' = Invoicing(o), UNCHANGED <<invoices, paid>>
      PROVE  /\ invoices'[o] + Invoicing(o)' <= paid'[o]
             /\ paid'[o] <= invoices'[o] + Invoicing(o)' + faults'
  BY <1>2, <1>4
<1>5. ASSUME NEW r \in Requests, NEW q \in ReqRecords, req' = [req EXCEPT ![r] = q],
             q.pc \notin Billing, req[r].pc \notin Billing, UNCHANGED <<invoices, paid>>
      PROVE  /\ invoices'[o] + Invoicing(o)' <= paid'[o]
             /\ paid'[o] <= invoices'[o] + Invoicing(o)' + faults'
  <2>1. Becomes(r, q)
    BY <1>5 DEF Becomes
  <2>2. ~IsAt(q, Billing, o) /\ ~IsAt(req[r], Billing, o)
    BY <1>5 DEF IsAt
  <2> QED
    BY <1>3, <1>4, <1>5, <2>1, <2>2
<1>6. ASSUME NEW r \in Requests, Register(r)
      PROVE  /\ invoices'[o] + Invoicing(o)' <= paid'[o]
             /\ paid'[o] <= invoices'[o] + Invoicing(o)' + faults'
  <2>1. PICK q \in ReqRecords :
          req' = [req EXCEPT ![r] = q] /\ q.pc \notin Billing /\ UNCHANGED <<invoices, paid>>
    BY <1>6, RegisterMoves DEF Idle, Billing
  <2> QED
    BY <1>5, <1>6, <2>1, PlaceLemma
<1>7. ASSUME NEW r \in Requests, Limits(r)
      PROVE  /\ invoices'[o] + Invoicing(o)' <= paid'[o]
             /\ paid'[o] <= invoices'[o] + Invoicing(o)' + faults'
  <2>1. PICK q \in ReqRecords :
          req' = [req EXCEPT ![r] = q] /\ q.pc \notin Billing /\ UNCHANGED <<invoices, paid>>
    BY <1>7, LimitsMoves DEF Idle, Billing
  <2> QED
    BY <1>5, <1>7, <2>1, PlaceLemma
<1>8. ASSUME NEW r \in Requests, NEW s \in StripeSubs, CheckoutCompleted(r, s)
      PROVE  /\ invoices'[o] + Invoicing(o)' <= paid'[o]
             /\ paid'[o] <= invoices'[o] + Invoicing(o)' + faults'
  <2>1. PICK p \in Orgs \cup {None} :
          req' = [req EXCEPT ![r] = [Idle EXCEPT !.pc = "bind", !.org = p, !.stripe = s]]
    BY <1>8 DEF CheckoutCompleted
  <2>2. PICK q \in ReqRecords : q = [Idle EXCEPT !.pc = "bind", !.org = p, !.stripe = s]
    BY DEF Idle, ReqRecords, PCs
  <2>3. UNCHANGED <<invoices, paid>> /\ req[r] = Idle
    BY <1>8 DEF CheckoutCompleted, Event, Arrives
  <2>4. q.pc \notin Billing /\ req[r].pc \notin Billing
    BY <2>2, <2>3 DEF Idle, Billing
  <2> QED
    BY <1>5, <2>1, <2>2, <2>3, <2>4
\* The payment is counted, and the request is about to store its invoice.
<1>9. ASSUME NEW r \in Requests, NEW s \in StripeSubs, InvoicePaid(r, s)
      PROVE  /\ invoices'[o] + Invoicing(o)' <= paid'[o]
             /\ paid'[o] <= invoices'[o] + Invoicing(o)' + faults'
  <2>1. PICK p \in Orgs \cup {None} :
          /\ req' = [req EXCEPT ![r] = [Idle EXCEPT !.pc = "renew", !.org = p, !.stripe = s]]
          /\ paid' = [paid EXCEPT ![p] = @ + 1]
    BY <1>9 DEF InvoicePaid
  <2>2. PICK q \in ReqRecords : q = [Idle EXCEPT !.pc = "renew", !.org = p, !.stripe = s]
    BY DEF Idle, ReqRecords, PCs
  <2>3. invoices' = invoices /\ req[r] = Idle
    BY <1>9 DEF InvoicePaid, Event, Arrives
  <2>4. /\ IsAt(q, Billing, o) <=> p = o
        /\ ~IsAt(req[r], Billing, o)
    BY <2>2, <2>3 DEF Idle, Billing, IsAt
  <2>5. Becomes(r, q)
    BY <2>1, <2>2 DEF Becomes
  <2>6. CASE p = o
    <3>1. Invoicing(o)' = Invoicing(o) + 1 /\ paid'[o] = paid[o] + 1
      BY <1>0, <1>3, <2>1, <2>4, <2>5, <2>6
    <3> QED
      BY <1>2, <2>3, <3>1
  <2>7. CASE p # o
    <3>1. Invoicing(o)' = Invoicing(o) /\ paid'[o] = paid[o]
      BY <1>0, <1>3, <2>1, <2>4, <2>5, <2>7
    <3> QED
      BY <1>2, <2>3, <3>1
  <2> QED
    BY <2>6, <2>7
<1>10. ASSUME NEW r \in Requests, Bind(r)
       PROVE  /\ invoices'[o] + Invoicing(o)' <= paid'[o]
              /\ paid'[o] <= invoices'[o] + Invoicing(o)' + faults'
  <2>1. UNCHANGED <<invoices, paid>> /\ Answers(r) /\ req[r].pc = "bind"
    BY <1>10 DEF Bind
  <2>2. req' = [req EXCEPT ![r] = Idle] /\ Idle \in ReqRecords
    BY <1>0, <2>1, MoveLemma
  <2> QED
    BY <1>5, <2>1, <2>2 DEF Idle, Billing
<1>11. ASSUME NEW r \in Requests, Renew(r)
       PROVE  /\ invoices'[o] + Invoicing(o)' <= paid'[o]
              /\ paid'[o] <= invoices'[o] + Invoicing(o)' + faults'
  <2>1. UNCHANGED <<invoices, paid>> /\ Goes(r, "invoice") /\ req[r].pc = "renew"
    BY <1>11 DEF Renew
  <2>2. PICK q \in ReqRecords : q = [req[r] EXCEPT !.pc = "invoice"]
    BY <1>0, MoveLemma DEF PCs
  <2>3. Becomes(r, q)
    BY <1>0, <2>1, <2>2, MoveLemma DEF Becomes, PCs
  <2>4. q.pc = "invoice" /\ q.org = req[r].org
    BY <1>0, <2>2 DEF ReqRecords
  <2>5. IsAt(q, Billing, o) <=> IsAt(req[r], Billing, o)
    BY <2>1, <2>4 DEF IsAt, Billing
  <2> QED
    BY <1>3, <1>4, <2>1, <2>3, <2>5
\* The invoice is stored, or a statement failed.
<1>12. ASSUME NEW r \in Requests, UpsertInvoice(r)
       PROVE  /\ invoices'[o] + Invoicing(o)' <= paid'[o]
              /\ paid'[o] <= invoices'[o] + Invoicing(o)' + faults'
  <2>1. paid' = paid /\ Answers(r) /\ req[r].pc = "invoice"
    BY <1>12 DEF UpsertInvoice
  <2>2. Becomes(r, Idle) /\ Idle \in ReqRecords
    BY <1>0, <2>1, MoveLemma DEF Becomes
  <2>3. ~IsAt(Idle, Billing, o)
    BY DEF Idle, IsAt, Billing
  <2>4. IsAt(req[r], Billing, o) <=> req[r].org = o
    BY <2>1 DEF IsAt, Billing
  <2>5. \/ invoices' = [invoices EXCEPT ![req[r].org] = @ + 1]
        \/ invoices' = invoices /\ faults' = faults + 1
    BY <1>12 DEF UpsertInvoice, Does, InsertInvoice, Fault
  <2>6. CASE req[r].org = o
    <3>1. Invoicing(o)' = Invoicing(o) - 1
      BY <1>3, <2>2, <2>3, <2>4, <2>6
    <3>2. \/ invoices'[o] = invoices[o] + 1
          \/ invoices'[o] = invoices[o] /\ faults' = faults + 1
      BY <1>0, <2>5, <2>6
    <3> QED
      BY <1>2, <2>1, <3>1, <3>2
  <2>7. CASE req[r].org # o
    <3>1. Invoicing(o)' = Invoicing(o)
      BY <1>3, <2>2, <2>3, <2>4, <2>7
    <3>2. invoices'[o] = invoices[o]
      BY <1>0, <2>5, <2>7
    <3> QED
      BY <1>2, <2>1, <3>1, <3>2
  <2> QED
    BY <2>6, <2>7
<1>13. CASE \/ \E r \in Requests, s \in StripeSubs : StatusEvent(r, s)
            \/ \E p \in Orgs : DeleteHost(p)
            \/ \E p \in Orgs, g \in Regions : RemoveRegion(p, g)
            \/ \E p \in Orgs, s \in StripeSubs : Buy(p, s)
            \/ UNCHANGED vars
  <2>1. UNCHANGED <<req, invoices, paid>>
    BY <1>13 DEF StatusEvent, DeleteHost, RemoveRegion, Buy, vars
  <2>2. Invoicing(o)' = Invoicing(o)
    BY <1>1, <2>1, AtSame
  <2> QED
    BY <1>4, <2>1, <2>2
<1> QED
  BY <1>6, <1>7, <1>8, <1>9, <1>10, <1>11, <1>12, <1>13 DEF Next, Webhook

\* Every payment told while an org's row was bound becomes one invoice of that
\* org, for each time it was told; only a failed statement loses one
\* (Webhook's invoice.paid, billing.go).
THEOREM InvoicesAreExact == Spec => []InvoicesExact
<1>1. Init => InvoicesExact
  <2> SUFFICES ASSUME Init, NEW o \in Orgs \cup {None}
               PROVE  /\ invoices[o] + Invoicing(o) <= paid[o]
                      /\ paid[o] <= invoices[o] + Invoicing(o) + faults
    BY DEF InvoicesExact
  <2>1. {r \in Requests : req[r].pc \in {"renew", "invoice"} /\ req[r].org = o} = {}
    BY DEF Init, Idle
  <2>2. Invoicing(o) = 0
    BY <2>1, FS_EmptySet DEF Invoicing
  <2> QED
    BY <2>2 DEF Init
<1>2. TypeOK /\ Reached /\ InvoicesExact /\ [Next]_vars => InvoicesExact'
  BY InvoicesInductive
<1> QED
  BY <1>1, <1>2, ReachedAlways, PTL DEF Spec

=============================================================================
