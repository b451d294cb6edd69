-------------------------- MODULE TokenCacheProofs --------------------------
(***************************************************************************)
(* Proofs about the token cache, for every set of hosts and requests in    *)
(* flight, every life of an entry and every number of tokens and failures. *)
(* Owned is inductive together with TypeOK, and Aging relative to them.    *)
(***************************************************************************)
EXTENDS TokenCache, TLAPS

ReqRecords ==
    [pc : {"idle", "get", "lookup", "set", "granted", "refused"},
     token : 0..MaxTokens, host : Hosts \cup {None}, since : {"none", "valid", "revoked"}]

\* Every copy of "token t belongs to host h", in MariaDB, in Redis, on its way
\* there or in a request, agrees with the host that t was generated for, and no copy is
\* older than its token.
OwnedRows    == \A h \in Hosts : tokenOf[h] > 0 => owner[tokenOf[h]] = h
OwnedEntries ==
    /\ \A t \in Tokens : entry[t] # None => t <= generated /\ entry[t] = owner[t]
    /\ \A w \in late : w.host = owner[w.token]
OwnedReqs ==
    \A r \in Requests :
        /\ req[r].pc # "idle" => req[r].token \in 1..generated
        /\ req[r].pc = "set" => req[r].host # None
        /\ req[r].pc \in {"set", "granted"} => req[r].host = owner[req[r].token]

Owned ==
    /\ req \in [Requests -> ReqRecords]
    /\ \A r \in Requests : req[r].token \in 0..generated
    /\ OwnedRows /\ OwnedEntries /\ OwnedReqs

\* Once settled, a token is revoked and nobody will cache it; what is left of
\* its entry and what has passed are a full life of an entry at the most.
Aging ==
    \A t \in Tokens : settled[t] > 0 =>
        Revoked(t) /\ Filling(t) = {} /\ ttl[t] + settled[t] <= TTL

----------------------------------------------------------------------------
(* Types and owners. *)

\* Constants and bounds, as the steps below need them.
LEMMA Bounds ==
    /\ TTL \in Nat \ {0} /\ MaxTokens \in Nat /\ MaxFaults \in Nat
    /\ None \notin Hosts
    /\ Tokens = 1..MaxTokens
  BY TokenAssumption DEF Tokens

\* A failure counts.
LEMMA FaultLemma ==
    ASSUME faults \in 0..MaxFaults, Fault \/ UNCHANGED faults
    PROVE  faults' \in 0..MaxFaults
  BY Bounds DEF Fault

\* A request moves on: its place and its host change, and nothing else.
LEMMA DecideLemma ==
    ASSUME req \in [Requests -> ReqRecords], NEW r \in Requests,
           NEW pc \in {"lookup", "set", "granted", "refused"}, NEW host \in Hosts \cup {None},
           Decide(r, pc, host)
    PROVE  /\ req' \in [Requests -> ReqRecords]
           /\ req'[r].pc = pc /\ req'[r].host = host /\ req'[r].token = req[r].token
           /\ \A q \in Requests : q # r => req'[q] = req[q]
<1>1. req' = [req EXCEPT ![r] = [@ EXCEPT !.pc = pc, !.host = host]]
  BY DEF Decide
<1>2. [req[r] EXCEPT !.pc = pc, !.host = host] \in ReqRecords
  BY DEF ReqRecords
<1> QED
  BY <1>1, <1>2 DEF ReqRecords

\* Commands on their way to Redis.
Commands == [token : 1..generated, host : Hosts, no : 0..MaxFaults]

\* What the rest of an action has to establish when a request moves on and
\* the tables stay as they are.
LEMMA MoveLemma ==
    ASSUME TypeOK, Owned, UNCHANGED <<tokenOf, generated, owner, settled>>,
           Fault \/ UNCHANGED faults,
           NEW r \in Requests, req[r].pc # "idle",
           NEW pc \in {"lookup", "set", "granted", "refused"}, NEW host \in Hosts \cup {None},
           Decide(r, pc, host),
           pc \in {"set", "granted"} => host = owner[req[r].token],
           pc = "set" => host # None,
           entry' \in [Tokens -> Hosts \cup {None}], ttl' \in [Tokens -> 0..TTL],
           \A t \in Tokens : entry'[t] = None <=> ttl'[t] = 0,
           late' \subseteq Commands, OwnedEntries'
    PROVE  TypeOK' /\ Owned'
<1>1. /\ req' \in [Requests -> ReqRecords]
      /\ req'[r].pc = pc /\ req'[r].host = host /\ req'[r].token = req[r].token
      /\ \A q \in Requests : q # r => req'[q] = req[q]
  BY DecideLemma DEF Owned
<1>2. \A q \in Requests : req'[q].token \in 0..generated'
  BY <1>1 DEF Owned
<1>3. \A q \in Requests :
        /\ req'[q].pc \in {"idle", "get", "lookup", "set", "granted", "refused"}
        /\ req'[q].host \in Hosts \cup {None}
  BY <1>1 DEF ReqRecords
<1>4. OwnedReqs'
  BY <1>1 DEF Owned, OwnedReqs
<1>5. OwnedRows'
  BY DEF Owned, OwnedRows
<1>6. faults' \in 0..MaxFaults
  BY FaultLemma DEF TypeOK
<1>7. late' \subseteq [token : 1..generated', host : Hosts, no : 0..MaxFaults]
  BY DEF Commands
<1> QED
  BY <1>1, <1>2, <1>3, <1>4, <1>5, <1>6, <1>7 DEF TypeOK, Owned

\* A new token belongs to the host it is generated for, and nothing knew it.
LEMMA GenerateLemma ==
    ASSUME TypeOK, Owned, NEW h \in Hosts, Generate(h),
           UNCHANGED <<redis, req, faults, settled>>
    PROVE  TypeOK' /\ Owned'
<1>1. /\ generated' = generated + 1 /\ generated + 1 \in Tokens
      /\ generated \in Nat /\ generated' \in 0..MaxTokens
      /\ owner' = [owner EXCEPT ![generated + 1] = h]
      /\ tokenOf' = [tokenOf EXCEPT ![h] = generated + 1]
      /\ UNCHANGED <<entry, ttl, late, req, faults, settled>>
  BY Bounds DEF TypeOK, Generate, redis
<1>2. tokenOf' \in [Hosts -> -1..generated'] /\ owner' \in [Tokens -> Hosts \cup {None}]
  BY <1>1 DEF TypeOK
<1>3. \A t \in 1..generated : t \in Tokens /\ owner'[t] = owner[t]
  BY <1>1, Bounds DEF TypeOK
<1>4. OwnedRows'
  <2> SUFFICES ASSUME NEW g \in Hosts, tokenOf'[g] > 0
               PROVE  owner'[tokenOf'[g]] = g
    BY DEF OwnedRows
  <2>1. CASE g = h
    BY <1>1, <2>1 DEF TypeOK
  <2>2. CASE g # h
    BY <1>1, <1>3, <2>2 DEF TypeOK, Owned, OwnedRows
  <2> QED
    BY <2>1, <2>2
<1>5. OwnedEntries'
  <2>1. \A t \in Tokens : entry'[t] # None => t <= generated' /\ entry'[t] = owner'[t]
    BY <1>1, <1>3, Bounds DEF TypeOK, Owned, OwnedEntries
  <2>2. \A w \in late : w.token \in 1..generated /\ w.host = owner[w.token]
    BY DEF TypeOK, Owned, OwnedEntries
  <2> QED
    BY <1>1, <1>3, <2>1, <2>2 DEF OwnedEntries
<1>7. late' \subseteq [token : 1..generated', host : Hosts, no : 0..MaxFaults]
  BY <1>1 DEF TypeOK
<1>6. OwnedReqs' /\ \A r \in Requests : req'[r].token \in 0..generated'
  BY <1>1, <1>3 DEF TypeOK, Owned, OwnedReqs
<1> QED
  BY <1>1, <1>2, <1>4, <1>5, <1>6, <1>7 DEF TypeOK, Owned

\* A request that is named in a step is at a token that exists.
LEMMA TokenLemma ==
    ASSUME TypeOK, Owned, NEW r \in Requests, req[r].pc # "idle"
    PROVE  req[r].token \in 1..generated /\ req[r].token \in Tokens
  BY Bounds DEF TypeOK, Owned, OwnedReqs

\* A SETEX for the host a token was generated for.
LEMMA SetExLemma ==
    ASSUME TypeOK, Owned, NEW u \in 1..generated, NEW h \in Hosts, h = owner[u],
           SetEx(u, h), UNCHANGED <<generated, owner>>
    PROVE  /\ entry' \in [Tokens -> Hosts \cup {None}] /\ ttl' \in [Tokens -> 0..TTL]
           /\ \A t \in Tokens : entry'[t] = None <=> ttl'[t] = 0
           /\ \A t \in Tokens : entry'[t] # None => t <= generated' /\ entry'[t] = owner'[t]
           /\ \A t \in Tokens : t # u => ttl'[t] = ttl[t]
<1>1. u \in Tokens /\ h # None /\ TTL # 0 /\ TTL \in 0..TTL /\ u <= generated
  BY Bounds DEF TypeOK
<1>2. \A t \in Tokens : /\ entry'[t] = IF t = u THEN h ELSE entry[t]
                        /\ ttl'[t] = IF t = u THEN TTL ELSE ttl[t]
  BY <1>1 DEF SetEx, TypeOK
<1>3. entry' \in [Tokens -> Hosts \cup {None}] /\ ttl' \in [Tokens -> 0..TTL]
  BY <1>1 DEF SetEx, TypeOK
<1>4. \A t \in Tokens : entry[t] = None <=> ttl[t] = 0
  BY DEF TypeOK
<1>5. \A t \in Tokens : entry[t] # None => t <= generated /\ entry[t] = owner[t]
  BY DEF Owned, OwnedEntries
<1> QED
  BY <1>1, <1>2, <1>3, <1>4, <1>5

LEMMA OwnedInductive ==
    ASSUME TypeOK, Owned, [Next]_vars
    PROVE  TypeOK' /\ Owned'
<1> USE DEF db, redis
<1>1. ASSUME NEW h \in Hosts, Create(h) \/ RotateToken(h)
      PROVE  TypeOK' /\ Owned'
  BY <1>1, GenerateLemma DEF Create, RotateToken
<1>2. ASSUME NEW h \in Hosts, Delete(h)
      PROVE  TypeOK' /\ Owned'
  <2>1. /\ tokenOf' \in [Hosts -> -1..generated]
        /\ \A g \in Hosts : tokenOf'[g] > 0 => tokenOf'[g] = tokenOf[g]
    BY <1>2, Bounds DEF Delete, TypeOK
  <2>2. UNCHANGED <<generated, owner, entry, ttl, late, req, faults, settled>>
    BY <1>2 DEF Delete
  <2>3. OwnedRows' /\ OwnedEntries' /\ OwnedReqs'
    BY <2>1, <2>2 DEF Owned, OwnedRows, OwnedEntries, OwnedReqs
  <2> QED
    BY <2>1, <2>2, <2>3 DEF TypeOK, Owned
<1>3. ASSUME NEW r \in Requests, Arrive(r)
      PROVE  TypeOK' /\ Owned'
  <2>1. PICK t \in 1..generated :
            req' = [req EXCEPT ![r] = [pc |-> "get", token |-> t, host |-> None,
                                       since |-> IF Valid(t) THEN "valid" ELSE "revoked"]]
    BY <1>3 DEF Arrive
  <2>2. UNCHANGED <<tokenOf, generated, owner, entry, ttl, late, faults, settled>>
    BY <1>3 DEF Arrive
  <2>3. t \in 0..MaxTokens /\ t \in 0..generated
    BY Bounds DEF TypeOK
  <2>4. /\ req' \in [Requests -> ReqRecords]
        /\ \A q \in Requests : q # r => req'[q] = req[q]
        /\ req'[r].pc = "get" /\ req'[r].token = t /\ req'[r].host = None
    BY <2>1, <2>3 DEF Owned, ReqRecords
  <2>5. OwnedRows' /\ OwnedEntries'
    BY <2>2 DEF Owned, OwnedRows, OwnedEntries
  <2>6. OwnedReqs' /\ \A q \in Requests : req'[q].token \in 0..generated'
    BY <2>2, <2>3, <2>4 DEF Owned, OwnedReqs
  <2>7. \A q \in Requests :
          /\ req'[q].pc \in {"idle", "get", "lookup", "set", "granted", "refused"}
          /\ req'[q].host \in Hosts \cup {None}
    BY <2>4 DEF ReqRecords
  <2> QED
    BY <2>2, <2>4, <2>5, <2>6, <2>7 DEF TypeOK, Owned
<1>4. ASSUME NEW r \in Requests, Hit(r)
      PROVE  TypeOK' /\ Owned'
  <2>1. /\ entry[req[r].token] \in Hosts \cup {None}
        /\ entry[req[r].token] = owner[req[r].token]
    BY <1>4, TokenLemma DEF Hit, TypeOK, Owned, OwnedEntries
  <2>2. OwnedEntries'
    BY <1>4 DEF Hit, Owned, OwnedEntries
  <2> QED
    BY <1>4, <2>1, <2>2, MoveLemma DEF Hit, TypeOK, Commands
<1>5. ASSUME NEW r \in Requests, Miss(r)
      PROVE  TypeOK' /\ Owned'
  <2>1. OwnedEntries'
    BY <1>5 DEF Miss, Owned, OwnedEntries
  <2> QED
    BY <1>5, <2>1, MoveLemma DEF Miss, TypeOK, Commands
<1>6. ASSUME NEW r \in Requests, Lookup(r)
      PROVE  TypeOK' /\ Owned'
  <2>1. OwnedEntries'
    BY <1>6 DEF Lookup, Owned, OwnedEntries
  <2>2. CASE ~Valid(req[r].token)
    BY <1>6, <2>1, <2>2, MoveLemma DEF Lookup, TypeOK, Commands
  <2>3. ASSUME NEW h \in Hosts, tokenOf[h] = req[r].token, Decide(r, "set", h)
        PROVE  TypeOK' /\ Owned'
    <3>1. h = owner[req[r].token] /\ h # None
      <4>1. req[r].token \in Tokens /\ req[r].token > 0
        BY <1>6, TokenLemma, Bounds DEF Lookup
      <4>2. tokenOf[h] > 0 => owner[tokenOf[h]] = h
        BY DEF Owned, OwnedRows
      <4> QED
        BY <2>3, <4>1, <4>2, Bounds
    <3> QED
      BY <1>6, <2>1, <2>3, <3>1, MoveLemma DEF Lookup, TypeOK, Commands
  <2> QED
    BY <1>6, <2>2, <2>3 DEF Lookup
<1>7. ASSUME NEW r \in Requests, LookupError(r)
      PROVE  TypeOK' /\ Owned'
  <2>1. OwnedEntries'
    BY <1>7 DEF LookupError, Owned, OwnedEntries
  <2> QED
    BY <1>7, <2>1, MoveLemma DEF LookupError, TypeOK, Commands
<1>8. ASSUME NEW r \in Requests, Set(r)
      PROVE  TypeOK' /\ Owned'
  <2>1. /\ req[r].token \in 1..generated /\ req[r].token \in Tokens
        /\ req[r].host \in Hosts /\ req[r].host = owner[req[r].token]
    BY <1>8, TokenLemma DEF Set, TypeOK, Owned, OwnedReqs
  <2>2. /\ entry' \in [Tokens -> Hosts \cup {None}] /\ ttl' \in [Tokens -> 0..TTL]
        /\ \A t \in Tokens : entry'[t] = None <=> ttl'[t] = 0
        /\ late' \subseteq Commands /\ OwnedEntries'
    <3>1. CASE UNCHANGED redis
      BY <1>8, <3>1 DEF Set, TypeOK, Owned, OwnedEntries, Commands
    <3>2. CASE SetEx(req[r].token, req[r].host) /\ UNCHANGED late
      BY <1>8, <2>1, <3>2, SetExLemma DEF Set, TypeOK, Owned, OwnedEntries, Commands
    <3>3. CASE /\ UNCHANGED <<entry, ttl>>
               /\ late' = late \cup {[token |-> req[r].token, host |-> req[r].host,
                                     no |-> faults]}
      BY <1>8, <2>1, <3>3 DEF Set, TypeOK, Owned, OwnedEntries, Commands
    <3> QED
      BY <1>8, <3>1, <3>2, <3>3 DEF Set
  <2> QED
    BY <1>8, <2>1, <2>2, MoveLemma DEF Set
<1>9. ASSUME NEW r \in Requests, Done(r)
      PROVE  TypeOK' /\ Owned'
  BY <1>9, Bounds
     DEF Done, TypeOK, Owned, OwnedRows, OwnedEntries, OwnedReqs, ReqRecords
<1>10. CASE Clock
  <2>1. settled' \in [Tokens -> 0..TTL]
    BY <1>10, Bounds DEF Clock, TypeOK
  <2>2. /\ entry' \in [Tokens -> Hosts \cup {None}] /\ ttl' \in [Tokens -> 0..TTL]
        /\ \A t \in Tokens : entry'[t] = None <=> ttl'[t] = 0
        /\ \A t \in Tokens : entry'[t] # None => entry'[t] = entry[t]
    BY <1>10, Bounds DEF Clock, TypeOK
  <2>3. UNCHANGED <<tokenOf, generated, owner, late, req, faults>>
    BY <1>10 DEF Clock
  <2>4. OwnedRows' /\ OwnedEntries' /\ OwnedReqs'
    BY <2>2, <2>3 DEF Owned, OwnedRows, OwnedEntries, OwnedReqs
  <2> QED
    BY <2>1, <2>2, <2>3, <2>4 DEF TypeOK, Owned
<1>11. CASE Evict
  <2>1. /\ entry' \in [Tokens -> Hosts \cup {None}] /\ ttl' \in [Tokens -> 0..TTL]
        /\ \A t \in Tokens : entry'[t] = None <=> ttl'[t] = 0
        /\ \A t \in Tokens : entry'[t] # None => entry'[t] = entry[t]
    BY <1>11, Bounds DEF Evict, TypeOK
  <2>2. UNCHANGED <<tokenOf, generated, owner, late, req, settled>> /\ faults' \in 0..MaxFaults
    BY <1>11, FaultLemma DEF Evict, TypeOK
  <2>3. OwnedRows' /\ OwnedEntries' /\ OwnedReqs'
    BY <2>1, <2>2 DEF Owned, OwnedRows, OwnedEntries, OwnedReqs
  <2> QED
    BY <2>1, <2>2, <2>3 DEF TypeOK, Owned
<1>12. CASE LateSet
  <2>1. PICK w \in late : /\ late' = late \ {w}
                          /\ SetEx(w.token, w.host) \/ UNCHANGED <<entry, ttl>>
    BY <1>12 DEF LateSet
  <2>2. UNCHANGED <<tokenOf, generated, owner, req, faults, settled>>
    BY <1>12 DEF LateSet
  <2>3. w.token \in 1..generated /\ w.host \in Hosts /\ w.host = owner[w.token]
    BY DEF TypeOK, Owned, OwnedEntries
  <2>4. /\ entry' \in [Tokens -> Hosts \cup {None}] /\ ttl' \in [Tokens -> 0..TTL]
        /\ \A t \in Tokens : entry'[t] = None <=> ttl'[t] = 0
        /\ \A t \in Tokens : entry'[t] # None => t <= generated' /\ entry'[t] = owner'[t]
    <3>1. CASE SetEx(w.token, w.host)
      BY <2>2, <2>3, <3>1, SetExLemma
    <3>2. CASE UNCHANGED <<entry, ttl>>
      BY <2>2, <3>2 DEF TypeOK, Owned, OwnedEntries
    <3> QED
      BY <2>1, <3>1, <3>2
  <2>5. OwnedRows' /\ OwnedEntries' /\ OwnedReqs'
    BY <2>1, <2>2, <2>4 DEF Owned, OwnedRows, OwnedEntries, OwnedReqs
  <2> QED
    BY <2>1, <2>2, <2>4, <2>5 DEF TypeOK, Owned
<1>13. CASE UNCHANGED vars
  BY <1>13 DEF vars, TypeOK, Owned, OwnedRows, OwnedEntries, OwnedReqs
<1> QED
  BY <1>1, <1>2, <1>3, <1>4, <1>5, <1>6, <1>7, <1>8, <1>9, <1>10, <1>11, <1>12,
     <1>13
     DEF Next, Request

LEMMA OwnedAlways == Spec => [](TypeOK /\ Owned)
<1>1. Init => TypeOK /\ Owned
  BY Bounds
     DEF Init, TypeOK, Owned, OwnedRows, OwnedEntries, OwnedReqs, ReqRecords
<1>2. TypeOK /\ Owned /\ [Next]_vars => (TypeOK /\ Owned)'
  BY OwnedInductive
<1> QED
  BY <1>1, <1>2, PTL DEF Spec

\* Every variable keeps its type; in particular a key of Redis exists as long
\* as it has time to live.
THEOREM TypeCorrect == Spec => []TypeOK
  BY OwnedAlways, PTL

\* Through rotations, deletions, evictions and fills that come late, the cache
\* answers with the host the token was generated for, and so does a request
\* that was granted.
THEOREM CachedHost == Spec => []CachedHostIsOwner
<1>1. TypeOK /\ Owned => CachedHostIsOwner
  BY DEF Owned, OwnedEntries, OwnedReqs, CachedHostIsOwner
<1> QED
  BY <1>1, OwnedAlways, PTL

----------------------------------------------------------------------------
(* The life of a revoked token. *)

\* A token that is revoked stays revoked: tokens never repeat.
LEMMA RevokedForever ==
    ASSUME TypeOK, [Next]_vars, NEW t \in Tokens, Revoked(t)
    PROVE  Revoked(t)'
<1>1. t <= generated /\ \A h \in Hosts : tokenOf[h] # t
  BY DEF Revoked, Valid
<1>2. CASE UNCHANGED <<tokenOf, generated>>
  BY <1>1, <1>2 DEF Revoked, Valid
<1>3. ASSUME NEW h \in Hosts, Generate(h)
      PROVE  Revoked(t)'
  BY <1>1, <1>3, Bounds DEF Generate, Revoked, Valid, TypeOK
<1>4. ASSUME NEW h \in Hosts, Delete(h)
      PROVE  Revoked(t)'
  BY <1>1, <1>4, Bounds DEF Delete, Revoked, Valid, TypeOK
<1> QED
  BY <1>2, <1>3, <1>4
     DEF Next, Create, RotateToken, Request, Arrive, Hit, Miss, Lookup, LookupError, Set,
         Done, LateSet, Clock, Evict, vars, db

\* Once nobody is about to cache a revoked token, nobody ever will be: it is
\* not found in MariaDB any more.
LEMMA NoLateFill ==
    ASSUME TypeOK, Owned, [Next]_vars, NEW t \in Tokens, Revoked(t), Filling(t) = {}
    PROVE  Filling(t)' = {}
<1>0. \A w \in late' : w.token # t
  <2>1. \A w \in late : w.token # t
    BY DEF Filling
  <2>2. ASSUME NEW r \in Requests, Set(r)
        PROVE  \A w \in late' : w.token # t
    <3>1. req[r].token # t
      BY <2>2 DEF Set, Filling
    <3> QED
      BY <2>1, <2>2, <3>1 DEF Set, redis
  <2> QED
    BY <2>1, <2>2
       DEF Next, Create, RotateToken, Delete, Request, Arrive, Hit, Miss, Lookup, LookupError,
           Done, LateSet, Clock, Evict, vars, redis
<1> SUFFICES ASSUME NEW q \in Requests, req'[q].pc = "set", req'[q].token = t
             PROVE  FALSE
  BY <1>0 DEF Filling
<1>1. ~(req[q].pc = "set" /\ req[q].token = t)
  BY DEF Filling
<1>2. CASE req' = req
  BY <1>1, <1>2
<1>3. ASSUME NEW r \in Requests, Arrive(r) \/ Done(r)
      PROVE  FALSE
  BY <1>1, <1>3 DEF Arrive, Done, Owned, ReqRecords
<1>4. ASSUME NEW r \in Requests, NEW pc \in {"lookup", "granted", "refused"},
             NEW host \in Hosts \cup {None}, Decide(r, pc, host)
      PROVE  FALSE
  BY <1>1, <1>4, DecideLemma DEF Owned
<1>5. ASSUME NEW r \in Requests, Lookup(r)
      PROVE  FALSE
  <2>1. CASE ~Valid(req[r].token)
    BY <1>4, <1>5, <2>1 DEF Lookup
  <2>2. ASSUME NEW h \in Hosts, tokenOf[h] = req[r].token, Decide(r, "set", h)
        PROVE  FALSE
    BY <1>1, <2>2, DecideLemma DEF Owned, Revoked, Valid
  <2> QED
    BY <1>5, <2>1, <2>2 DEF Lookup
<1>6. ASSUME NEW r \in Requests, Hit(r) \/ Miss(r) \/ LookupError(r) \/ Set(r)
      PROVE  FALSE
  <2>1. req[r].pc # "idle" /\ req[r].host \in Hosts \cup {None}
    BY <1>6 DEF Hit, Miss, LookupError, Set, TypeOK
  <2>2. entry[req[r].token] \in Hosts \cup {None}
    BY <2>1, TokenLemma DEF TypeOK
  <2> QED
    BY <1>4, <1>6, <2>1, <2>2 DEF Hit, Miss, LookupError, Set
<1> QED
  BY <1>2, <1>3, <1>5, <1>6
     DEF Next, Create, RotateToken, Delete, Request, LateSet, Clock, Evict, vars

LEMMA AgingInductive ==
    ASSUME TypeOK, Owned, Aging, [Next]_vars
    PROVE  Aging'
<1> SUFFICES ASSUME NEW t \in Tokens, settled'[t] > 0
             PROVE  Revoked(t)' /\ Filling(t)' = {} /\ ttl'[t] + settled'[t] <= TTL
  BY DEF Aging
<1>1. ttl[t] \in 0..TTL /\ settled[t] \in 0..TTL
  BY DEF TypeOK
\* No step but a tick of the clock begins or continues to count, and none but a
\* fill renews an entry.
<1>2. ASSUME Revoked(t), Filling(t) = {}, ttl'[t] + settled'[t] <= TTL
      PROVE  Revoked(t)' /\ Filling(t)' = {} /\ ttl'[t] + settled'[t] <= TTL
  BY <1>2, RevokedForever, NoLateFill
<1>3. CASE Clock
  <2>1. /\ ttl'[t] = IF ttl[t] > 0 THEN ttl[t] - 1 ELSE 0
        /\ settled'[t] = IF Revoked(t) /\ Filling(t) = {} /\ settled[t] < TTL
                         THEN settled[t] + 1 ELSE settled[t]
    BY <1>3 DEF Clock
  <2>2. Revoked(t) /\ Filling(t) = {}
    BY <2>1 DEF Aging
  <2>3. ttl'[t] + settled'[t] <= TTL
    <3>1. CASE settled[t] = 0
      BY <1>1, <2>1, <2>2, <3>1, Bounds
    <3>2. CASE settled[t] > 0
      <4>1. ttl[t] + settled[t] <= TTL
        BY <3>2 DEF Aging
      <4> QED
        BY <1>1, <2>1, <2>2, <4>1, Bounds
    <3> QED
      BY <1>1, <3>1, <3>2
  <2> QED
    BY <1>2, <2>2, <2>3
<1>4. CASE settled' = settled /\ ttl'[t] <= ttl[t] /\ ttl'[t] \in 0..TTL
  BY <1>1, <1>2, <1>4, Bounds DEF Aging
<1>5. ASSUME NEW r \in Requests, Set(r)
      PROVE  settled' = settled /\ ttl'[t] <= ttl[t] /\ ttl'[t] \in 0..TTL
  <2>1. settled' = settled
    BY <1>5 DEF Set
  <2>2. r \notin Filling(t)
    BY <2>1 DEF Aging
  <2>3. req[r].token # t
    BY <1>5, <2>2 DEF Filling, Set
  <2> QED
    BY <1>1, <1>5, <2>1, <2>3 DEF Set, SetEx, redis, TypeOK
<1>7. CASE LateSet
  <2>1. PICK w \in late : SetEx(w.token, w.host) \/ UNCHANGED <<entry, ttl>>
    BY <1>7 DEF LateSet
  <2>2. settled' = settled /\ UNCHANGED <<generated, owner>>
    BY <1>7 DEF LateSet, db
  <2>3. w.token # t
    BY <2>2 DEF Aging, Filling
  <2>4. ttl'[t] = ttl[t]
    BY <2>1, <2>3 DEF SetEx, TypeOK
  <2> QED
    BY <1>1, <1>4, <2>2, <2>4, Bounds
<1>6. CASE Evict
  <2>1. PICK u \in Tokens : ttl' = [ttl EXCEPT ![u] = 0]
    BY <1>6 DEF Evict
  <2>2. ttl'[t] = IF t = u THEN 0 ELSE ttl[t]
    BY <2>1 DEF TypeOK
  <2>3. settled' = settled
    BY <1>6 DEF Evict
  <2> QED
    BY <1>1, <1>4, <2>2, <2>3, Bounds
<1> QED
  BY <1>1, <1>3, <1>4, <1>5, <1>6, <1>7
     DEF Next, Create, RotateToken, Delete, Request, Arrive, Hit, Miss, Lookup, LookupError,
         Done, vars, redis

\* A revoked token is gone from the cache after one life of an entry, counted
\* from the last request that had still found it in MariaDB; nothing that the
\* agents, the handlers, Redis or MariaDB do brings it back.
THEOREM StaleTokens == Spec => []StaleBounded
<1>1. Init => Aging
  BY DEF Init, Aging
<1>2. TypeOK /\ Owned /\ Aging /\ [Next]_vars => Aging'
  BY AgingInductive
<1>3. TypeOK /\ Aging => StaleBounded
  BY Bounds DEF TypeOK, Aging, StaleBounded
<1> QED
  BY <1>1, <1>2, <1>3, OwnedAlways, PTL DEF Spec

=============================================================================
