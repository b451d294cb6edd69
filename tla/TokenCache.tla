----------------------------- MODULE TokenCache -----------------------------
(***************************************************************************)
(* Validation of agent tokens: the Redis cache (api/cache/redis.go), the   *)
(* middleware and the gRPC handler that fill it on a miss, the hosts table *)
(* in MariaDB, and the handlers that create, rotate and delete hosts       *)
(* (api/handler/host.go).  Requests and handlers interleave at every       *)
(* access of Redis and MariaDB.                                            *)
(*                                                                         *)
(* Tokens are 32 random bytes; they are numbered in the order they are     *)
(* generated in and never repeat.                                          *)
(***************************************************************************)
EXTENDS Integers, FiniteSets

CONSTANTS
    Hosts,       \* ids of hosts (UUIDs: never used again)
    Requests,    \* requests in flight at the same time
    None,        \* no host
    TTL,         \* tokenTTL in ticks of the model's clock (5 minutes)
    MaxTokens,   \* bound of the model: tokens ever generated
    MaxFaults    \* bound of the model: failures of Redis and MariaDB

Tokens == 1..MaxTokens

ASSUME TokenAssumption ==
    /\ TTL \in Nat \ {0} /\ MaxTokens \in Nat /\ MaxFaults \in Nat
    /\ None \notin Hosts

VARIABLES
    tokenOf,     \* hosts.token_hash: the current token of a host; 0 before
                 \* the host is created, -1 once it is deleted
    generated,   \* tokens generated so far
    owner,       \* host a token was generated for
    entry,       \* Redis: the host a token is cached for
    ttl,         \* Redis: ticks until the entry expires
    late,        \* SETEXs whose request has gone on, on their way to Redis
    req,         \* where each request is, its token and the host it found
    faults,
    settled      \* ticks since a token was revoked and nobody who had found
                 \* it in MariaDB was still to cache it

db    == <<tokenOf, generated, owner>>
redis == <<entry, ttl, late>>
vars  == <<db, redis, req, faults, settled>>

Valid(t) == \E h \in Hosts : tokenOf[h] = t
Revoked(t) == t <= generated /\ ~Valid(t)

\* Requests that have found t in MariaDB and will cache it, and commands
\* that still do so although their request does not wait any more.
Filling(t) ==
    {r \in Requests : req[r].pc = "set" /\ req[r].token = t}
        \cup {w \in late : w.token = t}

Fault == faults < MaxFaults /\ faults' = faults + 1

Init ==
    /\ tokenOf = [h \in Hosts |-> 0]
    /\ generated = 0
    /\ owner = [t \in Tokens |-> None]
    /\ entry = [t \in Tokens |-> None] /\ ttl = [t \in Tokens |-> 0]
    /\ late = {}
    /\ req = [r \in Requests |->
                 [pc |-> "idle", token |-> 0, host |-> None, since |-> "none"]]
    /\ faults = 0
    /\ settled = [t \in Tokens |-> 0]

----------------------------------------------------------------------------
(* HostHandler: Create, RotateToken, Delete.  None of them touches Redis.  *)

Generate(h) ==
    /\ generated < MaxTokens
    /\ generated' = generated + 1
    /\ owner' = [owner EXCEPT ![generated + 1] = h]
    /\ tokenOf' = [tokenOf EXCEPT ![h] = generated + 1]

Create(h) ==
    /\ tokenOf[h] = 0
    /\ Generate(h)
    /\ UNCHANGED <<redis, req, faults, settled>>

RotateToken(h) ==
    /\ tokenOf[h] > 0
    /\ Generate(h)
    /\ UNCHANGED <<redis, req, faults, settled>>

Delete(h) ==
    /\ tokenOf[h] > 0
    /\ tokenOf' = [tokenOf EXCEPT ![h] = -1]
    /\ UNCHANGED <<generated, owner, redis, req, faults, settled>>

----------------------------------------------------------------------------
(* Auth and IngestMetrics: tokenCache.Get, maria.ValidateToken,            *)
(* tokenCache.Set.                                                         *)

\* `since' says whether the token was already revoked when the request came.
Arrive(r) ==
    /\ req[r].pc = "idle"
    /\ \E t \in 1..generated :
        req' = [req EXCEPT ![r] = [pc |-> "get", token |-> t, host |-> None,
                                   since |-> IF Valid(t) THEN "valid" ELSE "revoked"]]
    /\ UNCHANGED <<db, redis, faults, settled>>

\* Decide(r, pc, host): the request moves on.
Decide(r, pc, host) ==
    req' = [req EXCEPT ![r] = [@ EXCEPT !.pc = pc, !.host = host]]

\* Mutant: every hit extends the entry's life.
HitExtends(r) ==
    /\ req[r].pc = "get"
    /\ entry[req[r].token] # None
    /\ Decide(r, "granted", entry[req[r].token])
    /\ ttl' = [ttl EXCEPT ![req[r].token] = TTL]
    /\ UNCHANGED <<db, entry, late, faults, settled>>

Hit(r) ==
    /\ req[r].pc = "get"
    /\ entry[req[r].token] # None
    /\ Decide(r, "granted", entry[req[r].token])
    /\ UNCHANGED <<db, redis, faults, settled>>

\* No entry, or Redis does not answer: both are a miss.
Miss(r) ==
    /\ req[r].pc = "get"
    /\ \/ entry[req[r].token] = None /\ UNCHANGED faults
       \/ Fault
    /\ Decide(r, "lookup", None)
    /\ UNCHANGED <<db, redis, settled>>

\* Mutant: the query finds some host with a token.
LookupAnyHost(r) ==
    /\ req[r].pc = "lookup"
    /\ IF Valid(req[r].token)
       THEN \E h \in Hosts : tokenOf[h] > 0 /\ Decide(r, "set", h)
       ELSE Decide(r, "refused", None)
    /\ UNCHANGED <<db, redis, faults, settled>>

Lookup(r) ==
    /\ req[r].pc = "lookup"
    /\ IF Valid(req[r].token)
       THEN \E h \in Hosts : tokenOf[h] = req[r].token /\ Decide(r, "set", h)
       ELSE Decide(r, "refused", None)
    /\ UNCHANGED <<db, redis, faults, settled>>

\* An error of MariaDB is an invalid token.
LookupError(r) ==
    /\ req[r].pc = "lookup"
    /\ Fault
    /\ Decide(r, "refused", None)
    /\ UNCHANGED <<db, redis, settled>>

\* Mutant: SET instead of SETEX.
SetForever(r) ==
    /\ req[r].pc = "set"
    /\ entry' = [entry EXCEPT ![req[r].token] = req[r].host]
    /\ Decide(r, "granted", req[r].host)
    /\ UNCHANGED <<db, ttl, late, faults, settled>>

\* Redis carries out a SETEX.
SetEx(token, host) ==
    /\ entry' = [entry EXCEPT ![token] = host]
    /\ ttl' = [ttl EXCEPT ![token] = TTL]

\* SetEx may fail; the request goes on.  If it timed out, Redis may still
\* carry it out, much later.
Set(r) ==
    /\ req[r].pc = "set"
    /\ \/ SetEx(req[r].token, req[r].host) /\ UNCHANGED <<late, faults>>
       \/ Fault /\ UNCHANGED redis
       \/ /\ Fault /\ UNCHANGED <<entry, ttl>>
          /\ late' = late \cup {[token |-> req[r].token, host |-> req[r].host,
                                  no |-> faults]}
    /\ Decide(r, "granted", req[r].host)
    /\ UNCHANGED <<db, settled>>

Done(r) ==
    /\ req[r].pc \in {"granted", "refused"}
    /\ req' = [req EXCEPT ![r] = [pc |-> "idle", token |-> 0, host |-> None,
                                  since |-> "none"]]
    /\ UNCHANGED <<db, redis, faults, settled>>

----------------------------------------------------------------------------
(* The environment: late commands, time, and evictions from Redis. *)

\* A command whose request has gone on arrives at Redis, or never does.
LateSet ==
    /\ \E w \in late :
        /\ late' = late \ {w}
        /\ SetEx(w.token, w.host) \/ UNCHANGED <<entry, ttl>>
    /\ UNCHANGED <<db, req, faults, settled>>

Clock ==
    /\ ttl' = [t \in Tokens |-> IF ttl[t] > 0 THEN ttl[t] - 1 ELSE 0]
    /\ entry' = [t \in Tokens |-> IF ttl[t] > 1 THEN entry[t] ELSE None]
    /\ settled' = [t \in Tokens |->
                      IF Revoked(t) /\ Filling(t) = {} /\ settled[t] < TTL
                      THEN settled[t] + 1 ELSE settled[t]]
    /\ UNCHANGED <<db, late, req, faults>>

Evict ==
    /\ Fault
    /\ \E t \in Tokens :
        /\ entry' = [entry EXCEPT ![t] = None]
        /\ ttl' = [ttl EXCEPT ![t] = 0]
    /\ UNCHANGED <<db, late, req, settled>>

Request(r) ==
    \/ Hit(r) \/ Miss(r) \/ Lookup(r) \/ LookupError(r) \/ Set(r) \/ Done(r)

Next ==
    \/ \E h \in Hosts : Create(h) \/ RotateToken(h) \/ Delete(h)
    \/ \E r \in Requests : Arrive(r) \/ Request(r)
    \/ LateSet \/ Clock \/ Evict

Spec == Init /\ [][Next]_vars

\* Time passes, a request that has come is served, and a command on its way
\* to Redis arrives or is lost.
FairSpec ==
    /\ Spec /\ WF_vars(Clock) /\ WF_vars(LateSet)
    /\ \A r \in Requests : WF_vars(Request(r))

----------------------------------------------------------------------------
(* Properties *)

\* Type invariant.
TypeOK ==
    /\ tokenOf \in [Hosts -> -1..generated]
    /\ generated \in 0..MaxTokens
    /\ owner \in [Tokens -> Hosts \cup {None}]
    /\ entry \in [Tokens -> Hosts \cup {None}]
    /\ ttl \in [Tokens -> 0..TTL]
    /\ \A t \in Tokens : entry[t] = None <=> ttl[t] = 0
    /\ late \subseteq [token : 1..generated, host : Hosts, no : 0..MaxFaults]
    /\ \A r \in Requests :
        /\ req[r].pc \in {"idle", "get", "lookup", "set", "granted", "refused"}
        /\ req[r].token \in 0..generated
        /\ req[r].host \in Hosts \cup {None}
    /\ faults \in 0..MaxFaults
    /\ settled \in [Tokens -> 0..TTL]

\* A cached answer never names another host than the one the token was made
\* for, through rotations, deletions and slow fills.
CachedHostIsOwner ==
    /\ \A t \in Tokens : entry[t] # None => entry[t] = owner[t]
    /\ \A r \in Requests : req[r].pc = "granted" => req[r].host = owner[req[r].token]

\* A revoked token lives on in the cache for tokenTTL at the most, counted
\* from the last fill that had read it from MariaDB before, be it one that
\* its request gave up on: hits do not extend an entry, and no fill can bring
\* it back.
StaleBounded == \A t \in Tokens : settled[t] = TTL => entry[t] = None /\ Filling(t) = {}

\* A revoked token is refused for good after a while, however often the
\* agent presents it.
EventuallyRefused ==
    \A t \in Tokens : Revoked(t) ~> [](entry[t] = None /\ Filling(t) = {})

\* redis.go:3-4, host.go:134: a request that comes after its token was
\* rotated or its host deleted is refused.
RefusedOnceRevoked ==
    \A r \in Requests : req[r].since = "revoked" => req[r].pc # "granted"

============================================================================
