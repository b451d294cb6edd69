# BangmodMonitor: a TLA+ verification project

BangmodMonitor is a server and uptime monitoring service written in Go. Agents
on customers' machines sample the machine and send the samples to an API; probe
nodes check URLs from several regions; a consumer moves what was sent from
Redpanda (Kafka) into ClickHouse; an alert engine watches ClickHouse and opens
incidents. Hosts, accounts, subscriptions and alert rules live in MariaDB;
Redis caches token validations.

The modules here model the parts of it that have state, concurrency and
failures of their own. The source is the reference: every definition that
models code is mapped to lines of `src/` in `PROJECT.json`, and so is every
hazard that the properties are for. The repository has no tests; what it says of
itself is in the comments of its source files and in its user interface.

1. [The system](#the-system)
2. [The modules](#the-modules)
3. [Runs, bounds and what they show](#runs-bounds-and-what-they-show)
4. [Fairness](#fairness)
5. [Proofs](#proofs)
6. [Where the code and its documentation disagree](#where-the-code-and-its-documentation-disagree)
7. [What is not modelled](#what-is-not-modelled)
8. [Plan](#plan)

## The system

```
  agent ──HTTP/gRPC──▶ API ──▶ Redpanda ──▶ consumer ──▶ ClickHouse ──▶ alert engine
  (WAL file)          │  ▲        ▲                          ▲               │
  probe node ──HTTP───┘  │        │                          │               ▼
                   Redis, MariaDB └── or, without brokers, ──┘       incidents (MariaDB),
                   Stripe webhooks                                    e-mail, chat channels
```

For each component: the state it keeps, what it does, whom it meets, what is
hard about it, and what makes it correct.

**Agent** (`agent/main.go`, `agent/wal`, `agent/sender`, `agent/collector`).
*State*: the JSON-lines file `agent-wal.jsonl`, the entries just drained from it,
and the place in the cycle. *Operations*: at every tick collect a sample, drain the
file and replay what it held, send the fresh sample, append what could not be
sent. *Meets* the API over HTTP or gRPC with a 10 s timeout, the disk, and the
kernel that may kill it. *Hard*: outages that begin and end between any two
requests, a kill between drain and
replay, short writes, errors that are not looked at. *Correct* if what is
acknowledged is not sent again, samples are replayed in order, the buffer does not
grow without bound, and what is buffered is delivered in the end.

**API: token validation** (`api/middleware/auth.go`, `api/cache/redis.go`,
`api/grpcserver/server.go`, `api/handler/host.go`). *State*: `hosts.token_hash` in
MariaDB, cached validations with a TTL of five minutes in Redis. *Operations*:
create, rotate, delete; look up in the cache, then in the database, then fill the
cache. *Meets* itself: every request is a goroutine. *Hard*: a slow fill that
writes what it read before a rotation, or that Redis carries out after its request went on;
stores that fail. *Correct* if a cached
answer names the owner of the token and a revoked token dies out.

**API: ingest and the Kafka producer** (`api/handler/ingest.go`,
`api/handler/probe.go`, `api/grpcserver/server.go`, `api/mq`). *State*: the
producer's batches in memory. *Operations*: convert a payload, publish it
asynchronously, or insert up to three sets of rows directly. *Hard*: the answer is
sent before the broker has the message; inserts fail one by one; narrowing
conversions (`uint8(Cores)`). *Correct* if what is answered with 200 is stored
except for what a crash of the API may lose.

**Consumer** (`consumer/main.go`, `consumer/worker`). *State*: a batch per worker,
the position and the offset to commit in the Kafka reader. *Operations*: fetch,
append, flush when full or on a tick, commit. *Meets* the broker and its
rebalances, ClickHouse, signals, and the other worker (a panic ends both). *Hard*:
offsets are committed before rows are written; a blocking fetch in a `default`
branch; nil batches after an error that was dropped; an exit that does not wait.
*Correct* if a crash costs at most a batch, rows are duplicated by restarts and
rebalances only, and no message stops the worker.

**Alert engine** (`alerter/main.go`, `alerter/evaluator`, `alerter/storage`,
`alerter/notifier`). *State*: incidents in MariaDB, a pass over the rules.
*Operations*: evaluate a rule against ClickHouse, open or resolve its incident,
notify. *Meets* two stores, five kinds of channel, and operators who edit rules.
*Hard*: every call may fail after the one before it took effect, take effect after it was given up
on, or never return. *Correct* if a rule has one open incident at most, notifications follow incidents, missing data
changes nothing, and lasting conditions are acted upon whatever else failed.

**API: accounts, billing** (`api/handler/auth.go`, `api/handler/host.go`,
`api/handler/billing.go`, `api/storage/billing.go`, `api/billing`). *State*: orgs,
users, subscriptions, regions, invoices. *Operations*: register, add hosts and
regions within the plan's limits, apply Stripe's webhook events. *Hard*: several
writes without a transaction, limits checked before and not with the insert,
events that arrive twice or out of order. *Correct* if limits are
exceeded by requests in flight at most, a row's parts belong together whatever arrives,
nothing hangs on an org that nobody can log in to, payments are recorded, and a row
shows what was told last.

**Probe node** (`probe/main.go`, `probe/checker`). *State*: none between rounds.
*Operations*: check every target, one after the other, and post the round.
*Hard*: the report is not repeated. What a check may report is what `probe_down` and
`probe_slow` rules are evaluated on.

**The pipeline** of agent, API, broker and consumer. *State*: the topic, and what each
process holds in memory. *Hard*: an OK comes before the broker has the message, an
offset is committed before its rows are written, and nothing flows back to the agent.
*Correct* if what is lost and what is duplicated is due to failures that can be counted.

**Dashboard, admin and read-only handlers, generated code, deployment**: no state
of their own.

## The modules

| Module | Models | Properties |
| --- | --- | --- |
| `Agent` | collect, the WAL, both senders | below |
| `BestEffortDelivery` | what the agent promises: a sample taken is held, then delivered once or lost | abstract specification |
| `AgentProofs`, `ConsumerProofs`, `TokenCacheProofs`, `IngestProofs`, `PipelineProofs`, `AlertEngineProofs`, `AccountsProofs` | theorems about the module of that name (`ConsumerProofs`: about `ConsumerWorker`) | see [Proofs](#proofs) |
| `SumLemmas` | sums over finite sets, for the proofs | none |
| `ConsumerWorker` | `AgentWorker` and `ProbeWorker`: Run, flush, the Kafka reader, main's shutdown | below |
| `MCConsumerWorker` | the tables and rows of the two workers | none |
| `TokenCache` | validation of tokens over Redis and MariaDB, and the host handlers | below |
| `Ingest` | ingest and probe handlers over HTTP and gRPC, the Kafka producer, direct inserts, the probe node's report | below |
| `MCIngest` | the symmetry of requests | none |
| `Pipeline` | `Ingest` and an instance of `ConsumerWorker` over one topic | below |
| `AlertEngine` | the alert rules and what they read, Evaluator.Run, evaluate, handleState, stores, channels | below |
| `MCAlertEngine` | three ways of filling two rules | none |
| `Accounts` | registration, limits on hosts and regions, checkout and webhook, over the tables | below |
| `MCAccounts` | the symmetries of requests, addresses, Stripe ids and regions | none |

### Agent

One action per step of `collect`: `Collect`, `Drain`/`DrainError`,
`Replay`/`ReplayError`/`Rebuffer`, `SendFresh`/`SendFreshError`, `Buffer`. `pc` is the
place in `collect`; `replay` is the local `entries`. A call of Send is one step,
because the agent does nothing else meanwhile: either the API takes the sample and
answers in time (`SendOk`), or Send returns an error (`SendError`). What the API makes of a
request the agent has given up on is a part of `Ingest`. `Outage`
switches the API and the network at any step. An append writes the line and its
newline, the line only, part of the line, or nothing (`AppendLine`), and a line
glued to an unterminated one is lost with it. `tooLong` says that the file has a
line the scanner refuses: a sample of `LongSamples`, or lines glued together, which may pass the limit although
none of them does. `untruncated`, `undrained` and `lastReplayed` are history variables.
HTTP and gRPC differ only in how an error is found, so one model stands for
both; replay and buffering are the same code twice.

`OldestIsKept` speaks of drains that cut nothing off (`NeverCut`): once a truncation has failed, every
sample is in the file twice, and if a drain then keeps the last `MaxEntries` lines only, it may keep the second copy
of the oldest sample behind younger ones; a replay that fails before it drops it with the rest. Without failed
truncations the length of the file decides, with them the two lines a cycle appends. `OutageKeepsTwo` holds as long as
no Drain and no truncation has failed: after either the file grows by up to two lines a cycle, and `maxEntries` matters.

Properties: `AckedNeverHeld`, `ReplayedInOrder`, `OutageKeepsTwo`, `OldestIsKept`,
`OverflowDropsOldest`, `ReplayedAfterOutage`, and `DeliversOnce`, the refinement of
`BestEffortDelivery` under `taken <- clock, held <- Held, delivered <- acked`.

### ConsumerWorker

`pc` is the place in Run or flush. `Done`, `Ticked` and `Default` are the branches
of the select; Go picks among the ready ones at random, and `Default` runs only if none is.
`Fetch` blocks while `position = topic`. `Commit` queues the offset; `AutoCommit`
sends it to the broker once a second (`CommitInterval`). flush is `Prepare`, which
prepares all tables, and one `SendTable` per table. A nil batch is dereferenced
where rows are appended to it or where it is sent (`Die`). `Signal` cancels the context
and `Exit` is the return of main, at any step after it. `TakePosition` is where the
reader starts: at the committed offset or, without one, at the end of the topic.
`Publish` lets the topic grow by any number of messages at once, as a producer stores a batch.
The other worker is a part of the environment: its panic is a `Crash` of this one.
The instances of `Tables` and `Rows` make the module an `AgentWorker` (three tables,
messages without disks or networks) or a `ProbeWorker` (one table): the two have the
same loop, so one run with three tables checks both. Locals of flush are reset when it returns
(`Leave`). `kills`, `blind`, `drops` and `skipped` are history variables: processes that ended, those
of them that ended before any offset was committed, inserts that failed, and messages the reader
began behind. `LossBounded` counts with them, and it is tight: a process that ends
loses at most `BatchSize - 1` messages, because the offset of the one that fills a batch is committed
after the flush, and a whole batch only if no offset was ever committed.

Properties: `LossBounded`, `OneInsertPerStart`, `NeverStuck`, `TickFlushes`.

### TokenCache

Requests interleave at every access of Redis and MariaDB: `Hit` or `Miss`,
`Lookup`, `Set`. `Create`, `RotateToken` and `Delete` change the hosts table and
nothing else, as in the code, where `invalidateToken` is never called. `Clock` lets
entries age; `Evict` stands for the memory limit of Redis and its restarts. A SETEX whose client timed out is in `late`,
and `LateSet` carries it out whenever it arrives, or drops it: the request has gone on long since.
`settled[t]` is a history variable: the time since `t` was revoked and no request
that had found it in MariaDB had still to cache it.

Properties: `CachedHostIsOwner`, `StaleBounded`, `EventuallyRefused`.

### Ingest

A handler is the sequence of its writes: `AgentWrites` and `ProbeWrites` say which,
with brokers and without. `Receive` starts a request, `Insert`, `Publish` and
`Answer` are its steps, and requests interleave at each of them. `GiveUp` is the
client's timeout: the handler goes on with a cancelled context, so its writes may fail
or not. `SendSample` sends a sample that has no answer yet, first or again,
the way `Agent` does with what it replays; `RunChecks` reports a probe round, once.
`Publish` puts the message in the producer's memory under the partition of its key;
`FormBatch` and `Transmit` are the writer's goroutine, with lost acknowledgements,
retries and dropped batches. `Crash` is any stop of the API: main has no shutdown.
An answer of "ok" to an agent is what `Agent` calls `SendOk`; what reaches `topic` is
what `ConsumerWorker` calls `Publish`. IngestProbe over gRPC inserts directly even
with brokers (`IngestProbe`); nothing in the repository calls it. Which columns a row has
and their widths are left out: `uint8(Cores)` wraps at 256 cores (`ingest.go:75`), and nothing reads it.

`rows` are what the API itself writes, which is everything without brokers. So `PartsFollowMain` is about those rows:
with brokers the consumer sends the three inserts of a batch whatever became of the first (`worker/agent.go:134`), and may
store disks of a sample without its row, which `LossBounded` counts table by table.

Properties: `MissingBounded`, `AnsweredIsStored` (about an API without brokers only; with them an OK is a
promise, which `MissingBounded` and `EndToEndLoss` measure), `PartsFollowMain`, `CopiesBounded`, `OrderPerHost`.

### Pipeline

`Ingest` is extended, `ConsumerWorker` instantiated: `topic <- Len(Log)`, where `Log` is the one
partition of `bangmod.agent-metrics`, so a message of the worker is a position in that log. A
step is one of the API, its clients and the broker (`Api`), one of the worker (`WorkerRun`) or one of
what the worker meets (`WorkerMeets`). `Publish` of `ConsumerWorker` is what `Transmit` does here:
`Reaches` appends to the log. An OK is `acked`, and an agent that reads it drops the sample, as
`Agent` shows.

Properties: `EndToEndLoss` (a sample that was answered with OK has its rows or is on its
way, but for what failures that can be counted have taken), `EndToEndCopies` (its rows are at most
the times it was sent, times lost acknowledgements, times starts of the consumer) and
`AckedIsRead` (it is read in the end, however few follow it).

### AlertEngine

A rule (`AlertRule`) has a kind, a target or none, a channel and a configuration that parses or
not; `condition_type` and `channel` are free text in the table, so both may be unknown. It reads a
`window`: the readings its query covers, oldest first, of the values that the agent's collector
(`Collect`) or the probe's checkers (`CheckHTTP`, `CheckTCP`) produce for its column (`Readings`).
`Measure` adds a reading, `Age` drops the oldest, `Toggle` is an operator who edits `enabled`, all at any step.
`Firing` is what `evaluate` makes of a window: an average above the threshold, or every check down.

A pass takes the enabled rules as they are at its start (`planned`, a history variable,
keeps them). `Evaluate` reads the window into `seen`; `Skip` is a rule that cannot be evaluated, has
no data or whose query fails; `HandleState`
looks for the open incident and decides; `CreateIncident` and `ResolveIncident` may
fail before or after the statement took effect (the answer is lost), or are given up on and carried out
later, or never (`InsertLost`, `UpdateLost`, `LateInsert`, `LateUpdate`): an UPDATE then closes an incident that
a pass may have just found (`pc = "again"`: the engine's own UPDATE succeeds once more), an INSERT opens one that the next pass did
not see; `SlackSend`,
`DiscordSend`, `TelegramSend` and `EmailSend` deliver or fail; `Hang` is a mail server that accepts and
stays silent, for which `email.go` has no deadline; the other three have a client with a timeout of
10 s. `Stall` is a MariaDB that does not answer: the engine's context has no deadline (`alerter/main.go:15`) and the driver
is given no timeout, so it waits for good. `inserts` and `updates` are the writes given up on, `belated` is a history
variable: the open incidents that an INSERT opened late. `Crash` and `Restart` interrupt a pass anywhere.

Properties: `OneOpenIncident` (one, and one more for each INSERT carried out late, until it is closed), `NotifiedOnce`;
`SilentOnlyByFault`: an open incident nobody was told
of is due to a Send, a store or a process that failed, and to nothing else (the engine never
repeats the notification of such an incident); `ActsOnEvidence`: the engine opens and closes an incident only
on a window with a reading that says so, never on an empty one or on a failed query;
`QuietOnceDisabled`: a pass leaves a rule alone that was disabled before it began, so an incident
that is open then stays open; `IncidentFollows`: a condition that lasts opens an incident and a
lasting recovery closes it, whatever is wrong with other rules, unless the process is down or
MariaDB or a mail server keeps silent. The two action properties leave out the steps of MariaDB (`LateWrite`), which were
decided on by an earlier pass.

### Accounts

A request is at one statement of its handler (`pc`) with its locals, and requests
interleave at every statement: `RegisterLookup`, `CreateOrg`, `CreateUser`,
`CreateSubscription`, `DefaultOrgRegion`, `LinkCustomer` are Register;
`HostSubscription`, `HostCount`, `CreateHost` are HostHandler.Create;
`RegionSubscription`, `RegionCount`, `AddOrgRegion` are AddRegion; `CheckoutCompleted`
and `Bind`, `InvoicePaid`, `Renew` and `UpsertInvoice`, and `StatusEvent` are the
webhook. Every statement may fail, before it took effect or after (its answer is lost), and what the code does then
differs: an error ends the first two writes of Register, so that an org or a user may be left whom nothing follows, and
is dropped by the others, where a lost answer makes no difference (`Does`); a subscription that cannot be
read lifts the host limit, and forbids regions; a count that cannot be read is 0;
a plan that cannot be read allows nothing; a lookup by Stripe id that fails yields
a row that names no org. A process that dies is a request that never goes on, and a statement that takes effect after its
request was given up on is a request that takes its step later and is in flight until then; both are
behaviours of the model. `Buy` is Checkout followed by the payment at Stripe, after
which Stripe may deliver any event of the subscription, any number of times and in
any order. History variables are `unchecked` (creations let through without a limit), `paid`
(payments told that found a row of an org) and `latest` (the status the last event of a subscription asked
for, as far as its events were handled one by one and no update of them failed).
Invoices are counted per org. `Bind` may write an empty status, since an event may carry the id of a
subscription only, and may be refused by the database without a failure, since the end of its period is
then 1970 (`billing.go:154`). `Login` is what lets a user act for an org.
Every org keeps the free plan, because `UpdateSubscriptionPlan` has no caller: a
checkout pays for a plan that is never recorded.

Properties: `HostsBounded`, `RegionsBounded`, `RowConsistent`, `NoOrphanData`, `InvoicesExact` (an org has
one invoice for each payment told while its row was bound, none but for a failure is
missing, and none is another org's), `LatestShows` (the order of arrival decides which status a row
shows).

## Runs, bounds and what they show

Every property of a passing run has a mutant in `PROJECT.json`: a plausible bug in
a mapped definition that makes TLC report that property.

| Run | Instance | What it shows |
| --- | --- | --- |
| `agent_outage` | 5 samples, no limit reached, failing truncations | Replays are in order; the oldest sample stays until it is acknowledged, and is acknowledged once the API stays up. |
| `agent_faults` | 5 samples, `MaxEntries = 2`, sample 2 too long, no WAL, crashes, torn and failed appends, unreadable file | Nothing acknowledged is sent again; an outage leaves the oldest and the newest sample on disk, as long as every Drain succeeds; an overflow drops the oldest; the agent implements `BestEffortDelivery`. |
| `agent_loss` | 3 samples, no faults | *Violation*: an outage of three ticks loses the sample in the middle. |
| `consumer` | batches of 2, 3 tables, 4 messages, one poison, 2 starts or rebalances, 1 failed insert, every kind of failure | Loss and duplication are bounded, whatever fails; Run reads on; a tick flushes when another message arrives. |
| `consumer_quiet` | no faults | *Violation*: without another message the batch stays in memory. |
| `token_cache` | 2 hosts, 2 requests in flight, 2 tokens, TTL of 2, 1 fault or late SETEX | Cached answers name the owner; a revoked token dies out within a TTL after the last fill. |
| `token_revoked` | 1 host, 1 request | *Violation*: a rotated token is accepted from the cache. |
| `ingest` | 1 host, 2 samples, a round of 2 targets, 2 requests in flight, 3 in all, batches of 2, 2 partitions, 2 faults, with brokers and without | An OK loses only what failed itself or a crash took; without brokers the host's row is there; copies are due to retries; a host's messages keep their order. |
| `pipeline` | 1 host, 2 samples, 2 requests, 1 fault of the API, batches of 1 and of 2, 2 starts of the consumer, 1 failed insert | What an agent was told is stored is in ClickHouse or on its way, but for counted failures; copies multiply and are bounded; it is read in the end. |
| `alert_engine` | 2 rules in 3 fillings (every kind, every channel, a configuration that does not parse, a rule without a target), windows of 2, 4 changes, 2 faults | Incidents and notifications stay in step; only readings open or close; a disabled rule is left alone; lasting conditions are acted upon; an incident stays silent only after a failure. |
| `accounts` | 2 orgs, 2 addresses, 2 requests in flight, 5 in all, 2 Stripe subscriptions, 3 regions, limits of 1, 1 fault or lost answer | An org exceeds its plan at most by the requests in flight and those that found no limit; a subscription row is always consistent; a half-done registration leaves an empty org at most; payments are recorded as often as they are told; the last event decides the status. |
| `accounts_checkout` | 2 orgs, 1 request at a time | *Violation*: the subscription one org bought is bound to another one. |

Why these bounds are enough. *Agent*: five samples are an outage with a first, a
middle and a newest sample, and one before and after it; with five samples and
`MaxEntries = 2` the file overflows while it cannot be opened. The agent's state depends on
the order of samples only. *Consumer*: a batch of two fills and leaves a rest; four messages with
one poison are one full batch and one message more; two starts are a first run and
one that resumes; one failed insert tells a loss by failure from one by a kill. *Pipeline*: two samples
are one that is answered for and one behind it, or one sent twice; the batch of 1 in the
producer is a batch that leaves by its timeout, and `ConsumerBatch = 2` is one the consumer has
to wait for; kills of the consumer come from signals. *Tokens*: a rotation needs two tokens; two requests are a slow
fill and one that overtakes it; a TTL of two is an entry that has aged and not
expired. *Alerts*: a window of two readings holds a good and a bad one, whose average can be on either side;
four changes are a condition, its end and a gap or a disabled rule
between; two faults hit two calls of the same incident, as in an INSERT that is given up on and a second one whose
answer is lost, while the first is carried out late. *Ingest*: three requests are
a sample, its retry and a second sample, more than one batch holds; two partitions are a
right one and a wrong one. *Accounts*: two requests at a time are all the races between a
check and its use; five in all are two registrations, a checkout event and two more;
`Extra` is 0 instead of 10 so that the limit on regions is reached. Symmetry is used in
`accounts` and `ingest` only, which check no liveness. Bounds of the
models only (nothing of the kind is in the code) are `MaxSamples`, `MaxMsgs`,
`MaxStarts`, `MaxDrops`, `MaxTokens`, `MaxWindow`, `MaxChanges`, `MaxOrgs`, `MaxRequests`, `MaxHosts`, `MaxUrls`, `MaxRounds` and `MaxFaults`; each one is a guard and named
so where it is declared.

Deadlock is checked in the runs of `Agent` and `TokenCache`. The consumer really stops
(a fetch on a topic that stays empty, a last process that exited), the alert engine
does when a mail server hangs or it has died, and `Ingest`, `Pipeline` and `Accounts` do when no more
requests arrive, so there it is off.

## Fairness

*Agent*, `WF_vars(Cycle)`: the ticker calls `collect`, and every call in it returns,
because Send has a timeout. Nothing is assumed of the network: outages may last
forever, and `ReplayedAfterOutage` says so in its conclusion.

*Consumer*, `WF(Run)`, `WF(Tick)`, `SF(Default)`, `SF(Fetch)`: the goroutine is
scheduled and the driver's calls return; the ticker (500 ms for agent
metrics, 1 s for probe results) is slow against the loop, so `select` finds no tick again
and again; a fetch does not fail forever while there is a message. Nothing is assumed
of those who publish, of signals or of crashes.

*Pipeline*: the same for the worker's `Run`, `Default` and `Fetch`, and weak fairness of the producer's goroutine
(`FormBatch`, `Transmit`), which a writer of kafka-go runs until it is closed: a batch leaves when
`BatchTimeout` has passed, and retries are bounded. Nothing is assumed of agents, handlers, ticks, signals or
restarts.

*TokenCache*, `WF(Clock)`, `WF(Request(r))` and `WF(LateSet)`: time passes, a request is
served, and a command on its way to Redis arrives there or is lost with its connection. Nothing makes requests come, handlers run, or stores fail.

*AlertEngine*, `WF(Pass)`: the ticker starts passes and calls return, unless a mail server or MariaDB keeps silent
(`Hang`, `Stall`); the clients of the web hooks and the driver of ClickHouse have a timeout. MariaDB need not carry out what
was given up on. No restart is assumed (`docker-compose.yml` has no restart policy): a process
that is down, or waits for MariaDB or a mail server, excuses `IncidentFollows`, but only while it does, since
after a restart the same condition asks for it again. Failures are bounded,
which stands for "not forever".

## Proofs

Every safety property of the passing runs, invariant or action property, is a theorem too, and so is the
refinement of `BestEffortDelivery`: it holds for every value of the constants that the named assumption of the
module allows, whatever number of samples, requests, hosts, rules or failures. The assumptions
(`AgentAssumption`, `ConsumerAssumption`, `TokenAssumption`, `IngestAssumption`, `PipelineAssumption`,
`AlertAssumption`, `AccountsAssumption`) say that bounds are natural numbers, that sizes and limits are not 0 where
the code's are not, and that a value for "none" is none of the others; only `PipelineAssumption` narrows the system, to
one partition and no probe node.

Each theorem of the form `Spec => []P` is proved from an invariant that is inductive, `P` being seldom so. A
step of the proof is a lemma for each action, and the last lemma of each part puts them together.

**`AgentProofs`**

| Theorem | Says | From |
| --- | --- | --- |
| `TypeCorrect` | `[]TypeOK` | `Coupled` |
| `NeverResent` | `[]AckedNeverHeld` | `Ordered` |
| `ReplayOrder` | `ReplayedInOrder` | `Ordered` |
| `Refinement` | `DeliversOnce`, if `"truncate" \notin Faults` | `Ordered` |
| `FileStaysShort` | `[]OutageKeepsTwo` | `Short` |
| `OldestSurvives` | `OldestIsKept` | `Ordered`, `Copied` |
| `OverflowIsOldest` | `OverflowDropsOldest` | `Ordered` |

`TypeOK` is not inductive alone: that the fresh sample exists, and that an unterminated line is there to be dropped,
are needed to type what `Append` and `Front` yield; `Coupled` says that much. `InOrder`: what is buffered is ascending, lies
either in the file or in memory, is younger than everything replayed and older than the
fresh sample, and nothing of it was acknowledged. `InOrder` would be lost once a
truncation fails, so the invariant is `Ordered`, that is, `~untruncated => InOrder`.
`Refinement` maps `Collect` to `Take`, `Replay` and `SendFresh` to `Deliver`, and every other step to `Lose` or to
a stutter; that a delivery removes exactly one sample is where `InOrder` is used.
`Short` bounds the file at each point of the cycle, where no Drain and no truncation has failed. For `OldestIsKept` the order has to
survive failed truncations: `Copied` says that the *first* copies of samples are in order, that what is being replayed is the end of
the file, and that a cycle adds two lines at the most. Its proof showed that the property does
not hold once a drain cuts the file (see `NeverCut` above).

**`ConsumerProofs`**

| Theorem | Says | From |
| --- | --- | --- |
| `TypeCorrect` | `[]TypeOK` | `Steady` |
| `OnceAStart` | `[]OneInsertPerStart` | `Once` |
| `LossesAreBounded` | `[]LossBounded` | `Charged` |

`Steady` says what the locals of flush are between two flushes. `Once`: for each table, a message is in the table,
due to it from the batch, or ahead of the reader, and all three together are counted by `starts`. `Charged`: there is a set
of messages, no larger than the budget of `LossBounded`, that covers all messages nobody will insert any
more; while a full batch is flushed, all of its messages but one may be committed and not stored, because the offset of the message that
filled it comes after the flush, or they are charged already. The set is a witness that each kill and each failed insert
extends (`ChargeDie`, `ChargeFail`), by less than a batch and by a batch.

**`IngestProofs`**

| Theorem | Says | From |
| --- | --- | --- |
| `TypeCorrect` | `[]TypeOK` | `Answered` |
| `AnswersAreTrue` | `[]AnsweredIsStored` | `Answered` |
| `MainComesFirst` | `[]PartsFollowMain` | `Answered` |
| `LossesAreFailures` | `[]MissingBounded` | `FailedOnly` |
| `OneOrderPerHost` | `[]OrderPerHost` | `Ordered` |
| `CopiesAreSent` | `[]CopiesBounded` | `Budgeted` |

`Answered` says of each request what it is still to write (`Honest`): nothing but its own items, and the row of a disk or
a network only after the row of its sample. `FailedOnly` counts what is due, answered or not yet, and held nowhere:
the answer comes later than the loss, so `MissingBounded` is not inductive. `Ordered` describes a partition from queue over batch
to log (`InLane`): either the batch is younger than the log or, after a lost acknowledgement, the log has all of it.
`Budgeted` counts an item's writers, messages and rows against the times it was sent: what may still be multiplied
is at most the times it was sent, so that a lost acknowledgement adds at most that many.

**`PipelineProofs`**

| Theorem | Says | From |
| --- | --- | --- |
| `PipelineIngests` | `PipelineSpec => Spec` (of `Ingest`) | |
| `PipelineConsumes` | `PipelineSpec => Spec` (of `ConsumerWorker`, over the log) | `Volume` |
| `EveryLossIsCounted` | `[]EndToEndLoss` | `Halves` |
| `EveryCopyIsCounted` | `[]EndToEndCopies` | `Halves` |

The two halves are not proved again. Each step of the pipeline is one of `Ingest`, or leaves its variables alone, and one of
`ConsumerWorker`, or leaves its own alone: what the API does to the log is what `Publish` of the worker
allows. For that the log must stay within the bound of the worker's topic, which `Volume` shows: a request publishes one
message at most, and a lost acknowledgement doubles no more than was published. So the theorems of
`ConsumerProofs` are cited for an instance of it, after `SameAssumption` has shown its assumption, and the invariants of
`IngestProofs` hold as they are (`Halves`). The rest is counting: a missing sample is
either not in the log, and then it is one of what the API lost, or its messages are what the worker lost or
began behind; both maps are one to one, since an item has one sample and a position one item.

**`TokenCacheProofs`**

| Theorem | Says | From |
| --- | --- | --- |
| `TypeCorrect` | `[]TypeOK` | `Owned` |
| `CachedHost` | `[]CachedHostIsOwner` | `Owned` |
| `StaleTokens` | `[]StaleBounded` | `Aging` |

`Owned`: every copy of a token's host, in MariaDB, in Redis, on its way there or in a request that is about to fill the cache, is the
host it was generated for. `Aging`: once a token is settled, no request will fill its entry again, and what is
left of the entry's life and what has passed make one TTL at most.

**`AlertEngineProofs`**

| Theorem | Says | From |
| --- | --- | --- |
| `TypeCorrect` | `[]TypeOK` | `Sound` |
| `OneIncident` | `[]OneOpenIncident` | `Sound` |
| `Notifications` | `[]NotifiedOnce` | `Sound` |
| `SilenceCosts` | `[]SilentOnlyByFault` | `Sound`, `Paid` |
| `DisabledRules` | `QuietOnceDisabled` | `Sound` |
| `EvidenceDecides` | `ActsOnEvidence` | `Judged` |

`Sound` says what the engine knows at each place of a pass: that where it is about to store an incident all that are open
came late (`Fresh`), that the notification it is about to send was not counted yet (`Owed`), and that the rule it works on was
enabled when the pass began (`Planned`). `SilenceCosts` needs `Paid` besides, which charges an INSERT when it is given up on and not
when it is carried out. `Judged`: what handleState is about to write is what `Firing` makes of the window. That an
average above the threshold takes a reading above it (`AverageLemma`) rests on `SumLemmas`.

**`AccountsProofs`**

| Theorem | Says | From |
| --- | --- | --- |
| `TypeCorrect` | `[]TypeOK` | `Reached` |
| `NoOrphans` | `[]NoOrphanData` | `Reached` |
| `RowsConsistent` | `[]RowConsistent` | `Reached`, `Named` |
| `LatestIsShown` | `[]LatestShows` | `Reached`, and itself |
| `HostsAreBounded` | `[]HostsBounded` | `Placed` |
| `RegionsAreBounded` | `[]RegionsBounded` | `Extended` |
| `InvoicesAreExact` | `[]InvoicesExact` | `Reached`, and itself |

`Reached` says what a request has established when it is at a statement. `Named`: a row carries
only a Stripe subscription that was sold. `Placed` and `Extended` count the requests that are past their check, each of them one host or
one region that is not there yet; that is why the bound is the number of *other* requests in flight.

**`SumLemmas`**: a sum over a finite set exists, is a natural number, is at least the smallest and at most the largest term times
the number of terms, and no term exceeds it (`SumAtLeast`, `SumAtMost`). The prover cannot instantiate an
induction theorem; the induction is over the *set* of subsets that have the property (`SetInduction`), from the least
number of elements that one without it would have (`LeastNat`).

Model-checked only: the liveness properties `ReplayedAfterOutage`, `NeverStuck`,
`TickFlushes`, `AckedIsRead`, `EventuallyRefused` and `IncidentFollows`, since the prover has no rules for
fairness; and the properties that the code violates, each in a run of its own.

## Where the code and its documentation disagree

1. `wal.go:2-4` promises no loss during outages. A failed replay appends again only
   the entry that failed (`agent/main.go:103`, `:119`), after the file was
   truncated: all entries behind it are lost. Run `agent_loss`; and `OutageKeepsTwo`
   proves that at most two samples of an outage are ever on disk, so that the
   limit of 2000 entries is never reached that way.
2. `ingest.go:95` says that the consumer writes to ClickHouse. On a quiet topic it
   does not look at its ticker (`worker/agent.go:84`). Run `consumer_quiet`.
3. `redis.go:3-4` and `host.go:134` say that a rotated token stops working
   immediately. Nothing deletes it from the cache. Run `token_revoked`.
4. `billing.go:36` says that Overview returns the org's current subscription. A
   completed checkout is written to any row without a Stripe id
   (`billing.go:152`), the buyer's or not. Run `accounts_checkout`.

Met while modelling, stated by the actions and checked by no run of its own: a line over
64 KiB makes every later Drain fail (`wal.go:77`, action `DrainError`), although
`wal.go:53-54` says that Drain returns all entries; a failed notification is never
repeated (`evaluator.go:114`); an answer that says `stored` counts results whose
insert failed (`probe.go:73`, `server.go:159`); an invoice event delivered twice makes
two invoices (`storage/billing.go:189`, `InvoicesExact`), and a late `invoice.paid` reactivates a
cancelled subscription (`billing.go:167`, `LatestShows`); a database error lifts the host limit (`host.go:63`);
the first `invoice.paid` of a subscription is dropped if it comes before its checkout was bound, and the
empty status that the checkout wrote then stays (`billing.go:164`); a checkout delivered twice binds a
second org's row to the same subscription (`billing.go:152`), and is dropped with 200 when no row has
an empty Stripe id; a reading of the collector that fails is sent as 0 and may close an incident
(`system.go:72`), and so may the short time of a refused check, since the average of `probe_slow` covers
failed checks too (`evaluator.go:84`); what a mail server answers to the end of a message is dropped with the
deferred Close, so a refused mail is logged as sent (`email.go:64`); a consumer that ends before its first
commit loses all it has read, because it begins again at the end of the topic (`agent.go:59`).

Five behaviours are ones that the properties describe and cannot catch, because the code does them without any failure
of its steps or because a property counts them in: that the incident of a disabled rule stays open, that a creation
without a subscription row to read finds no limit (`unchecked`), that an invoice event delivered twice is two invoices
(`paid`), that a late `invoice.paid` decides the status (`latest`), and that a failed reading is a reading of 0. `PROJECT.json`
lists them as hazards with a note and, where nothing else about them is checked, without properties.

## What is not modelled

Texts of notifications and pages, logging, routing, SQL and JSON syntax: no property depends on them. Of
the measurements only the columns that alert rules read are modelled, as small sets of values. The
collector's other fields, the lists of applications and processes, and the configuration are read
once per call and decide nothing. Reading handlers (`List`, `Metrics`, `Overview`, `Invoices`, `admin.go`,
`metrics.go`) and the materialised views of ClickHouse change nothing that is read back to decide. `Portal` calls Stripe and
changes nothing here. The dashboard calls the API and keeps nothing shared. The generated code
(`gen/`, 985 lines) is a field by field encoding, and the load generator and the scripts are
not part of the running system. How long Kafka and ClickHouse keep data, amounts of invoices and
dates of subscriptions, and the widths of columns are left out: nothing in the code reads them back to decide.

## Plan

Done, in this order: `Agent` with its abstract specification, `ConsumerWorker`, `TokenCache`, `AlertEngine`, `Accounts`,
`Ingest`, and `Pipeline`, which composes `Ingest` and `ConsumerWorker`; then the proofs of all their safety
properties. To come:

1. An abstract specification of `Pipeline`, where rows of a sample appear, each for a time it was sent, and are never
   taken back; and the proof that `Pipeline` implements it, from `Halves`.
2. Safety lemmas towards the liveness properties: that `Run` is enabled wherever `NeverStuck` needs it, and that each of its
   steps comes closer to the next fetch.
3. `ConsumerProcess`: two `ConsumerWorker`s with one context, where a panic of one ends both.
