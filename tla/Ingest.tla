------------------------------- MODULE Ingest -------------------------------
(***************************************************************************)
(* How samples and probe results enter the system: the ingest handlers of  *)
(* the API over HTTP (api/handler/ingest.go, probe.go) and gRPC            *)
(* (api/grpcserver), the asynchronous Kafka producer (api/mq), and the     *)
(* direct inserts into ClickHouse when no brokers are configured.          *)
(*                                                                         *)
(* A handler is a sequence of writes, each of them an insert or a publish. *)
(* Both transports run the same writes.  The agents that send the samples  *)
(* again are module Agent; here they are whoever has no answer yet.        *)
(***************************************************************************)
EXTENDS Integers, Sequences, FiniteSets, Functions

CONSTANTS
    MaxHosts, MaxSamples,  \* bounds of the model
    MaxRequests,           \* bound of the model: requests ever made
    MaxUrls, MaxRounds,    \* bounds of the model: targets and rounds of a probe node
    Requests,              \* requests in flight at the same time
    Partitions,            \* partitions of a topic
    BatchSize,             \* kafka.Writer: messages of a batch (100)
    MaxFaults              \* bound of the model

ASSUME IngestAssumption ==
    /\ {MaxHosts, MaxSamples, MaxRequests, MaxUrls, MaxRounds, MaxFaults} \subseteq Nat
    /\ {Partitions, BatchSize} \subseteq Nat \ {0}

Samples == (1..MaxHosts) \X (1..MaxSamples)

\* What one write stores: a row of a table, of a host's or a target's key.
Item(table, key, n) == [table |-> table, key |-> key, n |-> n]
SampleItems == {Item(t, s[1], s[2]) : t \in {"agent", "disk", "net"}, s \in Samples}
ProbeItems  == {Item("probe", u, n) : u \in 1..MaxUrls, n \in 1..MaxRounds}
Items       == SampleItems \cup ProbeItems

\* kafka.Hash: a topic for samples and one for results, partitioned by key.
TopicPartitions == {"agent", "probe"} \X (0..Partitions - 1)

\* Mutant: partitions in turn, whatever the key.
PartitionInTurn(i) == <<i.table, (i.key + i.n) % Partitions>>

PartitionOf(i) == <<i.table, i.key % Partitions>>

VARIABLES
    enabled,    \* brokers are configured
    up,         \* the API process runs
    req,        \* requests: the writes to do, whose they are, is the client waiting
    rows,       \* ClickHouse: rows of an item
    queue,      \* producer: messages accepted by WriteMessages
    batch,      \* producer: the batch of a partition on its way to the broker
    topic,      \* the broker's log
    sends,      \* how often an agent has sent a sample
    rounds,     \* rounds the probe node has reported
    started,    \* requests made so far
    acked,      \* history: items of requests whose client read an OK
    published,  \* history: number of messages accepted by WriteMessages
    failed,     \* history: items whose write failed, and messages dropped
    lostAcks,   \* history: batches sent again though the broker has them
    faults, crashed

clients == <<sends, rounds, started>>
kafka   == <<queue, batch, topic, published, lostAcks>>
vars    == <<enabled, up, req, rows, kafka, clients, acked, failed, faults, crashed>>

Idle == [todo |-> <<>>, items |-> {}, client |-> 0, waiting |-> FALSE]

Init ==
    /\ enabled \in BOOLEAN /\ up = TRUE
    /\ req = [r \in Requests |-> Idle]
    /\ rows = [i \in Items |-> 0]
    /\ queue = [p \in TopicPartitions |-> <<>>]
    /\ batch = [p \in TopicPartitions |-> <<>>]
    /\ topic = [p \in TopicPartitions |-> <<>>]
    /\ sends = [s \in Samples |-> 0] /\ rounds = 0 /\ started = 0
    /\ acked = {} /\ published = 0 /\ failed = 0 /\ lostAcks = 0
    /\ faults = 0 /\ crashed = FALSE

Fault == faults < MaxFaults /\ faults' = faults + 1

----------------------------------------------------------------------------
(* Requests *)

Publishes(i) == [via |-> "publish", item |-> i]
Inserts(i)   == [via |-> "insert", item |-> i]

\* Mutant: published and inserted as well.
WritesBoth(h, n) ==
    (IF enabled THEN <<Publishes(Item("agent", h, n))>> ELSE <<>>)
        \o <<Inserts(Item("agent", h, n)), Inserts(Item("disk", h, n)), Inserts(Item("net", h, n))>>

\* Mutant: the host's row comes last.
WritesMainLast(h, n) ==
    IF enabled
    THEN <<Publishes(Item("agent", h, n))>>
    ELSE <<Inserts(Item("disk", h, n)), Inserts(Item("net", h, n)), Inserts(Item("agent", h, n))>>

\* IngestHandler.Handle and MetricsServer.IngestMetrics.  A message carries
\* the disks and networks of its sample; without brokers they are rows.
AgentWrites(h, n) ==
    IF enabled
    THEN <<Publishes(Item("agent", h, n))>>
    ELSE <<Inserts(Item("agent", h, n)), Inserts(Item("disk", h, n)), Inserts(Item("net", h, n))>>

\* MetricsServer.IngestProbe never publishes.
IngestProbe(n) == [u \in 1..MaxUrls |-> Inserts(Item("probe", u, n))]

\* ProbeHandler.Ingest
ProbeWrites(n) ==
    IF enabled
    THEN [u \in 1..MaxUrls |-> Publishes(Item("probe", u, n))]
    ELSE IngestProbe(n)

\* A client has one request that it waits for, and maybe others it gave up.
Receive(r, client, writes) ==
    /\ up /\ req[r] = Idle
    /\ started < MaxRequests /\ started' = started + 1
    /\ \A q \in Requests : req[q].waiting => req[q].client # client
    /\ req' = [req EXCEPT ![r] = [todo |-> writes, items |-> {w.item : w \in Range(writes)},
                                  client |-> client, waiting |-> TRUE]]
    /\ UNCHANGED <<enabled, up, rows, kafka, acked, failed, faults, crashed>>

\* The first copy of a sample, or another one after an error or a timeout.
SendSample(r, h, n) ==
    /\ Receive(r, h, AgentWrites(h, n))
    /\ n > 1 => sends[<<h, n - 1>>] > 0
    /\ Item("agent", h, n) \notin acked
    /\ sends' = [sends EXCEPT ![<<h, n>>] = @ + 1]
    /\ UNCHANGED rounds

\* The probe node checks its targets one after the other and reports once.
RunChecks(r, overGRPC) ==
    /\ rounds < MaxRounds
    /\ Receive(r, 0, IF overGRPC THEN IngestProbe(rounds + 1) ELSE ProbeWrites(rounds + 1))
    /\ rounds' = rounds + 1
    /\ UNCHANGED sends

\* The client's timeout; the handler goes on with a cancelled context.
GiveUp(r) ==
    /\ req[r].waiting
    /\ req' = [req EXCEPT ![r].waiting = FALSE]
    /\ UNCHANGED <<enabled, up, rows, kafka, clients, acked, failed, faults, crashed>>

----------------------------------------------------------------------------
(* Writes *)

NextWrite(r, via) ==
    up /\ req[r].todo # <<>> /\ Head(req[r].todo).via = via

Continue(r) == req' = [req EXCEPT ![r].todo = Tail(@)]
Refuse(r)   == req' = [req EXCEPT ![r] = Idle]

\* A call that returns an error: a failure, or the cancelled context.
Fails(r) ==
    /\ Fault \/ (~req[r].waiting /\ UNCHANGED faults)
    /\ failed' = failed + 1

Stores(i) == rows' = [rows EXCEPT ![i] = @ + 1]

\* Mutant: no error is looked at.
InsertIgnored(r) ==
    /\ NextWrite(r, "insert")
    /\ LET i == Head(req[r].todo).item IN
        \/ Stores(i) /\ UNCHANGED <<failed, faults>>
        \/ Fails(r) /\ (UNCHANGED rows \/ Stores(i))
    /\ Continue(r)
    /\ UNCHANGED <<enabled, up, kafka, clients, acked, crashed>>

\* Mutant: the handler answers at the first error.
InsertStops(r) ==
    /\ NextWrite(r, "insert")
    /\ LET i == Head(req[r].todo).item IN
        \/ Stores(i) /\ Continue(r) /\ UNCHANGED <<failed, faults>>
        \/ /\ Fails(r)
           /\ UNCHANGED rows \/ Stores(i)
           /\ IF i.table = "agent" THEN Refuse(r) ELSE req' = [req EXCEPT ![r].todo = <<>>]
    /\ UNCHANGED <<enabled, up, kafka, clients, acked, crashed>>

\* Only the error of InsertAgentMetric is looked at.  A failed insert may
\* have taken effect.
Insert(r) ==
    /\ NextWrite(r, "insert")
    /\ LET i == Head(req[r].todo).item IN
        \/ Stores(i) /\ Continue(r) /\ UNCHANGED <<failed, faults>>
        \/ /\ Fails(r)
           /\ UNCHANGED rows \/ Stores(i)
           /\ IF i.table = "agent" THEN Refuse(r) ELSE Continue(r)
    /\ UNCHANGED <<enabled, up, kafka, clients, acked, crashed>>

\* WriteMessages only puts the message in memory; its errors are logged.
Publish(r) ==
    /\ NextWrite(r, "publish")
    /\ LET i == Head(req[r].todo).item
       IN  \/ /\ published' = published + 1
              /\ queue' = [queue EXCEPT ![PartitionOf(i)] =
                              Append(@, [item |-> i, no |-> published'])]
              /\ UNCHANGED <<failed, faults>>
           \/ Fails(r) /\ UNCHANGED <<queue, published>>
    /\ Continue(r)
    /\ UNCHANGED <<enabled, up, rows, batch, topic, lostAcks, clients, acked, crashed>>

\* Mutant: the answer does not wait for the writes.
AnswerFirst(r) ==
    /\ up /\ req[r] # Idle
    /\ acked' = IF req[r].waiting THEN acked \cup req[r].items ELSE acked
    /\ req' = [req EXCEPT ![r] = Idle]
    /\ UNCHANGED <<enabled, up, rows, kafka, clients, failed, faults, crashed>>

\* "ok", whatever became of the writes.
Answer(r) ==
    /\ up /\ req[r] # Idle /\ req[r].todo = <<>>
    /\ acked' = IF req[r].waiting THEN acked \cup req[r].items ELSE acked
    /\ req' = [req EXCEPT ![r] = Idle]
    /\ UNCHANGED <<enabled, up, rows, kafka, clients, failed, faults, crashed>>

----------------------------------------------------------------------------
(* The producer's goroutine for a partition *)

\* Mutant: all that is there becomes one batch.
FormAnyBatch(p) ==
    /\ batch[p] = <<>> /\ queue[p] # <<>>
    /\ batch' = [batch EXCEPT ![p] = queue[p]]
    /\ queue' = [queue EXCEPT ![p] = <<>>]
    /\ UNCHANGED <<enabled, up, req, rows, topic, published, lostAcks, clients, acked,
                   failed, faults, crashed>>

\* Mutant: without BatchTimeout, a batch leaves when the next message does
\* not fit in.
FormFullBatch(p) ==
    /\ batch[p] = <<>> /\ Len(queue[p]) > BatchSize
    /\ batch' = [batch EXCEPT ![p] = SubSeq(queue[p], 1, BatchSize)]
    /\ queue' = [queue EXCEPT ![p] = SubSeq(@, BatchSize + 1, Len(@))]
    /\ UNCHANGED <<enabled, up, req, rows, topic, published, lostAcks, clients, acked,
                   failed, faults, crashed>>

\* A batch leaves when it is full or BatchTimeout has passed.
FormBatch(p) ==
    /\ batch[p] = <<>>
    /\ \E k \in 1..BatchSize :
        /\ k <= Len(queue[p])
        /\ batch' = [batch EXCEPT ![p] = SubSeq(queue[p], 1, k)]
        /\ queue' = [queue EXCEPT ![p] = SubSeq(@, k + 1, Len(@))]
    /\ UNCHANGED <<enabled, up, req, rows, topic, published, lostAcks, clients, acked,
                   failed, faults, crashed>>

Reaches(p) == topic' = [topic EXCEPT ![p] = @ \o batch[p]]
Leaves(p)  == batch' = [batch EXCEPT ![p] = <<>>]

\* The batch is stored, is stored and the answer lost, or is lost; it is sent
\* again until the writer gives up and drops it.
Transmit(p) ==
    /\ batch[p] # <<>>
    /\ \/ Reaches(p) /\ Leaves(p) /\ UNCHANGED <<faults, failed, lostAcks>>
       \/ Reaches(p) /\ Fault /\ lostAcks' = lostAcks + 1 /\ UNCHANGED <<batch, failed>>
       \/ Fault /\ UNCHANGED <<topic, batch, failed, lostAcks>>
       \/ Leaves(p) /\ Fault /\ failed' = failed + Len(batch[p]) /\ UNCHANGED <<topic, lostAcks>>
    /\ UNCHANGED <<enabled, up, req, rows, queue, published, clients, acked, crashed>>

----------------------------------------------------------------------------
(* The process.  main has no shutdown: a stop is a crash, and Close is never *)
(* reached.                                                                  *)

Crash ==
    /\ up /\ Fault
    /\ up' = FALSE /\ crashed' = TRUE
    /\ req' = [r \in Requests |-> Idle]
    /\ queue' = [p \in TopicPartitions |-> <<>>]
    /\ batch' = [p \in TopicPartitions |-> <<>>]
    /\ UNCHANGED <<enabled, rows, topic, published, lostAcks, clients, acked, failed>>

Restart ==
    /\ ~up /\ up' = TRUE
    /\ UNCHANGED <<enabled, req, rows, kafka, clients, acked, failed, faults, crashed>>

Handler(r)  == Insert(r) \/ Publish(r) \/ Answer(r)
Producer(p) == FormBatch(p) \/ Transmit(p)

Next ==
    \/ \E r \in Requests :
        \/ \E s \in Samples : SendSample(r, s[1], s[2])
        \/ \E overGRPC \in BOOLEAN : RunChecks(r, overGRPC)
        \/ GiveUp(r) \/ Handler(r)
    \/ \E p \in TopicPartitions : Producer(p)
    \/ Crash \/ Restart

Spec == Init /\ [][Next]_vars

----------------------------------------------------------------------------
(* Properties *)

\* Type invariant.  Without brokers the producer holds nothing.
TypeOK ==
    /\ enabled \in BOOLEAN /\ up \in BOOLEAN /\ crashed \in BOOLEAN
    /\ \A r \in Requests :
        /\ Range(req[r].todo) \subseteq [via : {"publish", "insert"}, item : Items]
        /\ req[r].items \subseteq Items /\ req[r].client \in 0..MaxHosts
        /\ req[r].waiting \in BOOLEAN
    /\ rows \in [Items -> Nat]
    /\ \A p \in TopicPartitions :
        /\ \A m \in Range(queue[p]) \cup Range(batch[p]) \cup Range(topic[p]) :
            m.item \in Items /\ m.no \in 1..published
        /\ Len(batch[p]) <= BatchSize
        /\ enabled \/ queue[p] \o batch[p] \o topic[p] = <<>>
    /\ sends \in [Samples -> 0..MaxRequests] /\ started \in 0..MaxRequests /\ rounds \in 0..MaxRounds
    /\ acked \subseteq Items
    /\ {published, failed, lostAcks} \subseteq Nat /\ faults \in 0..MaxFaults

InMemory(i) == \E p \in TopicPartitions :
                  \E m \in Range(queue[p]) \cup Range(batch[p]) : m.item = i
InTopic(i)  == \E p \in TopicPartitions : \E m \in Range(topic[p]) : m.item = i
Held(i)     == rows[i] > 0 \/ InMemory(i) \/ InTopic(i)

\* What an OK covers is somewhere, except for the very writes that failed and
\* the messages the producer dropped: one failed write takes no other with
\* it.  (A crash takes all that is in memory.)
MissingBounded ==
    crashed \/ Cardinality({i \in acked : ~Held(i)}) <= failed

\* Without brokers a sample that was answered with OK has its row, whatever
\* crashed; so an agent that drops it has lost nothing of the host's history.
AnsweredIsStored ==
    ~enabled => \A i \in acked : i.table = "agent" => rows[i] > 0

\* In the rows the API writes, which are all of them without brokers, those of
\* disks and networks belong to a sample that has its own row.  (The consumer
\* sends its three inserts whatever became of the first: see ConsumerWorker.)
PartsFollowMain ==
    \A i \in SampleItems : rows[i] > 0 => rows[Item("agent", i.key, i.n)] > 0

\* Copies of an item, in ClickHouse or on their way to it, are due to the
\* agent that sent it again, each of them multiplied at most by the
\* acknowledgements of the broker that were lost.
CopiesBounded ==
    \A i \in Items :
        LET sentFor == IF i \in ProbeItems THEN 1 ELSE sends[<<i.key, i.n>>]
            copies(p) == {k \in 1..Len(topic[p]) : topic[p][k].item = i}
        IN  rows[i] + Cardinality(UNION {{p} \X copies(p) : p \in TopicPartitions})
                <= sentFor * (1 + lostAcks)

\* mq/producer.go:68, "host_id for ordering per host": all messages of a key
\* are in one partition, in the order they were published in, apart from
\* copies of what was there already.
OrderPerHost ==
    \A p, q \in TopicPartitions :
        \A j \in 1..Len(topic[p]), k \in 1..Len(topic[q]) :
            LET a == topic[p][j] b == topic[q][k]
            IN  a.item.table = b.item.table /\ a.item.key = b.item.key =>
                    /\ p = q
                    /\ j < k /\ a.no > b.no => \E i \in 1..j : topic[p][i] = b

============================================================================
