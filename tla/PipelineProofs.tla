--------------------------- MODULE PipelineProofs ---------------------------
(***************************************************************************)
(* Proofs about the pipeline, for every number of samples and requests,    *)
(* every batch size on either side and every number of failures.  The two  *)
(* halves are not proved again: a behaviour of the pipeline is one of      *)
(* Ingest and one of ConsumerWorker at the same time, so what IngestProofs *)
(* and ConsumerProofs show holds here, and the bounds from end to end      *)
(* follow by counting.                                                     *)
(***************************************************************************)
EXTENDS Pipeline, IngestProofs, SumLemmas

\* The worker, with what was proved about it.
Proved == INSTANCE ConsumerProofs WITH
    BatchSize <- ConsumerBatch, Rows <- [t \in Tables |-> 1..MaxMsgs], Poison <- {},
    Faults <- ConsumerFaults, topic <- Len(Log), batch <- collected, rows <- inserted

\* Requests with a message to publish.
Pending == {r \in Requests : req[r].todo # <<>>}

\* Messages held by the producer or the broker for a partition.
Load(p)   == Len(topic[p]) + Len(batch[p]) + Len(queue[p])
Unsent(p) == Len(batch[p]) + Len(queue[p])

\* A request publishes one message at the most and inserts nothing, and a
\* message is doubled by lost acknowledgements only.
Volume ==
    /\ enabled
    /\ \A r \in Requests : Len(req[r].todo) <= 1
    /\ IsFiniteSet(Pending) /\ published + Cardinality(Pending) <= started
    /\ lostAcks <= faults
    /\ \A p \in TopicPartitions :
          Unsent(p) <= published /\ Load(p) <= published * (1 + lostAcks)
    /\ \A i \in SampleItems : rows[i] = 0

----------------------------------------------------------------------------
(* How long the log gets. *)

LEMMA Deployed ==
    /\ MaxUrls = 0 /\ MaxRounds = 0
    /\ MaxMsgs \in Nat /\ MaxRequests \in Nat /\ MaxFaults \in Nat
    /\ <<"agent", 0>> \in TopicPartitions
    /\ ProbeItems = {} /\ Items = SampleItems
    /\ \A i \in SampleItems : i.table = "agent" => PartitionOf(i) = <<"agent", 0>>
<1>1. MaxUrls = 0 /\ MaxRounds = 0 /\ Partitions = 1
  BY PipelineAssumption
<1>2. MaxMsgs \in Nat /\ MaxRequests \in Nat /\ MaxFaults \in Nat
  BY Constants DEF MaxMsgs
<1>3. 0..Partitions - 1 = {0}
  BY <1>1
<1>4. ProbeItems = {}
  BY <1>1 DEF ProbeItems
<1>5. ASSUME NEW i \in SampleItems, i.table = "agent"
      PROVE  PartitionOf(i) = <<"agent", 0>>
  <2>1. i \in Items
    BY DEF Items
  <2>2. i.key \in Nat
    BY <2>1, ItemLemma
  <2>3. i.key % 1 = 0
    BY <2>2
  <2> QED
    BY <1>1, <1>5, <2>3 DEF PartitionOf
<1> QED
  BY <1>1, <1>2, <1>3, <1>4, <1>5 DEF TopicPartitions, Items

\* Products grow with their factors.
LEMMA ProductGrows ==
    ASSUME NEW a \in Nat, NEW b \in Nat, NEW c \in Nat, NEW d \in Nat, a <= c, b <= d
    PROVE  a * b \in Nat /\ c * d \in Nat /\ a * b <= c * d
<1>1. a * b <= c * b
  BY SMT
<1>2. c * b <= c * d
  BY SMT
<1>3. a * b \in Nat /\ c * b \in Nat /\ c * d \in Nat
  BY SMT
<1> QED
  BY <1>1, <1>2, <1>3

\* All that may ever be logged are MaxMsgs messages.
LEMMA LogLemma ==
    ASSUME Answered, Volume
    PROVE  /\ Log \in Seq(MsgRecords) /\ Len(Log) \in Nat /\ Len(Log) <= MaxMsgs
<1>1. /\ published \in Nat /\ lostAcks \in Nat /\ faults \in Nat /\ faults <= MaxFaults
      /\ started \in Nat /\ started <= MaxRequests
      /\ topic \in [TopicPartitions -> Seq(MsgRecords)]
      /\ batch \in [TopicPartitions -> Seq(MsgRecords)]
      /\ queue \in [TopicPartitions -> Seq(MsgRecords)]
  BY Constants DEF Answered, Typed
<1>2. Log \in Seq(MsgRecords)
  BY <1>1, Deployed DEF Log
<1>3. published <= MaxRequests /\ lostAcks <= MaxFaults
  <2>1. Cardinality(Pending) \in Nat
    BY FS_CardinalityType DEF Volume
  <2> QED
    BY <1>1, <2>1, Constants DEF Volume
<1>4. published * (1 + lostAcks) \in Nat /\ published * (1 + lostAcks) <= MaxRequests * (1 + MaxFaults)
  <2>1. 1 + lostAcks \in Nat /\ 1 + MaxFaults \in Nat /\ 1 + lostAcks <= 1 + MaxFaults
    BY <1>1, <1>3, Deployed
  <2> QED
    BY <1>1, <1>3, <2>1, Deployed, ProductGrows
<1>5. Load(<<"agent", 0>>) <= published * (1 + lostAcks)
  BY Deployed DEF Volume
<1>6. /\ Len(Log) \in Nat /\ Len(batch[<<"agent", 0>>]) \in Nat /\ Len(queue[<<"agent", 0>>]) \in Nat
      /\ Load(<<"agent", 0>>) = Len(Log) + Len(batch[<<"agent", 0>>]) + Len(queue[<<"agent", 0>>])
  BY <1>1, Deployed, LenProperties DEF Log, Load
<1>7. Len(Log) <= MaxMsgs
  <2>1. PICK l, b, q, a :
            /\ l = Len(Log) /\ b = Len(batch[<<"agent", 0>>]) /\ q = Len(queue[<<"agent", 0>>])
            /\ a = published * (1 + lostAcks)
    OBVIOUS
  <2>2. l \in Nat /\ b \in Nat /\ q \in Nat /\ a \in Nat /\ l + b + q <= a
    BY <1>4, <1>5, <1>6, <2>1
  <2>3. a <= MaxMsgs
    BY <1>4, <2>1 DEF MaxMsgs
  <2>4. MaxMsgs \in Nat
    BY Deployed
  <2>5. l <= MaxMsgs
    BY <2>2, <2>3, <2>4
  <2> QED
    BY <2>1, <2>5
<1> QED
  BY <1>2, <1>6, <1>7

LEMMA VolumeTypes ==
    ASSUME Answered
    PROVE  /\ published \in Nat /\ lostAcks \in Nat /\ faults \in Nat /\ started \in Nat
           /\ req \in [Requests -> ReqRecords]
           /\ \A r \in Requests : req[r].todo \in Seq(Writes) /\ Len(req[r].todo) \in Nat
           /\ topic \in [TopicPartitions -> Seq(MsgRecords)]
           /\ batch \in [TopicPartitions -> Seq(MsgRecords)]
           /\ queue \in [TopicPartitions -> Seq(MsgRecords)]
           /\ \A p \in TopicPartitions : /\ Len(topic[p]) \in Nat /\ Len(batch[p]) \in Nat
                                         /\ Len(queue[p]) \in Nat /\ Load(p) \in Nat
                                         /\ Unsent(p) \in Nat
<1>1. /\ published \in Nat /\ lostAcks \in Nat /\ faults \in Nat /\ started \in Nat
      /\ req \in [Requests -> ReqRecords]
      /\ topic \in [TopicPartitions -> Seq(MsgRecords)]
      /\ batch \in [TopicPartitions -> Seq(MsgRecords)]
      /\ queue \in [TopicPartitions -> Seq(MsgRecords)]
  BY Constants DEF Answered, Typed
<1>2. ASSUME NEW r \in Requests
      PROVE  req[r].todo \in Seq(Writes) /\ Len(req[r].todo) \in Nat
  <2>1. req[r].todo \in Seq(Writes)
    BY <1>1 DEF ReqRecords
  <2> QED
    BY <2>1, LenProperties
<1>3. ASSUME NEW p \in TopicPartitions
      PROVE  /\ Len(topic[p]) \in Nat /\ Len(batch[p]) \in Nat /\ Len(queue[p]) \in Nat
             /\ Load(p) \in Nat /\ Unsent(p) \in Nat
  <2>1. Len(topic[p]) \in Nat /\ Len(batch[p]) \in Nat /\ Len(queue[p]) \in Nat
    BY <1>1, LenProperties
  <2>2. PICK t, b, q : t = Len(topic[p]) /\ b = Len(batch[p]) /\ q = Len(queue[p])
    OBVIOUS
  <2>3. Load(p) = t + b + q /\ Unsent(p) = b + q
    BY <2>2 DEF Load, Unsent
  <2>4. t \in Nat /\ b \in Nat /\ q \in Nat
    BY <2>1, <2>2
  <2>5. t + b + q \in Nat /\ b + q \in Nat
    BY <2>4
  <2> QED
    BY <2>1, <2>3, <2>5
<1> QED
  BY <1>1, <1>2, <1>3

\* Kafka and the tables stay as they are, and so do the requests but for one
\* that is new, or that has nothing to write any more.
LEMMA VolumeByRequest ==
    ASSUME Answered, Volume, NEW r \in Requests, NEW q, Len(q.todo) <= 1,
           req' = [req EXCEPT ![r] = q],
           UNCHANGED <<enabled, rows, topic, batch, queue, published, lostAcks>>,
           started' \in Nat, faults' \in Nat, faults <= faults',
           \/ q.todo = <<>> /\ started' = started
           \/ req[r].todo # <<>> /\ started' = started
           \/ req[r].todo = <<>> /\ started' = started + 1
    PROVE  Volume'
<1>1. /\ published \in Nat /\ lostAcks \in Nat /\ faults \in Nat /\ started \in Nat
      /\ req \in [Requests -> ReqRecords]
  BY VolumeTypes
<1>2. /\ \A x \in Requests : req'[x] = IF x = r THEN q ELSE req[x]
  BY <1>1
<1>3. Pending' = IF q.todo = <<>> THEN Pending \ {r} ELSE Pending \cup {r}
  BY <1>2 DEF Pending
<1>4. r \in Pending <=> req[r].todo # <<>>
  BY DEF Pending
<1>5. /\ IsFiniteSet(Pending) /\ Cardinality(Pending) \in Nat
      /\ published + Cardinality(Pending) <= started
  BY FS_CardinalityType DEF Volume
<1>6. IsFiniteSet(Pending') /\ published + Cardinality(Pending') <= started'
  <2>1. CASE q.todo = <<>>
    <3>1. /\ IsFiniteSet(Pending \ {r}) /\ Cardinality(Pending \ {r}) \in Nat
          /\ Cardinality(Pending \ {r}) <= Cardinality(Pending)
      BY <1>5, FS_Subset, FS_CardinalityType
    <3>2. started <= started'
      BY <1>1
    <3> QED
      BY <1>1, <1>3, <1>5, <2>1, <3>1, <3>2
  <2>2. CASE q.todo # <<>>
    <3>1. /\ IsFiniteSet(Pending \cup {r})
          /\ Cardinality(Pending \cup {r}) = IF r \in Pending THEN Cardinality(Pending)
                                             ELSE Cardinality(Pending) + 1
      BY <1>5, FS_AddElement
    <3> QED
      BY <1>1, <1>3, <1>4, <1>5, <2>2, <3>1
  <2> QED
    BY <2>1, <2>2
<1>7. \A x \in Requests : Len(req'[x].todo) <= 1
  BY <1>2 DEF Volume
<1>8. lostAcks' <= faults'
  BY <1>1 DEF Volume
<1>9. \A p \in TopicPartitions :
          Unsent(p)' <= published' /\ Load(p)' <= published' * (1 + lostAcks')
  BY DEF Volume, Load, Unsent
<1> QED
  BY <1>6, <1>7, <1>8, <1>9 DEF Volume

\* Handlers.
LEMMA VolumeByHandler ==
    ASSUME Answered, Volume, NEW r \in Requests,
           \/ \E h \in 1..MaxHosts, n \in 1..MaxSamples : SendSample(r, h, n)
           \/ \E overGRPC \in BOOLEAN : RunChecks(r, overGRPC)
           \/ GiveUp(r) \/ Insert(r) \/ Answer(r)
    PROVE  Volume'
<1>1. /\ req \in [Requests -> ReqRecords] /\ started \in Nat /\ faults \in Nat
      /\ req[r].todo \in Seq(Writes) /\ rounds \in 0..MaxRounds /\ enabled
  BY VolumeTypes DEF Answered, Typed, Volume
<1>2. Idle.todo = <<>> /\ Len(<<>>) = 0
  BY EmptySeq DEF Idle
<1>3. ASSUME NEW h \in 1..MaxHosts, NEW n \in 1..MaxSamples, SendSample(r, h, n)
      PROVE  Volume'
  <2>1. AgentWrites(h, n) = <<Publishes(Item("agent", h, n))>>
    BY <1>1, AgentWritesLemma
  <2>2. PICK q : /\ q.todo = AgentWrites(h, n) /\ req' = [req EXCEPT ![r] = q]
    BY <1>3 DEF SendSample, Receive
  <2>3. /\ req[r].todo = <<>> /\ started' = started + 1 /\ faults' = faults
        /\ UNCHANGED <<enabled, rows, topic, batch, queue, published, lostAcks>>
    BY <1>2, <1>3 DEF SendSample, Receive, kafka
  <2>4. Len(q.todo) <= 1
    BY <2>1, <2>2
  <2>5. started' \in Nat /\ faults' \in Nat /\ faults <= faults'
    BY <1>1, <2>3
  <2> QED
    BY <2>2, <2>3, <2>4, <2>5, VolumeByRequest
<1>4. ~ \E overGRPC \in BOOLEAN : RunChecks(r, overGRPC)
  BY <1>1, Deployed DEF RunChecks
<1>5. CASE GiveUp(r)
  <2>1. PICK q : q = [req[r] EXCEPT !.waiting = FALSE]
    OBVIOUS
  <2>2. /\ req' = [req EXCEPT ![r] = q]
        /\ UNCHANGED <<enabled, rows, topic, batch, queue, published, lostAcks, started, faults>>
    BY <1>5, <2>1 DEF GiveUp, kafka, clients
  <2>3. q.todo = req[r].todo
    BY <1>1, <2>1 DEF ReqRecords
  <2>4. Len(q.todo) <= 1 /\ (q.todo = <<>> \/ req[r].todo # <<>>)
    BY <2>3 DEF Volume
  <2>5. started' \in Nat /\ faults' \in Nat /\ faults <= faults'
    BY <1>1, <2>2
  <2> QED
    BY <2>2, <2>4, <2>5, VolumeByRequest
<1>6. ~ Insert(r)
  <2> SUFFICES ASSUME Insert(r) PROVE FALSE
    OBVIOUS
  <2>1. req[r].todo # <<>> /\ Head(req[r].todo).via = "insert"
    BY DEF Insert, NextWrite
  <2>2. Head(req[r].todo) \in Range(req[r].todo)
    BY <1>1, <2>1, TailRange
  <2>3. Honest(req[r])
    BY DEF Answered, HonestReqs
  <2>4. Head(req[r].todo).item \notin SampleItems
    BY <1>1, <2>1, <2>2, <2>3 DEF Honest
  <2>5. Head(req[r].todo).item \in Items
    <3>1. Head(req[r].todo) \in Writes
      BY <1>1, <2>1, EmptySeq, HeadTailProperties
    <3> QED
      BY <3>1 DEF Writes
  <2> QED
    BY <2>4, <2>5, Deployed
<1>7. CASE Answer(r)
  <2>1. /\ req' = [req EXCEPT ![r] = Idle]
        /\ UNCHANGED <<enabled, rows, topic, batch, queue, published, lostAcks, started, faults>>
    BY <1>7 DEF Answer, kafka, clients
  <2>2. started' \in Nat /\ faults' \in Nat /\ faults <= faults'
    BY <1>1, <2>1
  <2>3. PICK q : q = Idle
    OBVIOUS
  <2>4. req' = [req EXCEPT ![r] = q] /\ q.todo = <<>> /\ Len(q.todo) <= 1
    BY <1>2, <2>1, <2>3
  <2> QED
    BY <2>1, <2>2, <2>4, VolumeByRequest
<1> QED
  BY <1>3, <1>4, <1>5, <1>6, <1>7

\* What the producer and the broker hold grows no more than what they may.
LEMMA LoadGrows ==
    ASSUME Answered, Volume, published' \in Nat, lostAcks' \in Nat, NEW n \in Nat,
           published' * (1 + lostAcks') >= published * (1 + lostAcks) + n,
           \A p \in TopicPartitions : Load(p)' \in Nat /\ Load(p)' <= Load(p) + n
    PROVE  \A p \in TopicPartitions : Load(p)' <= published' * (1 + lostAcks')
<1> SUFFICES ASSUME NEW p \in TopicPartitions
             PROVE  Load(p)' <= published' * (1 + lostAcks')
  OBVIOUS
<1>1. PICK a, b, l, m : /\ a = Load(p) /\ b = Load(p)'
                        /\ l = published * (1 + lostAcks) /\ m = published' * (1 + lostAcks')
  OBVIOUS
<1>2. published \in Nat /\ lostAcks \in Nat /\ a \in Nat
  BY <1>1, VolumeTypes
<1>3. l \in Nat /\ m \in Nat
  <2>1. \A c, d \in Nat : c * (1 + d) \in Nat
    OBVIOUS
  <2> QED
    BY <1>1, <1>2, <2>1
<1>4. b \in Nat /\ b <= a + n /\ a <= l /\ m >= l + n
  BY <1>1 DEF Volume
<1>5. b <= m
  BY <1>2, <1>3, <1>4
<1> QED
  BY <1>1, <1>5

\* A message goes into memory.
LEMMA VolumeByPublish ==
    ASSUME Answered, Volume, NEW r \in Requests, Publish(r)
    PROVE  Volume'
<1>1. Answered'
  BY PublishLemma
<1>2. /\ published \in Nat /\ lostAcks \in Nat /\ faults \in Nat /\ started \in Nat
      /\ req \in [Requests -> ReqRecords] /\ req[r].todo \in Seq(Writes) /\ Len(req[r].todo) \in Nat
      /\ queue \in [TopicPartitions -> Seq(MsgRecords)]
  BY VolumeTypes
<1>3. /\ published' \in Nat /\ lostAcks' \in Nat /\ faults' \in Nat
      /\ queue' \in [TopicPartitions -> Seq(MsgRecords)]
  BY <1>1, Constants DEF Answered, Typed
<1>4. /\ req[r].todo # <<>> /\ req' = [req EXCEPT ![r].todo = Tail(@)]
      /\ UNCHANGED <<enabled, rows, batch, topic, lostAcks, started>>
  BY DEF Publish, NextWrite, Continue, clients
<1>5. Tail(req[r].todo) = <<>>
  <2>1. Len(req[r].todo) = 1
    <3>1. PICK n : n = Len(req[r].todo)
      OBVIOUS
    <3>2. n \in Nat /\ n # 0
      BY <1>2, <1>4, <3>1, EmptySeq
    <3>3. n <= 1
      BY <3>1 DEF Volume
    <3>4. n = 1
      BY <3>2, <3>3
    <3> QED
      BY <3>1, <3>4
  <2>2. Len(Tail(req[r].todo)) = 0 /\ Tail(req[r].todo) \in Seq(Writes)
    BY <1>2, <1>4, <2>1, EmptySeq, HeadTailProperties
  <2> QED
    BY <2>2, EmptySeq
<1>6. \A x \in Requests : req'[x].todo = IF x = r THEN <<>> ELSE req[x].todo
  BY <1>2, <1>4, <1>5 DEF ReqRecords
<1>7. \A x \in Requests : Len(req'[x].todo) <= 1
  <2>1. Len(<<>>) = 0
    BY EmptySeq
  <2> QED
    BY <1>6, <2>1 DEF Volume
<1>8. /\ IsFiniteSet(Pending') /\ Cardinality(Pending') + 1 = Cardinality(Pending)
      /\ Cardinality(Pending') \in Nat
  <2>1. Pending' = Pending \ {r} /\ r \in Pending
    BY <1>4, <1>6 DEF Pending
  <2>2. /\ IsFiniteSet(Pending) /\ Cardinality(Pending) \in Nat
        /\ IsFiniteSet(Pending \ {r}) /\ Cardinality(Pending \ {r}) = Cardinality(Pending) - 1
    BY <2>1, FS_RemoveElement, FS_CardinalityType DEF Volume
  <2>3. Cardinality(Pending \ {r}) \in Nat
    BY <2>2, FS_CardinalityType
  <2> QED
    BY <2>1, <2>2, <2>3
<1>9. /\ published' = published \/ published' = published + 1
      /\ faults' >= faults
      /\ published' = published => queue' = queue
  <2>1. \/ published' = published + 1 /\ faults' = faults
        \/ Fails(r) /\ queue' = queue /\ published' = published
    BY DEF Publish
  <2>2. Fails(r) => faults' >= faults
    BY <1>2 DEF Fails, Fault
  <2> QED
    BY <1>2, <2>1, <2>2
<1>10. published' + Cardinality(Pending') <= started'
  <2>1. published + Cardinality(Pending) <= started
    BY DEF Volume
  <2>2. PICK a, b : a = Cardinality(Pending) /\ b = Cardinality(Pending')
    OBVIOUS
  <2>3. a \in Nat /\ b \in Nat /\ b + 1 = a /\ published + a <= started /\ started' = started
    BY <1>4, <1>8, <2>1, <2>2
  <2>4. published' + b <= started'
    BY <1>2, <1>9, <2>3
  <2> QED
    BY <2>2, <2>4
<1>11. lostAcks' <= faults'
  BY <1>2, <1>3, <1>4, <1>9 DEF Volume
<1>12. \A p \in TopicPartitions :
           Unsent(p)' <= published' /\ Load(p)' <= published' * (1 + lostAcks')
  <2>1. CASE published' = published
    <3>1. \A p \in TopicPartitions : Load(p)' = Load(p) /\ Unsent(p)' = Unsent(p)
      BY <1>4, <1>9, <2>1 DEF Load, Unsent
    <3> QED
      BY <1>4, <2>1, <3>1 DEF Volume
  <2>2. CASE published' # published
    <3>1. PICK i, m : /\ i = Head(req[r].todo).item /\ m = [item |-> i, no |-> published']
                      /\ queue' = [queue EXCEPT ![PartitionOf(i)] = Append(@, m)]
      BY <1>2, <2>2 DEF Publish
    <3>2. ASSUME NEW p \in TopicPartitions
          PROVE  Load(p)' \in Nat /\ Load(p)' <= Load(p) + 1 /\ Unsent(p)' <= Unsent(p) + 1
      <4>1. PICK t, b, q, z : /\ t = Len(topic[p]) /\ b = Len(batch[p])
                              /\ q = Len(queue[p]) /\ z = Len(queue'[p])
        OBVIOUS
      <4>2. t \in Nat /\ b \in Nat /\ q \in Nat
        BY <4>1, VolumeTypes
      <4>3. z = q \/ z = q + 1
        <5>1. CASE p = PartitionOf(i)
          <6>1. queue'[p] = Append(queue[p], m) /\ queue[p] \in Seq(MsgRecords)
            BY <1>2, <3>1, <5>1
          <6>2. Len(Append(queue[p], m)) = Len(queue[p]) + 1
            BY <6>1
          <6> QED
            BY <4>1, <6>1, <6>2
        <5>2. CASE p # PartitionOf(i)
          BY <1>2, <3>1, <4>1, <5>2
        <5> QED
          BY <5>1, <5>2
      <4>4. /\ Load(p) = t + b + q /\ Load(p)' = t + b + z
            /\ Unsent(p) = b + q /\ Unsent(p)' = b + z
        BY <1>4, <4>1 DEF Load, Unsent
      <4>5. t + b + z \in Nat /\ t + b + z <= t + b + q + 1 /\ b + z <= b + q + 1
        BY <4>2, <4>3
      <4> QED
        BY <4>4, <4>5
    <3>3. published' * (1 + lostAcks') >= published * (1 + lostAcks) + 1
      <4>1. published' = published + 1 /\ lostAcks' = lostAcks
        BY <1>4, <1>9, <2>2
      <4>2. (published + 1) * (1 + lostAcks) = published * (1 + lostAcks) + 1 + lostAcks
        BY <1>2
      <4>3. published * (1 + lostAcks) \in Nat
        BY <1>2
      <4> QED
        BY <1>2, <4>1, <4>2, <4>3
    <3>4. ASSUME NEW p \in TopicPartitions
          PROVE  Unsent(p)' <= published'
      <4>1. PICK a, b : a = Unsent(p) /\ b = Unsent(p)'
        OBVIOUS
      <4>2. a \in Nat /\ b <= a + 1 /\ a <= published
        BY <3>2, <4>1, VolumeTypes DEF Volume
      <4>3. b \in Nat
        <5>1. Len(batch'[p]) \in Nat /\ Len(queue'[p]) \in Nat
          BY <1>2, <1>3, <1>4, VolumeTypes, LenProperties
        <5>2. PICK y, z : y = Len(batch'[p]) /\ z = Len(queue'[p])
          OBVIOUS
        <5>3. y \in Nat /\ z \in Nat /\ b = y + z
          BY <4>1, <5>1, <5>2 DEF Unsent
        <5> QED
          BY <5>3
      <4>4. b <= published'
        BY <1>2, <1>9, <2>2, <4>2, <4>3
      <4> QED
        BY <4>1, <4>4
    <3> QED
      BY <1>3, <3>2, <3>3, <3>4, LoadGrows
  <2> QED
    BY <2>1, <2>2
<1> QED
  BY <1>4, <1>7, <1>8, <1>10, <1>11, <1>12 DEF Volume

\* The requests stay, and no more is held than before.
LEMMA VolumeByProducer ==
    ASSUME Answered, Volume, UNCHANGED <<enabled, rows, req, published, started>>,
           faults' \in Nat, lostAcks' \in Nat,
           \/ faults' >= faults /\ lostAcks' = lostAcks
           \/ faults' = faults + 1 /\ lostAcks' = lostAcks + 1,
           \A p \in TopicPartitions :
               /\ Load(p)' \in Nat
               /\ Load(p)' <= Load(p) + IF lostAcks' = lostAcks THEN 0 ELSE published
               /\ Unsent(p)' \in Nat /\ Unsent(p)' <= Unsent(p)
    PROVE  Volume'
<1>1. published \in Nat /\ lostAcks \in Nat /\ faults \in Nat
  BY VolumeTypes
<1>2. Pending' = Pending
  BY DEF Pending
<1>3. lostAcks' <= faults'
  BY <1>1 DEF Volume
<1>4. PICK n : n = IF lostAcks' = lostAcks THEN 0 ELSE published
  OBVIOUS
<1>5. published' * (1 + lostAcks') >= published * (1 + lostAcks) + n
  <2>1. CASE lostAcks' = lostAcks
    <3>1. published * (1 + lostAcks) \in Nat
      BY <1>1
    <3>2. published' * (1 + lostAcks') = published * (1 + lostAcks) /\ n = 0
      BY <1>4, <2>1
    <3> QED
      BY <3>1, <3>2
  <2>2. CASE lostAcks' # lostAcks
    <3>1. lostAcks' = lostAcks + 1 /\ n = published /\ published' = published
      BY <1>4, <2>2
    <3>2. published * (1 + (lostAcks + 1)) = published * (1 + lostAcks) + published
      BY <1>1
    <3>3. published * (1 + lostAcks) \in Nat
      BY <1>1
    <3> QED
      BY <1>1, <3>1, <3>2, <3>3
  <2> QED
    BY <2>1, <2>2
<1>6. \A p \in TopicPartitions : Load(p)' <= published' * (1 + lostAcks')
  <2>1. n \in Nat /\ published' \in Nat
    BY <1>1, <1>4
  <2> QED
    BY <1>4, <1>5, <2>1, LoadGrows
<1>7. ASSUME NEW p \in TopicPartitions
      PROVE  Unsent(p)' <= published'
  <2>1. PICK a, b : a = Unsent(p) /\ b = Unsent(p)'
    OBVIOUS
  <2>2. a \in Nat /\ b \in Nat /\ b <= a /\ a <= published
    BY <2>1, VolumeTypes DEF Volume
  <2>3. b <= published
    BY <1>1, <2>2
  <2> QED
    BY <2>1, <2>3
<1> QED
  BY <1>2, <1>3, <1>6, <1>7 DEF Volume

LEMMA VolumeByFormBatch ==
    ASSUME Answered, Volume, NEW o \in TopicPartitions, FormBatch(o)
    PROVE  Volume'
<1>1. /\ batch \in [TopicPartitions -> Seq(MsgRecords)] /\ queue \in [TopicPartitions -> Seq(MsgRecords)]
      /\ lostAcks \in Nat /\ faults \in Nat
  BY VolumeTypes
<1>2. PICK k \in 1..BatchSize :
          /\ k <= Len(queue[o]) /\ batch[o] = <<>>
          /\ batch' = [batch EXCEPT ![o] = SubSeq(queue[o], 1, k)]
          /\ queue' = [queue EXCEPT ![o] = SubSeq(@, k + 1, Len(@))]
          /\ UNCHANGED <<enabled, rows, req, topic, published, lostAcks, started, faults>>
  BY DEF FormBatch, clients
<1>3. ASSUME NEW p \in TopicPartitions
      PROVE  /\ Load(p)' \in Nat /\ Load(p)' <= Load(p) + 0
             /\ Unsent(p)' \in Nat /\ Unsent(p)' <= Unsent(p)
  <2>1. CASE p # o
    <3>1. Load(p)' = Load(p) /\ Unsent(p)' = Unsent(p)
      BY <1>1, <1>2, <2>1 DEF Load, Unsent
    <3>2. PICK a, b : a = Load(p) /\ b = Unsent(p)
      OBVIOUS
    <3>3. a \in Nat /\ b \in Nat
      BY <3>2, VolumeTypes
    <3>4. a <= a + 0 /\ b <= b
      BY <3>3
    <3> QED
      BY <3>1, <3>2, <3>3, <3>4
  <2>2. CASE p = o
    <3>1. PICK t, q : t = Len(topic[o]) /\ q = Len(queue[o])
      OBVIOUS
    <3>2. t \in Nat /\ q \in Nat /\ k \in 1..q
      BY <1>2, <3>1, VolumeTypes
    <3>3. Len(batch[o]) = 0
      BY <1>2, EmptySeq
    <3>4. queue[o] \in Seq(MsgRecords) /\ k \in 1..Len(queue[o])
      BY <1>1, <3>1, <3>2
    <3>5. PICK b, z : b = SubSeq(queue[o], 1, k) /\ z = SubSeq(queue[o], k + 1, Len(queue[o]))
      OBVIOUS
    <3>6. b \in Seq(MsgRecords) /\ z \in Seq(MsgRecords) /\ Len(b) = k /\ queue[o] = b \o z
      BY <3>4, <3>5, SplitRange
    <3>7. Len(b) + Len(z) = q
      <4>1. Len(b \o z) = Len(b) + Len(z)
        BY <3>6, ConcatProperties
      <4> QED
        BY <3>1, <3>6, <4>1
    <3>8. batch'[o] = b /\ queue'[o] = z /\ topic' = topic
      BY <1>1, <1>2, <3>5
    <3>9. /\ Load(o)' = t + Len(b) + Len(z) /\ Load(o) = t + 0 + q
          /\ Unsent(o)' = Len(b) + Len(z) /\ Unsent(o) = 0 + q
      BY <3>1, <3>3, <3>8 DEF Load, Unsent
    <3>10. Len(b) \in Nat /\ Len(z) \in Nat
      BY <3>6, LenProperties
    <3>11. PICK x, y : x = Len(b) /\ y = Len(z)
      OBVIOUS
    <3>12. x \in Nat /\ y \in Nat /\ x + y = q
      BY <3>7, <3>10, <3>11
    <3>13. /\ t + x + y \in Nat /\ t + x + y <= t + 0 + q + 0
           /\ x + y \in Nat /\ x + y <= 0 + q
      BY <3>2, <3>12
    <3> QED
      BY <2>2, <3>9, <3>11, <3>13
  <2> QED
    BY <2>1, <2>2
<1>4. /\ faults' \in Nat /\ lostAcks' \in Nat /\ faults' >= faults /\ lostAcks' = lostAcks
      /\ UNCHANGED <<enabled, rows, req, published, started>>
  BY <1>1, <1>2
<1> QED
  BY <1>3, <1>4, VolumeByProducer

LEMMA VolumeByTransmit ==
    ASSUME Answered, Volume, NEW o \in TopicPartitions, Transmit(o)
    PROVE  Volume'
<1>1. /\ batch \in [TopicPartitions -> Seq(MsgRecords)] /\ topic \in [TopicPartitions -> Seq(MsgRecords)]
      /\ lostAcks \in Nat /\ faults \in Nat /\ published \in Nat
  BY VolumeTypes
<1>2. UNCHANGED <<enabled, rows, req, queue, published, started>>
  BY DEF Transmit, clients
<1>3. \/ /\ topic' = [topic EXCEPT ![o] = topic[o] \o batch[o]]
         /\ batch' = [batch EXCEPT ![o] = <<>>] /\ lostAcks' = lostAcks
      \/ /\ topic' = [topic EXCEPT ![o] = topic[o] \o batch[o]]
         /\ batch' = batch /\ lostAcks' = lostAcks + 1 /\ faults' = faults + 1
      \/ topic' = topic /\ batch' = batch /\ lostAcks' = lostAcks
      \/ topic' = topic /\ batch' = [batch EXCEPT ![o] = <<>>] /\ lostAcks' = lostAcks
  <2>1. CASE Reaches(o) /\ Leaves(o) /\ UNCHANGED <<faults, failed, lostAcks>>
    BY <1>1, <2>1 DEF Reaches, Leaves
  <2>2. CASE Reaches(o) /\ Fault /\ lostAcks' = lostAcks + 1 /\ UNCHANGED <<batch, failed>>
    BY <2>2 DEF Reaches, Fault
  <2>3. CASE Fault /\ UNCHANGED <<topic, batch, failed, lostAcks>>
    BY <1>1, <2>3 DEF Fault
  <2>4. CASE Leaves(o) /\ Fault /\ failed' = failed + Len(batch[o]) /\ UNCHANGED <<topic, lostAcks>>
    BY <1>1, <2>4 DEF Leaves, Fault
  <2> QED
    BY <2>1, <2>2, <2>3, <2>4 DEF Transmit
<1>4. faults' \in Nat /\ faults' >= faults
  BY <1>1 DEF Transmit, Fault
<1>5. ASSUME NEW p \in TopicPartitions
      PROVE  /\ Load(p)' \in Nat
             /\ Load(p)' <= Load(p) + IF lostAcks' = lostAcks THEN 0 ELSE published
             /\ Unsent(p)' \in Nat /\ Unsent(p)' <= Unsent(p)
  <2>1. PICK t, b, q, x, y : /\ t = Len(topic[p]) /\ b = Len(batch[p]) /\ q = Len(queue[p])
                             /\ x = Len(topic'[p]) /\ y = Len(batch'[p])
    OBVIOUS
  <2>2. /\ t \in Nat /\ b \in Nat /\ q \in Nat /\ Unsent(p) = b + q /\ Load(p) = t + b + q
    BY <2>1, VolumeTypes DEF Load, Unsent
  <2>3. Load(p)' = x + y + q /\ Unsent(p)' = y + q
    BY <1>2, <2>1 DEF Load, Unsent
  <2>4. /\ topic' = topic \/ p # o => x = t
        /\ batch' = batch \/ p # o => y = b
    BY <1>1, <1>3, <2>1
  <2>5. ASSUME p = o, topic' = [topic EXCEPT ![o] = topic[o] \o batch[o]]
        PROVE  x = t + b
    <3>1. topic'[o] = topic[o] \o batch[o] /\ topic[o] \in Seq(MsgRecords) /\ batch[o] \in Seq(MsgRecords)
      BY <1>1, <2>5
    <3>2. Len(topic[o] \o batch[o]) = Len(topic[o]) + Len(batch[o])
      BY <3>1, ConcatProperties
    <3> QED
      BY <2>1, <2>5, <3>1, <3>2
  <2>6. ASSUME p = o, batch' = [batch EXCEPT ![o] = <<>>]
        PROVE  y = 0
    <3>1. batch'[o] = <<>>
      BY <1>1, <2>6
    <3> QED
      BY <2>1, <2>6, <3>1, EmptySeq
  <2>7. b <= published
    <3>1. b + q <= published
      BY <2>2 DEF Volume
    <3> QED
      BY <1>1, <2>2, <3>1
  <2>8. lostAcks + 1 # lostAcks
    BY <1>1
  <2>9. /\ x \in Nat /\ y \in Nat /\ y <= b
        /\ x + y <= t + b + IF lostAcks' = lostAcks THEN 0 ELSE published
    <3>1. CASE p # o
      BY <1>1, <2>2, <2>4, <3>1
    <3>2. CASE p = o
      <4>1. \/ x = t + b /\ y = 0 /\ lostAcks' = lostAcks
            \/ x = t + b /\ y = b /\ lostAcks' # lostAcks
            \/ x = t /\ y = b /\ lostAcks' = lostAcks
            \/ x = t /\ y = 0 /\ lostAcks' = lostAcks
        BY <1>3, <2>4, <2>5, <2>6, <2>8, <3>2
      <4>2. CASE lostAcks' = lostAcks
        BY <1>1, <2>2, <4>1, <4>2
      <4>3. CASE lostAcks' # lostAcks
        BY <1>1, <2>2, <2>7, <4>1, <4>3
      <4> QED
        BY <4>2, <4>3
    <3> QED
      BY <3>1, <3>2
  <2>10. PICK n \in Nat : n = IF lostAcks' = lostAcks THEN 0 ELSE published
    BY <1>1
  <2>11. /\ x + y + q \in Nat /\ x + y + q <= t + b + q + n /\ y + q \in Nat /\ y + q <= b + q
    <3>1. x + y <= t + b + n
      BY <2>9, <2>10
    <3> QED
      BY <2>2, <2>9, <3>1
  <2> QED
    BY <2>2, <2>3, <2>10, <2>11
<1>6. \/ faults' >= faults /\ lostAcks' = lostAcks
      \/ faults' = faults + 1 /\ lostAcks' = lostAcks + 1
  BY <1>3, <1>4
<1>7. lostAcks' \in Nat
  BY <1>1, <1>6
<1> QED
  BY <1>2, <1>4, <1>5, <1>6, <1>7, VolumeByProducer

LEMMA VolumeByCrash ==
    ASSUME Answered, Volume, Crash
    PROVE  Volume'
<1>1. /\ published \in Nat /\ lostAcks \in Nat /\ faults \in Nat /\ started \in Nat
  BY VolumeTypes
<1>2. /\ req' = [r \in Requests |-> Idle] /\ faults' = faults + 1
      /\ queue' = [p \in TopicPartitions |-> <<>>] /\ batch' = [p \in TopicPartitions |-> <<>>]
      /\ UNCHANGED <<enabled, rows, topic, published, lostAcks, started>>
  BY DEF Crash, Fault, clients
<1>3. Idle.todo = <<>> /\ Len(<<>>) = 0
  BY EmptySeq DEF Idle
<1>4. Pending' = {}
  BY <1>2, <1>3 DEF Pending
<1>5. IsFiniteSet(Pending') /\ published' + Cardinality(Pending') <= started'
  <2>1. IsFiniteSet({}) /\ Cardinality({}) = 0
    BY FS_EmptySet
  <2>2. Cardinality(Pending) \in Nat /\ published + Cardinality(Pending) <= started
    BY FS_CardinalityType DEF Volume
  <2> QED
    BY <1>1, <1>2, <1>4, <2>1, <2>2
<1>6. \A r \in Requests : Len(req'[r].todo) <= 1
  BY <1>2, <1>3
<1>7. lostAcks' <= faults'
  BY <1>1, <1>2 DEF Volume
<1>8. ASSUME NEW p \in TopicPartitions
      PROVE  Unsent(p)' <= published' /\ Load(p)' <= published' * (1 + lostAcks')
  <2>1. PICK t, b, q, l : /\ t = Len(topic[p]) /\ b = Len(batch[p]) /\ q = Len(queue[p])
                          /\ l = published * (1 + lostAcks)
    OBVIOUS
  <2>2. t \in Nat /\ b \in Nat /\ q \in Nat /\ t + b + q <= l
    BY <2>1, VolumeTypes DEF Volume, Load
  <2>3. l \in Nat
    BY <1>1, <2>1
  <2>4. Unsent(p)' = 0 + 0 /\ Load(p)' = t + 0 + 0
    BY <1>2, <1>3, <2>1 DEF Load, Unsent
  <2>5. 0 + 0 <= published /\ t + 0 + 0 <= l
    BY <1>1, <2>2, <2>3
  <2> QED
    BY <1>2, <2>1, <2>4, <2>5
<1> QED
  BY <1>2, <1>5, <1>6, <1>7, <1>8 DEF Volume

LEMMA VolumeByNext ==
    ASSUME Answered, Volume, [Next]_vars
    PROVE  Volume'
<1>1. CASE Restart \/ UNCHANGED vars
  <2>1. UNCHANGED <<enabled, req, rows, queue, batch, topic, published, lostAcks, started, faults>>
    BY <1>1 DEF Restart, vars, kafka, clients
  <2> QED
    BY <2>1 DEF Volume, Pending, Load, Unsent
<1>2. CASE Next
  BY <1>1, <1>2, StepLemma, VolumeByHandler, VolumeByPublish, VolumeByFormBatch,
     VolumeByTransmit, VolumeByCrash
<1> QED
  BY <1>1, <1>2

LEMMA VolumeInit ==
    ASSUME Init, enabled
    PROVE  Volume
<1>1. /\ enabled /\ req = [r \in Requests |-> Idle]
      /\ rows = [i \in Items |-> 0] /\ queue = [p \in TopicPartitions |-> <<>>]
      /\ batch = [p \in TopicPartitions |-> <<>>] /\ topic = [p \in TopicPartitions |-> <<>>]
      /\ started = 0 /\ published = 0 /\ lostAcks = 0 /\ faults = 0
  BY DEF Init
<1>2. Idle.todo = <<>> /\ Len(<<>>) = 0
  BY EmptySeq DEF Idle
<1>3. Pending = {} /\ IsFiniteSet({}) /\ Cardinality({}) = 0
  BY <1>1, <1>2, FS_EmptySet DEF Pending
<1>4. \A p \in TopicPartitions : Load(p) = 0 + 0 + 0 /\ Unsent(p) = 0 + 0
  BY <1>1, <1>2 DEF Load, Unsent
<1>5. 0 + 0 + 0 <= 0 * (1 + 0) /\ 0 + 0 <= 0
  OBVIOUS
<1>6. \A i \in SampleItems : rows[i] = 0
  BY <1>1, ItemLemma DEF Items
<1> QED
  BY <1>1, <1>2, <1>3, <1>4, <1>5, <1>6 DEF Volume

----------------------------------------------------------------------------
(* The two halves.  The modules of the model and of the proofs define one   *)
(* and the same worker.                                                     *)

LEMMA SameWorker ==
    /\ Worker!Init => Proved!Init
    /\ Worker!Run => Proved!Run
    /\ Worker!Environment => Proved!Environment
<1>1. Worker!Init => Proved!Init
  BY DEF Worker!Init, Proved!Init, Worker!Msgs, Proved!Msgs
<1>2. (Worker!Run => Proved!Run) /\ (Worker!Environment => Proved!Environment)
  BY DEF
       Worker!Run, Worker!Environment, Worker!Done, Worker!Close, Worker!Ticked,
       Worker!Default, Worker!Fetch, Worker!FetchError, Worker!FetchCancelled,
       Worker!Commit, Worker!Prepare, Worker!SendTable, Worker!AutoCommit,
       Worker!Rebalance, Worker!Tick, Worker!Signal, Worker!Exit, Worker!Crash,
       Worker!Restart, Worker!CommitOnLeaving, Worker!TakePosition, Worker!Flush,
       Worker!Full, Worker!Fails, Worker!Leave, Worker!FlushReturns, Worker!Die,
       Worker!Occurrences, Worker!broker, Worker!reader, Worker!flush, Worker!history,
       Worker!Msgs, Worker!ToSet, Worker!Cardinality, Worker!Max, Worker!FoldFunction,
       Worker!FoldFunctionOnSet, Worker!MapThenFoldSet,
       Proved!Run, Proved!Environment, Proved!Done, Proved!Close, Proved!Ticked,
       Proved!Default, Proved!Fetch, Proved!FetchError, Proved!FetchCancelled,
       Proved!Commit, Proved!Prepare, Proved!SendTable, Proved!AutoCommit,
       Proved!Rebalance, Proved!Tick, Proved!Signal, Proved!Exit, Proved!Crash,
       Proved!Restart, Proved!CommitOnLeaving, Proved!TakePosition, Proved!Flush,
       Proved!Full, Proved!Fails, Proved!Leave, Proved!FlushReturns, Proved!Die,
       Proved!Occurrences, Proved!broker, Proved!reader, Proved!flush, Proved!history,
       Proved!Msgs, Proved!ToSet, Proved!Cardinality, Proved!Max, Proved!FoldFunction,
       Proved!FoldFunctionOnSet, Proved!MapThenFoldSet
<1> QED
  BY <1>1, <1>2

\* What the worker asks of the constants.
LEMMA SameAssumption == Proved!ConsumerAssumption
<1>1. /\ ConsumerBatch \in Nat \ {0} /\ MaxStarts \in Nat \ {0} /\ MaxDrops \in Nat
      /\ Tables \in {1..n : n \in {1, 3}} /\ ConsumerFaults \subseteq Proved!FaultKinds
  BY PipelineAssumption DEF Worker!FaultKinds, Proved!FaultKinds
<1>2. PICK M : M = 1..MaxMsgs
  OBVIOUS
<1>3. [t \in Tables |-> M] \in [Tables -> SUBSET (M \ {})]
  OBVIOUS
<1>4. 1 \in Tables
  BY <1>1
<1>5. [t \in Tables |-> M][1] = M \ {}
  BY <1>4
<1> QED
  BY <1>1, <1>2, <1>3, <1>5, Deployed DEF Proved!ConsumerAssumption, Proved!Msgs

\* The log has room for the worker's bound.
Logged == Log \in Seq(MsgRecords) /\ Len(Log) \in Nat /\ Len(Log) <= MaxMsgs

\* A step of the API is one of whoever publishes to the worker, or none.
LEMMA ApiPublishes ==
    ASSUME Logged, Logged', Answered, Api
    PROVE  [Proved!Next]_(Proved!vars)
<1>1. \/ topic' = topic
      \/ \E p \in TopicPartitions : topic' = [topic EXCEPT ![p] = topic[p] \o batch[p]]
  <2>1. ASSUME NEW r \in Requests, NEW h \in 1..MaxHosts, NEW n \in 1..MaxSamples, SendSample(r, h, n)
        PROVE  topic' = topic
    BY <2>1 DEF SendSample, Receive, kafka
  <2>2. ASSUME NEW r \in Requests, NEW overGRPC \in BOOLEAN, RunChecks(r, overGRPC)
        PROVE  topic' = topic
    BY <2>2 DEF RunChecks, Receive, kafka
  <2>3. ASSUME NEW r \in Requests, GiveUp(r) \/ Insert(r) \/ Publish(r) \/ Answer(r)
        PROVE  topic' = topic
    BY <2>3 DEF GiveUp, Insert, Publish, Answer, kafka
  <2>4. ASSUME NEW p \in TopicPartitions, FormBatch(p)
        PROVE  topic' = topic
    BY <2>4 DEF FormBatch
  <2>5. ASSUME NEW p \in TopicPartitions, Transmit(p)
        PROVE  topic' = topic \/ topic' = [topic EXCEPT ![p] = topic[p] \o batch[p]]
    BY <2>5 DEF Transmit, Reaches
  <2>6. ASSUME Crash \/ Restart
        PROVE  topic' = topic
    BY <2>6 DEF Crash, Restart, kafka
  <2> QED
    BY <2>1, <2>2, <2>3, <2>4, <2>5, <2>6, StepLemma DEF Api
<1>2. Len(Log)' >= Len(Log)
  <2>1. CASE topic' = topic
    BY <2>1 DEF Logged, Log
  <2>2. ASSUME NEW p \in TopicPartitions, topic' = [topic EXCEPT ![p] = topic[p] \o batch[p]]
        PROVE  Len(Log)' >= Len(Log)
    <3>1. /\ topic \in [TopicPartitions -> Seq(MsgRecords)]
          /\ batch \in [TopicPartitions -> Seq(MsgRecords)]
      BY VolumeTypes
    <3>2. CASE p = <<"agent", 0>>
      <4>1. topic'[p] = topic[p] \o batch[p] /\ topic[p] \in Seq(MsgRecords) /\ batch[p] \in Seq(MsgRecords)
        BY <2>2, <3>1
      <4>2. Len(topic[p] \o batch[p]) = Len(topic[p]) + Len(batch[p]) /\ Len(batch[p]) \in Nat
        BY <4>1, ConcatProperties, LenProperties
      <4>3. Log = topic[p] /\ Log' = topic'[p]
        BY <3>2 DEF Log
      <4>4. PICK l, m, b : l = Len(Log) /\ m = Len(Log') /\ b = Len(batch[p])
        OBVIOUS
      <4>5. l \in Nat /\ b \in Nat /\ m = l + b
        BY <4>1, <4>2, <4>3, <4>4 DEF Logged
      <4>6. m >= l
        BY <4>5
      <4> QED
        BY <4>4, <4>6
    <3>3. CASE p # <<"agent", 0>>
      <4>1. Log' = Log
        BY <2>2, <3>1, <3>3, Deployed DEF Log
      <4>2. Len(Log)' = Len(Log) /\ Len(Log) >= Len(Log)
        BY <4>1 DEF Logged
      <4> QED
        BY <4>2
    <3> QED
      BY <3>2, <3>3
  <2> QED
    BY <1>1, <2>1, <2>2
<1>3. UNCHANGED consumer
  BY DEF Api
<1>4. CASE Len(Log)' = Len(Log)
  BY <1>3, <1>4 DEF consumer, Proved!vars, Proved!broker, Proved!reader, Proved!flush, Proved!history
<1>5. CASE Len(Log)' # Len(Log)
  <2>1. Len(Log)' \in (Len(Log) + 1)..MaxMsgs
    <3>1. PICK l, m : l = Len(Log) /\ m = Len(Log)'
      OBVIOUS
    <3>2. l \in Nat /\ m \in Nat /\ m <= MaxMsgs /\ MaxMsgs \in Nat /\ m >= l /\ m # l
      BY <1>2, <1>5, <3>1, Deployed DEF Logged
    <3>3. m \in (l + 1)..MaxMsgs
      BY <3>2
    <3> QED
      BY <3>1, <3>3
  <2>2. Proved!Publish
    BY <1>3, <2>1 DEF consumer, Proved!Publish, Proved!reader, Proved!flush, Proved!history
  <2> QED
    BY <2>2 DEF Proved!Next
<1> QED
  BY <1>4, <1>5

\* Every step is one of the API's module, and one of the worker's.
LEMMA BothModules ==
    ASSUME [PipelineNext]_pipeline
    PROVE  /\ [Next]_vars
           /\ Logged /\ Logged' /\ Answered => [Proved!Next]_(Proved!vars)
<1>1. CASE Api
  BY <1>1, ApiPublishes DEF Api
<1>2. CASE WorkerRun \/ WorkerMeets
  <2>1. UNCHANGED vars
    BY <1>2 DEF WorkerRun, WorkerMeets, api, vars
  <2>2. Worker!Run \/ Worker!Environment
    BY <1>2 DEF WorkerRun, WorkerMeets
  <2>3. Proved!Next
    BY <2>2, SameWorker DEF Proved!Next
  <2> QED
    BY <2>1, <2>3
<1>3. CASE UNCHANGED pipeline
  <2>1. UNCHANGED vars
    BY <1>3 DEF pipeline, api, vars
  <2>2. UNCHANGED Proved!vars
    BY <1>3 DEF pipeline, api, kafka, consumer, Log, Proved!vars, Proved!broker, Proved!reader,
                Proved!flush, Proved!history
  <2> QED
    BY <2>1, <2>2
<1> QED
  BY <1>1, <1>2, <1>3 DEF PipelineNext

\* The pipeline is an ingestion with brokers ...
THEOREM PipelineIngests == PipelineSpec => Spec
<1>1. PipelineInit => Init
  BY DEF PipelineInit
<1>2. [PipelineNext]_pipeline => [Next]_vars
  BY BothModules
<1> QED
  BY <1>1, <1>2, PTL DEF PipelineSpec, Spec

\* ... and the worker's behaviour, whose topic grows as the producer stores
\* its batches: ConsumerWorker assumes of whoever publishes no more than what
\* the API does.
THEOREM PipelineConsumes == PipelineSpec => []Logged /\ Proved!Spec
<1>1. PipelineInit => Answered /\ Volume
  BY InitLemma, VolumeInit DEF PipelineInit
<1>2. Answered /\ Volume /\ [PipelineNext]_pipeline => Answered' /\ Volume'
  BY BothModules, NextLemma, VolumeByNext
<1>3. Answered /\ Volume => Logged
  BY LogLemma DEF Logged
<1>4. PipelineInit => Proved!Init
  BY SameWorker DEF PipelineInit
<1>5. Logged /\ Logged' /\ Answered /\ [PipelineNext]_pipeline => [Proved!Next]_(Proved!vars)
  BY BothModules
<1> QED
  BY <1>1, <1>2, <1>3, <1>4, <1>5, PTL DEF PipelineSpec, Proved!Spec

----------------------------------------------------------------------------
(* Counting from end to end. *)

\* What the theorems of the two halves say of a state of the pipeline.
Halves ==
    /\ Answered /\ FailedOnly /\ Ordered /\ Budgeted /\ Volume /\ Logged
    /\ Proved!TypeOK /\ Proved!LossBounded /\ Proved!OneInsertPerStart

\* A set that is mapped one to one into a finite set is no larger.
LEMMA Matched ==
    ASSUME NEW A, NEW B, IsFiniteSet(B), NEW f \in [A -> B],
           \A x, y \in A : f[x] = f[y] => x = y
    PROVE  /\ IsFiniteSet(A) /\ Cardinality(A) \in Nat /\ Cardinality(B) \in Nat
           /\ Cardinality(A) <= Cardinality(B)
<1>1. f \in Injection(A, B)
  BY DEF Injection, IsInjective
<1> QED
  BY <1>1, FS_Injection, FS_CardinalityType

\* The item of a sample, and no other sample's.
LEMMA SampleItem ==
    ASSUME NEW s \in Samples
    PROVE  /\ s = <<s[1], s[2]>>
           /\ Item("agent", s[1], s[2]) \in SampleItems /\ Item("agent", s[1], s[2]) \in Items
           /\ PartitionOf(Item("agent", s[1], s[2])) = <<"agent", 0>>
           /\ \A r \in Samples : Item("agent", r[1], r[2]) = Item("agent", s[1], s[2]) => r = s
<1>1. \A r \in Samples : r = <<r[1], r[2]>> /\ r[1] \in 1..MaxHosts /\ r[2] \in 1..MaxSamples
  BY DEF Samples
<1>2. \A h, n : /\ Item("agent", h, n).table = "agent"
                /\ Item("agent", h, n).key = h /\ Item("agent", h, n).n = n
  BY DEF Item
<1>3. Item("agent", s[1], s[2]) \in SampleItems /\ Item("agent", s[1], s[2]) \in Items
  BY <1>1, ItemLemma
<1>4. PartitionOf(Item("agent", s[1], s[2])) = <<"agent", 0>>
  BY <1>2, <1>3, Deployed
<1>5. ASSUME NEW r \in Samples, Item("agent", r[1], r[2]) = Item("agent", s[1], s[2])
      PROVE  r = s
  <2>1. r[1] = s[1] /\ r[2] = s[2]
    BY <1>2, <1>5
  <2> QED
    BY <1>1, <2>1
<1> QED
  BY <1>1, <1>3, <1>4, <1>5

\* The messages of a sample in the log.
LEMMA MessagesLemma ==
    ASSUME Halves, NEW s \in Samples
    PROVE  /\ Messages(s) \subseteq 1..MaxMsgs
           /\ IsFiniteSet(Messages(s)) /\ Cardinality(Messages(s)) \in Nat
           /\ sends[s] \in Nat /\ lostAcks \in Nat
           /\ Cardinality(Messages(s)) <= sends[s] * (1 + lostAcks)
<1>1. PICK i : i = Item("agent", s[1], s[2])
  OBVIOUS
<1>2. i \in Items /\ i \in SampleItems /\ PartitionOf(i) = <<"agent", 0>> /\ s = <<i.key, i.n>>
  <2>1. i.key = s[1] /\ i.n = s[2]
    BY <1>1 DEF Item
  <2> QED
    BY <1>1, <2>1, SampleItem
<1>3. Log \in Seq(MsgRecords) /\ Len(Log) \in Nat /\ Len(Log) <= MaxMsgs /\ DOMAIN Log = 1..Len(Log)
  BY LenProperties DEF Halves, Logged
<1>4. Messages(s) = Places(Log, i)
  BY <1>1, <1>3 DEF Messages, Places
<1>5. At(topic, i) = Cardinality(Messages(s))
  BY <1>2, <1>4, Deployed DEF At, Count, Log
<1>6. IsFiniteSet(Messages(s)) /\ Cardinality(Messages(s)) \in Nat
  BY <1>3, <1>4, CountType DEF Count
<1>7. Messages(s) \subseteq 1..MaxMsgs
  <2>1. 1..Len(Log) \subseteq 1..MaxMsgs
    BY <1>3, Deployed
  <2> QED
    BY <1>3, <2>1 DEF Messages
<1>8. SentFor(i) = sends[s]
  BY <1>2, Deployed DEF SentFor
<1>9. PICK w, q, b, t, r : Balanced(w, q, b, t, r, sends[s], lostAcks) /\ t = Cardinality(Messages(s))
  BY <1>2, <1>5, <1>8 DEF Halves, Budgeted, Budget
<1>10. /\ w \in Nat /\ q \in Nat /\ b \in Nat /\ t \in Nat /\ r \in Nat
       /\ sends[s] \in Nat /\ lostAcks \in Nat
       /\ r + t + w + q + b <= sends[s] * (1 + lostAcks)
  BY <1>9 DEF Balanced
<1>11. t <= sends[s] * (1 + lostAcks)
  <2>1. PICK n : n = sends[s] * (1 + lostAcks)
    OBVIOUS
  <2>2. n \in Nat
    BY <1>10, <2>1
  <2> QED
    BY <1>10, <2>1, <2>2
<1> QED
  BY <1>6, <1>7, <1>9, <1>10, <1>11

\* The rows of a sample in a table.
LEMMA CopiesLemma ==
    ASSUME Halves, NEW s \in Samples, NEW t \in Tables
    PROVE  /\ \A k \in Messages(s) : inserted[t][k] \in Nat /\ inserted[t][k] <= starts
           /\ starts \in Nat
           /\ Copies(s, t) = Total(inserted[t], Messages(s))
<1>1. inserted \in [Tables -> [1..MaxMsgs -> Nat]] /\ starts \in 1..MaxStarts
  BY DEF Halves, Proved!TypeOK, Proved!Msgs
<1>2. starts \in Nat
  BY <1>1, PipelineAssumption
<1>3. \A k \in 1..MaxMsgs : inserted[t][k] \in Nat /\ inserted[t][k] <= starts
  BY <1>1 DEF Halves, Proved!OneInsertPerStart, Proved!Msgs
<1>4. Messages(s) \subseteq 1..MaxMsgs
  BY MessagesLemma
<1> QED
  BY <1>2, <1>3, <1>4 DEF Copies, Total

LEMMA CopiesFollow == Halves => EndToEndCopies
<1> SUFFICES ASSUME Halves, NEW s \in Samples, NEW t \in Tables
             PROVE  Copies(s, t) <= sends[s] * (1 + lostAcks) * starts
  BY DEF EndToEndCopies
<1>1. Copies(s, t) \in Nat /\ Copies(s, t) <= starts * Cardinality(Messages(s))
  <2>1. PICK f, S, n : f = inserted[t] /\ S = Messages(s) /\ n = starts
    OBVIOUS
  <2>2. IsFiniteSet(S) /\ n \in Nat /\ 0 \in Nat /\ \A k \in S : f[k] \in Nat /\ f[k] <= n
    BY <2>1, MessagesLemma, CopiesLemma
  <2>3. \A k \in S : f[k] \in Nat /\ 0 <= f[k]
    BY <2>2
  <2>4. Total(f, S) <= n * Cardinality(S)
    BY <2>2, SumAtMost
  <2>5. Total(f, S) \in Nat
    BY <2>2, <2>3, SumAtLeast
  <2> QED
    BY <2>1, <2>4, <2>5, CopiesLemma
<1>2. PICK c, m, n, l, k : /\ c = Copies(s, t) /\ m = Cardinality(Messages(s))
                           /\ n = sends[s] /\ l = lostAcks /\ k = starts
  OBVIOUS
<1>3. m \in Nat /\ n \in Nat /\ l \in Nat /\ k \in Nat /\ m <= n * (1 + l)
  BY <1>2, MessagesLemma, CopiesLemma
<1>4. PICK p : p = n * (1 + l)
  OBVIOUS
<1>5. p \in Nat /\ m <= p
  BY <1>3, <1>4
<1>6. k * m <= k * p /\ k * m \in Nat /\ k * p \in Nat
  <2>1. k <= k
    BY <1>3
  <2> QED
    BY <1>3, <1>5, <2>1, ProductGrows
<1>7. k * p = p * k
  BY <1>3, <1>5
<1>8. c \in Nat /\ c <= k * m
  BY <1>1, <1>2
<1>9. c <= p * k
  BY <1>6, <1>7, <1>8
<1> QED
  BY <1>2, <1>4, <1>9

\* A sample that was answered with OK, is in no table and not on its way: it
\* is not in the log, where the API lost it, or the consumer lost its messages.
MissingIn(t) == {s \in Sent : Copies(s, t) = 0 /\ ~Coming(s)}

LEMMA NotLogged ==
    ASSUME Halves, NEW t \in Tables, NEW s \in MissingIn(t), Messages(s) = {}
    PROVE  Item("agent", s[1], s[2]) \in Lost
<1>1. s \in Samples /\ ~Coming(s)
  BY DEF MissingIn, Sent
<1>2. PICK i : i = Item("agent", s[1], s[2])
  OBVIOUS
<1>3. i \in Items /\ i \in SampleItems /\ PartitionOf(i) = <<"agent", 0>>
  BY <1>1, <1>2, SampleItem
<1>4. i \in acked /\ ~InMemory(i)
  BY <1>1, <1>2 DEF MissingIn, Sent, Coming
<1>5. rows[i] = 0
  BY <1>3 DEF Halves, Volume
<1>6. ~InTopic(i)
  <2> SUFFICES ASSUME NEW p \in TopicPartitions, NEW m \in Range(topic[p]), m.item = i
               PROVE  FALSE
    BY DEF InTopic
  <2>1. p = <<"agent", 0>>
    BY <1>3 DEF Halves, Ordered, InLane
  <2>2. m \in Range(Log)
    BY <2>1 DEF Log
  <2>3. PICK k \in DOMAIN Log : m = Log[k]
    BY <2>2 DEF Range
  <2>4. k \in Messages(s)
    BY <1>2, <2>3 DEF Messages
  <2> QED
    BY <2>4
<1>7. ~Held(i)
  BY <1>4, <1>5, <1>6 DEF Held
<1> QED
  BY <1>2, <1>3, <1>4, <1>7 DEF Lost, Due

LEMMA NotInserted ==
    ASSUME Halves, NEW t \in Tables, NEW s \in MissingIn(t)
    PROVE  Messages(s) \subseteq Proved!Lost(t) \cup skipped
<1> SUFFICES ASSUME NEW k \in Messages(s), k \notin skipped
             PROVE  k \in Proved!Lost(t)
  OBVIOUS
<1>1. s \in Samples /\ ~Coming(s) /\ Copies(s, t) = 0
  BY DEF MissingIn, Sent
<1>2. k \in 1..MaxMsgs
  BY <1>1, MessagesLemma
<1>3. ~ (k > Worker!Passed) /\ k \notin Range(collected)
  BY <1>1 DEF Coming
<1>4. k <= Proved!Passed
  <2>1. Worker!Passed = Proved!Passed
    BY DEF Worker!Passed, Proved!Passed
  <2>2. PICK n : n = Proved!Passed
    OBVIOUS
  <2>3. n \in Nat
    <3>1. committed \in 0..Len(Log) /\ position \in 0..Len(Log) /\ Len(Log) \in Nat
      BY DEF Halves, Proved!TypeOK, Logged
    <3>2. committed \in Nat /\ position \in Nat
      BY <3>1
    <3> QED
      BY <2>2, <3>2 DEF Proved!Passed
  <2>4. k \in Nat /\ ~ (k > n)
    BY <1>2, <1>3, <2>1, <2>2, Deployed
  <2>5. k <= n
    BY <2>3, <2>4
  <2> QED
    BY <2>2, <2>5
<1>5. inserted[t][k] = 0
  <2>1. PICK f, S : f = inserted[t] /\ S = Messages(s)
    OBVIOUS
  <2>2. IsFiniteSet(S) /\ k \in S /\ 0 \in Nat /\ \A j \in S : f[j] \in Nat
    BY <1>1, <2>1, MessagesLemma, CopiesLemma
  <2>3. \A j \in S : f[j] \in Nat /\ 0 <= f[j]
    BY <2>2
  <2>4. f[k] <= Total(f, S) /\ Total(f, S) = 0
    <3>1. \A j \in S : f[j] <= Total(f, S)
      BY <2>2, <2>3, SumAtLeast
    <3>2. Total(f, S) = 0
      BY <1>1, <2>1, CopiesLemma
    <3> QED
      BY <2>2, <3>1, <3>2
  <2>5. f[k] = 0
    BY <2>2, <2>4
  <2> QED
    BY <2>1, <2>5
<1>6. k \notin Proved!ToSet(collected)
  BY <1>3 DEF Proved!ToSet, Range
<1> QED
  BY <1>2, <1>4, <1>5, <1>6 DEF Proved!Lost

LEMMA LossFollows == Halves => EndToEndLoss
<1> SUFFICES ASSUME Halves, ~crashed, NEW t \in Tables
             PROVE  Cardinality(MissingIn(t)) <=
                        failed + Cardinality(skipped)
                            + (ConsumerBatch - 1) * kills + blind + ConsumerBatch * drops[t]
  BY DEF EndToEndLoss, MissingIn
<1> DEFINE A == {s \in MissingIn(t) : Messages(s) = {}}
           B == {s \in MissingIn(t) : Messages(s) # {}}
           D == Proved!Lost(t) \cup skipped
<1>1. MissingIn(t) = A \cup B /\ MissingIn(t) \subseteq Samples
  BY DEF MissingIn, Sent
<1>2. IsFiniteSet(Lost) /\ Cardinality(Lost) <= failed /\ failed \in Nat
  BY DEF Halves, FailedOnly, Answered, Typed
<1>3. /\ IsFiniteSet(A) /\ Cardinality(A) \in Nat /\ Cardinality(Lost) \in Nat
      /\ Cardinality(A) <= Cardinality(Lost)
  <2> DEFINE f == [s \in A |-> Item("agent", s[1], s[2])]
  <2>1. f \in [A -> Lost]
    BY NotLogged
  <2>2. \A r, s \in A : f[r] = f[s] => r = s
    BY <1>1, SampleItem
  <2> HIDE DEF A, f
  <2> QED
    BY <1>2, <2>1, <2>2, Matched
<1>4. /\ IsFiniteSet(Proved!Lost(t)) /\ IsFiniteSet(skipped) /\ IsFiniteSet(D)
      /\ Cardinality(Proved!Lost(t)) \in Nat /\ Cardinality(skipped) \in Nat
      /\ Cardinality(D) \in Nat
      /\ Cardinality(D) <= Cardinality(Proved!Lost(t)) + Cardinality(skipped)
  <2>1. IsFiniteSet(1..MaxMsgs)
    BY Deployed, FS_Interval
  <2>2. Proved!Lost(t) \in SUBSET (1..MaxMsgs)
    BY DEF Proved!Lost
  <2>3. skipped \in SUBSET (1..MaxMsgs)
    <3>1. skipped \subseteq 1..Len(Log) /\ Len(Log) \in Nat /\ Len(Log) <= MaxMsgs
      BY DEF Halves, Proved!TypeOK, Logged
    <3>2. 1..Len(Log) \subseteq 1..MaxMsgs
      BY <3>1, Deployed
    <3> QED
      BY <3>1, <3>2
  <2>4. PICK X, Y : X = Proved!Lost(t) /\ Y = skipped
    OBVIOUS
  <2>5. IsFiniteSet(X) /\ IsFiniteSet(Y)
    BY <2>1, <2>2, <2>3, <2>4, FS_Subset
  <2>6. /\ IsFiniteSet(X \cup Y) /\ IsFiniteSet(X \cap Y)
        /\ Cardinality(X \cup Y) = Cardinality(X) + Cardinality(Y) - Cardinality(X \cap Y)
    BY <2>5, FS_Union, FS_Intersection
  <2>7. /\ Cardinality(X) \in Nat /\ Cardinality(Y) \in Nat
        /\ Cardinality(X \cup Y) \in Nat /\ Cardinality(X \cap Y) \in Nat
    BY <2>5, <2>6, FS_CardinalityType
  <2>8. Cardinality(X \cup Y) <= Cardinality(X) + Cardinality(Y)
    BY <2>6, <2>7
  <2> QED
    BY <2>4, <2>5, <2>6, <2>7, <2>8
<1>5. IsFiniteSet(B) /\ Cardinality(B) \in Nat /\ Cardinality(B) <= Cardinality(D)
  <2> DEFINE f == [s \in B |-> CHOOSE k \in Messages(s) : TRUE]
  <2>1. \A s \in B : f[s] \in Messages(s)
    OBVIOUS
  <2>2. f \in [B -> D]
    BY <2>1, NotInserted
  <2>3. ASSUME NEW r \in B, NEW s \in B, f[r] = f[s]
        PROVE  r = s
    <3>1. /\ Log[f[r]].item = Item("agent", r[1], r[2])
          /\ Log[f[s]].item = Item("agent", s[1], s[2])
      BY <2>1 DEF Messages
    <3>2. Item("agent", r[1], r[2]) = Item("agent", s[1], s[2])
      BY <2>3, <3>1
    <3> QED
      BY <1>1, <3>2, SampleItem
  <2> HIDE DEF B, D, f
  <2> QED
    BY <1>4, <2>2, <2>3, Matched
<1>6. /\ IsFiniteSet(MissingIn(t)) /\ Cardinality(MissingIn(t)) \in Nat
      /\ Cardinality(MissingIn(t)) <= Cardinality(A) + Cardinality(B)
  <2>1. A \cap B = {}
    OBVIOUS
  <2> HIDE DEF A, B
  <2>2. /\ IsFiniteSet(A \cup B)
        /\ Cardinality(A \cup B) = Cardinality(A) + Cardinality(B) - Cardinality(A \cap B)
    BY <1>3, <1>5, FS_Union
  <2>3. Cardinality(A \cap B) = 0
    BY <2>1, FS_EmptySet
  <2> QED
    BY <1>1, <1>3, <1>5, <2>2, <2>3
<1>7. Cardinality(Proved!Lost(t)) <= (ConsumerBatch - 1) * kills + blind + ConsumerBatch * drops[t]
  <2>1. Proved!Cardinality(Proved!Lost(t)) = Cardinality(Proved!Lost(t))
    BY DEF Proved!Cardinality, Cardinality
  <2> QED
    BY <2>1 DEF Halves, Proved!LossBounded
<1>8. PICK a, b, c : a = (ConsumerBatch - 1) * kills /\ b = blind /\ c = ConsumerBatch * drops[t]
  OBVIOUS
<1>9. a \in Int /\ b \in Int /\ c \in Int
  <2>1. kills \in Nat /\ blind \in 0..kills /\ drops \in [Tables -> Nat]
    BY DEF Halves, Proved!TypeOK
  <2>2. drops[t] \in Nat /\ ConsumerBatch \in Nat
    BY <2>1, PipelineAssumption
  <2>3. \A x, y \in Int : x * y \in Int
    OBVIOUS
  <2>4. ConsumerBatch - 1 \in Int /\ ConsumerBatch \in Int /\ kills \in Int /\ drops[t] \in Int /\ blind \in Int
    BY <2>1, <2>2
  <2> QED
    BY <1>8, <2>3, <2>4
<1>10. PICK m, u, v, d, l, k, e : /\ m = Cardinality(MissingIn(t)) /\ u = Cardinality(A)
                                  /\ v = Cardinality(B) /\ d = Cardinality(D)
                                  /\ l = Cardinality(Proved!Lost(t)) /\ k = Cardinality(skipped)
                                  /\ e = Cardinality(Lost)
  OBVIOUS
<1> HIDE DEF A, B, D
<1>11. /\ m \in Nat /\ u \in Nat /\ v \in Nat /\ d \in Nat /\ l \in Nat /\ k \in Nat /\ e \in Nat
       /\ m <= u + v /\ u <= e /\ e <= failed /\ v <= d /\ d <= l + k /\ l <= a + b + c
  BY <1>2, <1>3, <1>4, <1>5, <1>6, <1>7, <1>8, <1>10
<1>12. m <= failed + k + a + b + c
  BY <1>2, <1>9, <1>11
<1> QED
  BY <1>8, <1>10, <1>12

\* What PipelineIngests and PipelineConsumes bring together.
LEMMA HalvesHold == PipelineSpec => []Halves
<1>1. PipelineInit => Answered /\ FailedOnly /\ Ordered /\ Budgeted /\ Volume
  BY InitLemma, LostInit, OrderInit, BudgetInit, VolumeInit DEF PipelineInit
<1>2. Answered /\ FailedOnly /\ Ordered /\ Budgeted /\ Volume /\ [PipelineNext]_pipeline
        => Answered' /\ FailedOnly' /\ Ordered' /\ Budgeted' /\ Volume'
  BY BothModules, NextLemma, LostByNext, OrderByNext, BudgetByNext, VolumeByNext
<1>3. Proved!Spec => []Proved!TypeOK /\ []Proved!LossBounded /\ []Proved!OneInsertPerStart
  BY SameAssumption, Proved!TypeCorrect, Proved!LossesAreBounded, Proved!OnceAStart
<1>4. PipelineSpec => []Logged /\ Proved!Spec
  BY PipelineConsumes
<1>5. Answered /\ FailedOnly /\ Ordered /\ Budgeted /\ Volume /\ Logged
        /\ Proved!TypeOK /\ Proved!LossBounded /\ Proved!OneInsertPerStart => Halves
  BY DEF Halves
<1> QED
  BY <1>1, <1>2, <1>3, <1>4, <1>5, PTL DEF PipelineSpec

\* A sample that its agent dropped because of the OK is missing from a table
\* for a failure that is counted, one for each: an error or a dropped batch of
\* the API, an end of the consumer, an insert that failed or a start behind it.
THEOREM EveryLossIsCounted == PipelineSpec => []EndToEndLoss
  BY HalvesHold, LossFollows, PTL

\* A sample has as many rows as it was sent, times the acknowledgements that
\* were lost, times the starts of the consumer, and never more.
THEOREM EveryCopyIsCounted == PipelineSpec => []EndToEndCopies
  BY HalvesHold, CopiesFollow, PTL

=============================================================================
