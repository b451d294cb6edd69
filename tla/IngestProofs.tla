---------------------------- MODULE IngestProofs ----------------------------
(***************************************************************************)
(* Proofs about ingestion, for every number of hosts, samples, requests    *)
(* and partitions, every batch size and every number of failures.          *)
(***************************************************************************)
EXTENDS Ingest, FiniteSetTheorems, SequenceTheorems, TLAPS

Writes   == [via : {"publish", "insert"}, item : Items]
MsgRecords == [item : Items, no : Nat]
ReqRecords ==
    [todo : Seq(Writes), items : SUBSET Items, client : 0..MaxHosts, waiting : BOOLEAN]

Main(i) == Item("agent", i.key, i.n)

\* The variables' types, with sequences in place of their ranges.
Typed ==
    /\ enabled \in BOOLEAN /\ up \in BOOLEAN /\ crashed \in BOOLEAN
    /\ req \in [Requests -> ReqRecords]
    /\ rows \in [Items -> Nat]
    /\ {queue, batch, topic} \subseteq [TopicPartitions -> Seq(MsgRecords)]
    /\ sends \in [Samples -> Nat] /\ \A s \in Samples : sends[s] <= started
    /\ started \in 0..MaxRequests /\ rounds \in 0..MaxRounds
    /\ acked \subseteq Items
    /\ {published, failed, lostAcks} \subseteq Nat /\ faults \in 0..MaxFaults

\* What a request is about to write: its own items, through the producer or
\* not; the row of a disk or a network only after the one of its sample.
Honest(q) ==
    /\ \A w \in Range(q.todo) : w.item \in q.items
    /\ ~enabled => \A w \in Range(q.todo) : w.via = "insert"
    /\ enabled => \A w \in Range(q.todo) : w.via = "insert" => w.item \notin SampleItems
    /\ \A w \in Range(q.todo) : w.via = "publish" => w.item.table \in {"agent", "probe"}
    /\ ~enabled => \A i \in q.items \cap SampleItems :
          rows[Main(i)] > 0 \/ (q.todo # <<>> /\ Head(q.todo) = Inserts(Main(i)))
HonestReqs == \A r \in Requests : Honest(req[r])

\* What the producer holds for a partition: numbered messages of its keys,
\* and no more than a batch on its way.
KafkaOK ==
    \A p \in TopicPartitions :
        /\ \A m \in Range(queue[p]) \cup Range(batch[p]) \cup Range(topic[p]) : m.no \in 1..published
        /\ Len(batch[p]) <= BatchSize
        /\ ~enabled => queue[p] = <<>> /\ batch[p] = <<>> /\ topic[p] = <<>>

\* The inductive invariant behind the answers and the tables.
Answered ==
    Typed /\ HonestReqs /\ KafkaOK /\ AnsweredIsStored /\ PartsFollowMain

----------------------------------------------------------------------------
(* Sequences. *)

LEMMA Constants ==
    /\ {MaxHosts, MaxSamples, MaxRequests, MaxUrls, MaxRounds, MaxFaults} \subseteq Nat
    /\ MaxHosts \in Nat /\ MaxRequests \in Nat /\ MaxFaults \in Nat /\ MaxUrls \in Nat
    /\ MaxRounds \in Nat
    /\ BatchSize \in Nat \ {0}
  BY IngestAssumption

\* What a tail, an extension and the two parts of a sequence hold.
LEMMA TailRange ==
    ASSUME NEW S, NEW s \in Seq(S), s # <<>>
    PROVE  /\ Head(s) \in Range(s) /\ Tail(s) \in Seq(S)
           /\ Range(s) = Range(Tail(s)) \cup {Head(s)}
<1>1. /\ Tail(s) \in Seq(S) /\ Len(Tail(s)) = Len(s) - 1 /\ Len(s) \in Nat \ {0}
      /\ \A i \in 1..Len(Tail(s)) : Tail(s)[i] = s[i + 1]
  BY HeadTailProperties, EmptySeq
<1>2. Range(s) = {s[i] : i \in 1..Len(s)} /\ Range(Tail(s)) = {Tail(s)[i] : i \in 1..Len(Tail(s))}
  BY <1>1, RangeEquality
<1>3. Head(s) = s[1]
  BY <1>1
<1>4. ASSUME NEW x \in Range(s)
      PROVE  x \in Range(Tail(s)) \cup {Head(s)}
  <2>1. PICK i \in 1..Len(s) : x = s[i]
    BY <1>2
  <2>2. i # 1 => i - 1 \in 1..Len(Tail(s)) /\ Tail(s)[i - 1] = x
    <3>1. i # 1 => i - 1 \in 1..Len(Tail(s)) /\ (i - 1) + 1 = i
      BY <1>1
    <3> QED
      BY <1>1, <2>1, <3>1
  <2> QED
    BY <1>2, <1>3, <2>1, <2>2
<1>5. ASSUME NEW x \in Range(Tail(s))
      PROVE  x \in Range(s)
  <2>1. PICK i \in 1..Len(Tail(s)) : x = Tail(s)[i]
    BY <1>2
  <2>2. i + 1 \in 1..Len(s) /\ x = s[i + 1]
    BY <1>1, <2>1
  <2> QED
    BY <1>2, <2>2
<1>6. Head(s) \in Range(s)
  <2>1. 1 \in 1..Len(s)
    BY <1>1
  <2> QED
    BY <1>2, <1>3, <2>1
<1> QED
  BY <1>1, <1>4, <1>5, <1>6

LEMMA AppendRange ==
    ASSUME NEW S, NEW s \in Seq(S), NEW e \in S
    PROVE  Append(s, e) \in Seq(S) /\ Range(Append(s, e)) = Range(s) \cup {e}
<1>1. Append(s, e) \in Seq(S) /\ Append(s, e) = s \o <<e>> /\ <<e>> \in Seq(S)
  BY AppendProperties, AppendIsConcat
<1>2. Range(<<e>>) = {e}
  BY DEF Range
<1>3. \A v \in Seq(S) : Range(s \o v) = Range(s) \cup Range(v)
  BY ONLY s \in Seq(S), RangeConcatenation, Zenon
<1>4. Range(s \o <<e>>) = Range(s) \cup Range(<<e>>)
  BY ONLY <1>1, <1>3, Zenon
<1> QED
  BY ONLY <1>1, <1>2, <1>4, Zenon

\* A sequence and its first k elements.
LEMMA SplitRange ==
    ASSUME NEW S, NEW s \in Seq(S), NEW k \in 1..Len(s)
    PROVE  /\ SubSeq(s, 1, k) \in Seq(S) /\ SubSeq(s, k + 1, Len(s)) \in Seq(S)
           /\ Len(SubSeq(s, 1, k)) = k
           /\ s = SubSeq(s, 1, k) \o SubSeq(s, k + 1, Len(s))
           /\ Range(s) = Range(SubSeq(s, 1, k)) \cup Range(SubSeq(s, k + 1, Len(s)))
<1>1. Len(s) \in Nat /\ k \in Int /\ k + 1 \in Int /\ Len(s) \in Int
  BY LenProperties
<1>2. \A i \in 1..Len(s) : s[i] \in S
  BY ElementOfSeq
<1>3. (\A i \in 1..k : s[i] \in S) /\ (\A i \in k + 1..Len(s) : s[i] \in S)
  BY <1>1, <1>2
<1>4. SubSeq(s, 1, k) \in Seq(S) /\ Len(SubSeq(s, 1, k)) = k
  BY <1>1, <1>3, SubSeqProperties
<1>5. SubSeq(s, k + 1, Len(s)) \in Seq(S)
  BY <1>1, <1>3, SubSeqProperties
<1>6. s = SubSeq(s, 1, k) \o SubSeq(s, k + 1, Len(s))
  <2>1. 1 \in 1..Len(s) + 1 /\ k \in (1 - 1)..Len(s) /\ Len(s) \in k..Len(s)
    BY <1>1
  <2>2. SubSeq(s, 1, k) \o SubSeq(s, k + 1, Len(s)) = SubSeq(s, 1, Len(s))
    BY <2>1, ConcatAdjacentSubSeq
  <2> QED
    BY <2>2, SubSeqFull
<1>7. \A u, v \in Seq(S) : Range(u \o v) = Range(u) \cup Range(v)
  BY ONLY RangeConcatenation, Zenon
<1> QED
  BY ONLY <1>4, <1>5, <1>6, <1>7, Zenon

----------------------------------------------------------------------------
(* New requests. *)

\* The items of a sample and of a round are items, and never the same ones.
LEMMA ItemLemma ==
    /\ \A h \in 1..MaxHosts, n \in 1..MaxSamples : \A t \in {"agent", "disk", "net"} :
          Item(t, h, n) \in SampleItems /\ Item(t, h, n) \in Items
    /\ \A u \in 1..MaxUrls, n \in 1..MaxRounds :
          Item("probe", u, n) \in Items /\ Item("probe", u, n) \notin SampleItems
    /\ \A i \in Items : i \in SampleItems <=> i.table # "probe"
    /\ \A i \in Items : i.table = "agent" => Main(i) = i
    /\ \A i \in SampleItems : Main(i) \in Items
    /\ \A i \in SampleItems : \E s \in Samples : i.key = s[1] /\ i.n = s[2]
    /\ \A i \in Items : <<i.table, i.key>> \in {"agent", "disk", "net", "probe"} \X Nat
<1>1. ASSUME NEW i \in SampleItems
      PROVE  /\ i.table \in {"agent", "disk", "net"} /\ i.key \in 1..MaxHosts /\ i.n \in 1..MaxSamples
             /\ i = Item(i.table, i.key, i.n)
  <2>1. PICK t \in {"agent", "disk", "net"}, s \in Samples : i = Item(t, s[1], s[2])
    BY DEF SampleItems
  <2>2. i.table = t /\ i.key = s[1] /\ i.n = s[2]
    BY <2>1 DEF Item
  <2> QED
    BY <2>1, <2>2 DEF Samples
<1>2. ASSUME NEW i \in ProbeItems
      PROVE  i.table = "probe" /\ i.key \in 1..MaxUrls
  <2>1. PICK u \in 1..MaxUrls, n \in 1..MaxRounds : i = Item("probe", u, n)
    BY DEF ProbeItems
  <2> QED
    BY <2>1 DEF Item
<1>3. \A h \in 1..MaxHosts, n \in 1..MaxSamples : \A t \in {"agent", "disk", "net"} :
          Item(t, h, n) \in SampleItems
  <2>1. \A h \in 1..MaxHosts, n \in 1..MaxSamples :
            <<h, n>> \in Samples /\ <<h, n>>[1] = h /\ <<h, n>>[2] = n
    BY DEF Samples
  <2>2. \A s \in Samples : \A t \in {"agent", "disk", "net"} : Item(t, s[1], s[2]) \in SampleItems
    BY DEF SampleItems
  <2> TAKE h \in 1..MaxHosts, n \in 1..MaxSamples
  <2>3. \A t \in {"agent", "disk", "net"} : Item(t, <<h, n>>[1], <<h, n>>[2]) \in SampleItems
    BY <2>1, <2>2, Zenon
  <2> QED
    BY <2>1, <2>3
<1>4. \A u \in 1..MaxUrls, n \in 1..MaxRounds : Item("probe", u, n) \in ProbeItems
  BY DEF ProbeItems
<1>5. \A t, h, n : Item(t, h, n).table = t /\ Item(t, h, n).key = h /\ Item(t, h, n).n = n
  BY DEF Item
<1>6. Items = SampleItems \cup ProbeItems
  BY DEF Items
<1>7. \A i \in SampleItems : i.table \in {"agent", "disk", "net"}
  BY <1>1
<1>8. \A i \in ProbeItems : i.table = "probe"
  BY <1>2
<1>9. \A i \in SampleItems : i.table = "agent" => Main(i) = i
  BY <1>1 DEF Main
<1>10. \A i \in SampleItems : Main(i) \in SampleItems
  BY <1>1, <1>3 DEF Main
<1>11. \A i \in SampleItems : \E s \in Samples : i.key = s[1] /\ i.n = s[2]
  <2>1. ASSUME NEW i \in SampleItems
        PROVE  \E s \in Samples : i.key = s[1] /\ i.n = s[2]
    <3>1. <<i.key, i.n>> \in Samples
      BY <1>1 DEF Samples
    <3> QED
      BY <3>1
  <2> QED
    BY <2>1
<1>12. \A i \in Items : i.table \in {"agent", "disk", "net", "probe"} /\ i.key \in Nat
  <2>1. \A i \in SampleItems : i.key \in Nat
    BY <1>1
  <2>2. \A i \in ProbeItems : i.key \in Nat
    BY <1>2
  <2> QED
    BY <2>1, <2>2, <1>6, <1>7, <1>8
<1>13. \A i \in Items : i \in SampleItems <=> i.table # "probe"
  BY <1>6, <1>7, <1>8
<1>14. \A u \in 1..MaxUrls, n \in 1..MaxRounds :
          Item("probe", u, n) \in Items /\ Item("probe", u, n) \notin SampleItems
  BY <1>4, <1>5, <1>6, <1>7
<1>15. \A i \in Items : i.table = "agent" => Main(i) = i
  BY <1>6, <1>8, <1>9
<1> QED
  BY <1>3, <1>6, <1>10, <1>11, <1>12, <1>13, <1>14, <1>15

\* The writes of a sample.
LEMMA AgentWritesLemma ==
    ASSUME enabled \in BOOLEAN, NEW h \in 1..MaxHosts, NEW n \in 1..MaxSamples
    PROVE  /\ AgentWrites(h, n) \in Seq(Writes)
           /\ enabled => AgentWrites(h, n) = <<Publishes(Item("agent", h, n))>>
           /\ enabled => Range(AgentWrites(h, n)) = {Publishes(Item("agent", h, n))}
           /\ ~enabled => Head(AgentWrites(h, n)) = Inserts(Item("agent", h, n))
           /\ ~enabled => Range(AgentWrites(h, n)) =
                  {Inserts(Item("agent", h, n)), Inserts(Item("disk", h, n)), Inserts(Item("net", h, n))}
           /\ AgentWrites(h, n) # <<>>
<1> DEFINE a == Item("agent", h, n)
           d == Item("disk", h, n)
           e == Item("net", h, n)
<1>1. a \in Items /\ d \in Items /\ e \in Items
  BY ItemLemma
<1> HIDE DEF a, d, e
<1>2. \A i \in Items : Publishes(i) \in Writes /\ Inserts(i) \in Writes
  BY DEF Publishes, Inserts, Writes
<1>3. CASE enabled
  <2>1. AgentWrites(h, n) = <<Publishes(a)>>
    BY <1>3 DEF AgentWrites, a
  <2>2. PICK x \in Writes : x = Publishes(a)
    BY <1>1, <1>2
  <2>3. <<x>> \in Seq(Writes) /\ Range(<<x>>) = {x} /\ <<x>> # <<>>
    BY DEF Range
  <2> QED
    BY <1>3, <2>1, <2>2, <2>3 DEF a
<1>4. CASE ~enabled
  <2>1. AgentWrites(h, n) = <<Inserts(a), Inserts(d), Inserts(e)>>
    BY <1>4 DEF AgentWrites, a, d, e
  <2>2. PICK x \in Writes, y \in Writes, z \in Writes :
            x = Inserts(a) /\ y = Inserts(d) /\ z = Inserts(e)
    BY <1>1, <1>2
  <2>3. <<x, y, z>> \in Seq(Writes) /\ <<x, y, z>> # <<>> /\ Head(<<x, y, z>>) = x
    BY DEF Range
  <2>4. Range(<<x, y, z>>) = {x, y, z}
    <3>1. DOMAIN <<x, y, z>> = {1, 2, 3}
      OBVIOUS
    <3> QED
      BY <3>1 DEF Range
  <2> QED
    BY <1>4, <2>1, <2>2, <2>3, <2>4 DEF a, d, e
<1> QED
  BY <1>3, <1>4

\* The writes of a round.
LEMMA ProbeWritesLemma ==
    ASSUME enabled \in BOOLEAN, NEW n \in 1..MaxRounds, NEW overGRPC \in BOOLEAN, NEW ws,
           ws = IF overGRPC THEN IngestProbe(n) ELSE ProbeWrites(n)
    PROVE  /\ ws \in Seq(Writes) /\ Len(ws) = MaxUrls
           /\ \A u \in 1..MaxUrls : ws[u].item = Item("probe", u, n)
           /\ \A w \in Range(ws) : \E u \in 1..MaxUrls : w = ws[u]
           /\ ~enabled => \A w \in Range(ws) : w.via = "insert"
<1>1. PICK via \in {"publish", "insert"} :
          /\ ws = [u \in 1..MaxUrls |-> [via |-> via, item |-> Item("probe", u, n)]]
          /\ ~enabled => via = "insert"
  BY DEF IngestProbe, ProbeWrites, Inserts, Publishes
<1>2. \A u \in 1..MaxUrls : [via |-> via, item |-> Item("probe", u, n)] \in Writes
  BY ItemLemma DEF Writes
<1>3. ws \in [1..MaxUrls -> Writes]
  BY <1>1, <1>2
<1>4. MaxUrls \in Nat
  BY Constants
<1>5. ws \in Seq(Writes)
  BY <1>3, <1>4, SeqDef
<1>6. Len(ws) = MaxUrls
  <2>1. DOMAIN ws = 1..Len(ws) /\ Len(ws) \in Nat /\ DOMAIN ws = 1..MaxUrls
    BY <1>3, <1>5, LenProperties
  <2> QED
    BY <2>1, <1>4
<1>7. \A u \in 1..MaxUrls : ws[u].item = Item("probe", u, n) /\ ws[u].via = via
  <2>1. ASSUME NEW u \in 1..MaxUrls
        PROVE  ws[u].item = Item("probe", u, n) /\ ws[u].via = via
    <3>1. PICK i : i = Item("probe", u, n)
      OBVIOUS
    <3>2. ws[u] = [via |-> via, item |-> i]
      BY <1>1, <3>1
    <3> QED
      BY <3>1, <3>2
  <2> QED
    BY <2>1
<1>8. \A w \in Range(ws) : \E u \in 1..MaxUrls : w = ws[u]
  BY <1>5, <1>6, RangeEquality
<1> QED
  BY <1>1, <1>5, <1>6, <1>7, <1>8

----------------------------------------------------------------------------
(* Requests, one at a time. *)

Grows == /\ rows' \in [Items -> Nat]
         /\ \A i \in Items : rows[i] > 0 => rows'[i] > 0

LEMMA HonestGrows ==
    ASSUME NEW q \in ReqRecords, Honest(q), Grows, enabled' = enabled
    PROVE  Honest(q)'
<1>1. \A i \in q.items \cap SampleItems : Main(i) \in Items
  BY ItemLemma
<1> QED
  BY <1>1 DEF Honest, Grows

\* A step that changes one request and adds rows.
LEMMA OneRequest ==
    ASSUME Typed, HonestReqs, NEW r \in Requests, NEW q \in ReqRecords,
           req' = [req EXCEPT ![r] = q], Honest(q)', Grows, enabled' = enabled
    PROVE  req' \in [Requests -> ReqRecords] /\ HonestReqs'
<1>1. req \in [Requests -> ReqRecords]
  BY DEF Typed
<1>2. req' \in [Requests -> ReqRecords] /\ req'[r] = q
      /\ \A o \in Requests : o # r => req'[o] = req[o]
  BY <1>1
<1>3. ASSUME NEW o \in Requests
      PROVE  Honest(req[o])'
  <2>1. PICK x : x = req'[o]
    OBVIOUS
  <2>2. CASE o = r
    <3>1. x = q
      BY <1>2, <2>1, <2>2
    <3> QED
      BY <2>1, <3>1 DEF Honest
  <2>3. CASE o # r
    <3>1. x = req[o] /\ x \in ReqRecords /\ Honest(x)
      BY <1>1, <1>2, <2>1, <2>3 DEF HonestReqs
    <3>2. Honest(x)'
      BY <3>1, HonestGrows
    <3> QED
      BY <2>1, <3>2 DEF Honest
  <2> QED
    BY <2>2, <2>3
<1> QED
  BY <1>2, <1>3 DEF HonestReqs

LEMMA IdleLemma == Idle \in ReqRecords /\ Honest(Idle) /\ Honest(Idle)'
<1>1. Idle \in ReqRecords
  BY Constants DEF Idle, ReqRecords
<1>2. Range(Idle.todo) = {} /\ Idle.items = {}
  BY DEF Idle, Range
<1>3. Honest(Idle)
  BY <1>2 DEF Honest
<1>4. Honest(Idle)'
  BY <1>2 DEF Honest
<1> QED
  BY <1>1, <1>3, <1>4

\* A request goes on with its next write, having done the first one.
LEMMA ContinueLemma ==
    ASSUME Typed, HonestReqs, NEW r \in Requests, Continue(r), req[r].todo # <<>>,
           Grows, enabled' = enabled,
           \/ rows'[Head(req[r].todo).item] > 0
           \/ enabled
           \/ Head(req[r].todo).item.table # "agent"
    PROVE  req' \in [Requests -> ReqRecords] /\ HonestReqs'
<1>1. PICK q \in ReqRecords : q = req[r]
  BY DEF Typed
<1>2. PICK u : u = [q EXCEPT !.todo = Tail(@)]
  OBVIOUS
<1>3. req' = [req EXCEPT ![r] = u]
  BY <1>1, <1>2 DEF Continue, Typed
<1>4. q.todo \in Seq(Writes) /\ q.todo # <<>>
  BY <1>1 DEF ReqRecords
<1>5. /\ Head(q.todo) \in Range(q.todo) /\ Tail(q.todo) \in Seq(Writes)
      /\ Range(q.todo) = Range(Tail(q.todo)) \cup {Head(q.todo)}
  BY <1>4, TailRange
<1>6. u.todo = Tail(q.todo) /\ u.items = q.items /\ u \in ReqRecords
  BY <1>2, <1>5 DEF ReqRecords
<1>7. Honest(q) /\ Honest(q)'
  <2>1. Honest(q)
    BY <1>1 DEF HonestReqs
  <2> QED
    BY <2>1, HonestGrows
<1>8. ASSUME ~enabled, NEW i \in q.items \cap SampleItems
      PROVE  rows'[Main(i)] > 0
  <2>1. rows[Main(i)] > 0 \/ Head(q.todo) = Inserts(Main(i))
    BY <1>7, <1>8 DEF Honest
  <2>2. Main(i) \in Items
    BY ItemLemma
  <2>3. CASE rows[Main(i)] > 0
    BY <2>2, <2>3 DEF Grows
  <2>4. CASE Head(q.todo) = Inserts(Main(i))
    <3>1. Head(q.todo).item = Main(i) /\ Main(i).table = "agent"
      BY <2>4 DEF Inserts, Main, Item
    <3> QED
      BY <1>1, <1>8, <3>1
  <2> QED
    BY <2>1, <2>3, <2>4
<1>9. Honest(u)'
  <2>1. \A w \in Range(u.todo) : w \in Range(q.todo)
    BY <1>5, <1>6
  <2>2. /\ \A w \in Range(u.todo) : w.item \in u.items
        /\ ~enabled' => \A w \in Range(u.todo) : w.via = "insert"
        /\ enabled' => \A w \in Range(u.todo) : w.via = "insert" => w.item \notin SampleItems
        /\ \A w \in Range(u.todo) : w.via = "publish" => w.item.table \in {"agent", "probe"}
    BY <1>6, <1>7, <2>1 DEF Honest
  <2>3. ~enabled' => \A i \in u.items \cap SampleItems : rows'[Main(i)] > 0
    BY <1>6, <1>8
  <2> QED
    BY <2>2, <2>3 DEF Honest
<1> QED
  BY <1>3, <1>6, <1>9, OneRequest

\* A request takes shape.
LEMMA ReceiveLemma ==
    ASSUME Answered, NEW r \in Requests, NEW client \in 0..MaxHosts, NEW writes \in Seq(Writes),
           Receive(r, client, writes),
           ~enabled => \A w \in Range(writes) : w.via = "insert",
           enabled => \A w \in Range(writes) : w.via = "insert" => w.item \notin SampleItems,
           \A w \in Range(writes) : w.via = "publish" => w.item.table \in {"agent", "probe"},
           ~enabled => \A w \in Range(writes) : w.item \in SampleItems =>
              writes # <<>> /\ Head(writes) = Inserts(Main(w.item)),
           sends' \in [Samples -> Nat], \A s \in Samples : sends'[s] <= sends[s] + 1,
           rounds' \in 0..MaxRounds
    PROVE  Answered'
<1>1. PICK q : q = [todo |-> writes, items |-> {w.item : w \in Range(writes)},
                    client |-> client, waiting |-> TRUE]
  OBVIOUS
<1>2. Range(writes) \subseteq Writes
  BY RangeOfSeq
<1>3. /\ q.todo = writes /\ q.items = {w.item : w \in Range(writes)}
      /\ q \in ReqRecords
  <2>1. \A w \in Writes : w.item \in Items
    BY DEF Writes
  <2>2. {w.item : w \in Range(writes)} \subseteq Items
    BY <1>2, <2>1
  <2> QED
    BY <1>1, <2>2 DEF ReqRecords
<1>4. Honest(q)
  BY <1>3 DEF Honest
<1>5. /\ req' = [req EXCEPT ![r] = q]
      /\ UNCHANGED <<enabled, up, rows, kafka, acked, failed, faults, crashed>>
      /\ started < MaxRequests /\ started' = started + 1
  BY <1>1 DEF Receive
<1>6. Grows /\ enabled' = enabled
  BY <1>5 DEF Grows, Answered, Typed
<1>7. Honest(q)'
  BY <1>3, <1>4, <1>6, HonestGrows
<1>8. req' \in [Requests -> ReqRecords] /\ HonestReqs'
  BY <1>3, <1>5, <1>6, <1>7, OneRequest DEF Answered
<1>9. started' \in 0..MaxRequests
  BY <1>5, Constants DEF Answered, Typed
<1>10. Typed'
  <2>1. \A s \in Samples : sends'[s] <= started'
    <3>1. started \in Nat /\ sends \in [Samples -> Nat] /\ \A s \in Samples : sends[s] <= started
      BY Constants DEF Answered, Typed
    <3>2. \A s \in Samples : sends[s] \in Nat /\ sends'[s] \in Nat /\ sends'[s] <= sends[s] + 1
      BY <3>1
    <3> QED
      BY <1>5, <3>1, <3>2
  <2> QED
    BY <1>5, <1>8, <1>9, <2>1 DEF Answered, Typed, kafka
<1>11. KafkaOK' /\ AnsweredIsStored' /\ PartsFollowMain'
  BY <1>5 DEF Answered, KafkaOK, AnsweredIsStored, PartsFollowMain, kafka
<1> QED
  BY <1>8, <1>10, <1>11 DEF Answered

LEMMA SendSampleLemma ==
    ASSUME Answered, NEW r \in Requests, NEW h \in 1..MaxHosts, NEW n \in 1..MaxSamples,
           SendSample(r, h, n)
    PROVE  Answered'
<1>1. enabled \in BOOLEAN /\ sends \in [Samples -> Nat] /\ rounds \in 0..MaxRounds
  BY DEF Answered, Typed
<1>2. Receive(r, h, AgentWrites(h, n)) /\ rounds' = rounds
      /\ sends' = [sends EXCEPT ![<<h, n>>] = @ + 1]
  BY DEF SendSample
<1> DEFINE ws == AgentWrites(h, n)
<1>3. /\ ws \in Seq(Writes) /\ ws # <<>>
      /\ enabled => Range(ws) = {Publishes(Item("agent", h, n))}
      /\ ~enabled => Head(ws) = Inserts(Item("agent", h, n))
      /\ ~enabled => Range(ws) =
            {Inserts(Item("agent", h, n)), Inserts(Item("disk", h, n)), Inserts(Item("net", h, n))}
  BY <1>1, AgentWritesLemma
<1>4. ~enabled => \A w \in Range(ws) : w.via = "insert" /\ Main(w.item) = Item("agent", h, n)
  BY <1>3 DEF Inserts, Main, Item
<1>5. enabled => \A w \in Range(ws) : w.via = "publish" /\ w.item.table = "agent"
  BY <1>3 DEF Publishes, Item
<1>6. sends' \in [Samples -> Nat] /\ \A s \in Samples : sends'[s] <= sends[s] + 1
  <2>1. <<h, n>> \in Samples
    BY DEF Samples
  <2>2. \A s \in Samples : sends[s] \in Nat /\ (sends'[s] = sends[s] \/ sends'[s] = sends[s] + 1)
    BY <1>1, <1>2, <2>1
  <2>3. sends' \in [Samples -> Nat]
    BY <1>1, <1>2, <2>1
  <2> QED
    BY <2>2, <2>3
<1>7. h \in 0..MaxHosts
  BY Constants
<1> HIDE DEF ws
<1>8. Receive(r, h, ws)
  BY <1>2 DEF ws
<1> QED
  BY <1>1, <1>2, <1>3, <1>4, <1>5, <1>6, <1>7, <1>8, ReceiveLemma

LEMMA RunChecksLemma ==
    ASSUME Answered, NEW r \in Requests, NEW overGRPC \in BOOLEAN, RunChecks(r, overGRPC)
    PROVE  Answered'
<1>1. enabled \in BOOLEAN /\ sends \in [Samples -> Nat] /\ rounds \in 0..MaxRounds
  BY DEF Answered, Typed
<1>2. /\ rounds < MaxRounds /\ rounds' = rounds + 1 /\ sends' = sends
      /\ rounds' \in 1..MaxRounds /\ rounds + 1 \in 1..MaxRounds
  BY <1>1, Constants DEF RunChecks
<1>3. PICK n \in 1..MaxRounds : n = rounds + 1
  BY <1>2
<1>4. PICK ws : ws = IF overGRPC THEN IngestProbe(n) ELSE ProbeWrites(n)
  OBVIOUS
<1>5. /\ ws \in Seq(Writes) /\ Len(ws) = MaxUrls
      /\ \A u \in 1..MaxUrls : ws[u].item = Item("probe", u, n)
      /\ \A w \in Range(ws) : \E u \in 1..MaxUrls : w = ws[u]
      /\ ~enabled => \A w \in Range(ws) : w.via = "insert"
  BY <1>1, <1>4, ProbeWritesLemma
<1>6. \A w \in Range(ws) : w.item \notin SampleItems /\ w.item.table = "probe"
  <2>1. \A u \in 1..MaxUrls : Item("probe", u, n) \notin SampleItems
    BY ItemLemma
  <2>2. \A u \in 1..MaxUrls : Item("probe", u, n).table = "probe"
    BY DEF Item
  <2> QED
    BY <1>5, <2>1, <2>2
<1>7. 0 \in 0..MaxHosts /\ rounds' \in 0..MaxRounds
  BY <1>2, Constants
<1>8. Receive(r, 0, ws)
  BY <1>3, <1>4 DEF RunChecks
<1> QED
  BY <1>1, <1>2, <1>5, <1>6, <1>7, <1>8, ReceiveLemma

LEMMA GiveUpLemma ==
    ASSUME Answered, NEW r \in Requests, GiveUp(r)
    PROVE  Answered'
<1>1. PICK q \in ReqRecords : q = req[r]
  BY DEF Answered, Typed
<1>2. PICK u : u = [q EXCEPT !.waiting = FALSE]
  OBVIOUS
<1>3. /\ u \in ReqRecords /\ u.todo = q.todo /\ u.items = q.items
      /\ req' = [req EXCEPT ![r] = u]
  BY <1>1, <1>2 DEF GiveUp, ReqRecords, Answered, Typed
<1>4. UNCHANGED <<enabled, up, rows, kafka, clients, acked, failed, faults, crashed>>
  BY DEF GiveUp
<1>5. Grows /\ enabled' = enabled
  BY <1>4 DEF Grows, Answered, Typed
<1>6. Honest(u)'
  <2>1. Honest(q)
    BY <1>1 DEF Answered, HonestReqs
  <2>2. Honest(q)'
    BY <1>5, <2>1, HonestGrows
  <2> QED
    BY <1>3, <2>2 DEF Honest
<1>7. req' \in [Requests -> ReqRecords] /\ HonestReqs'
  BY <1>3, <1>5, <1>6, OneRequest DEF Answered
<1> QED
  BY <1>4, <1>7 DEF Answered, Typed, KafkaOK, AnsweredIsStored, PartsFollowMain, kafka, clients

\* A failure of the model, or none.
LEMMA FailsLemma ==
    ASSUME Typed, NEW r \in Requests, Fails(r) \/ UNCHANGED <<failed, faults>>
    PROVE  failed' \in Nat /\ faults' \in 0..MaxFaults
<1>1. failed \in Nat /\ faults \in 0..MaxFaults /\ MaxFaults \in Nat
  BY Constants DEF Typed
<1> QED
  BY <1>1 DEF Fails, Fault

LEMMA InsertLemma ==
    ASSUME Answered, NEW r \in Requests, Insert(r)
    PROVE  Answered'
<1>1. PICK q \in ReqRecords : q = req[r]
  BY DEF Answered, Typed
<1>2. PICK w : w = Head(q.todo)
  OBVIOUS
<1>3. q.todo # <<>> /\ w.via = "insert"
  BY <1>1, <1>2 DEF Insert, NextWrite
<1>4. w \in Range(q.todo) /\ w \in Writes
  <2>1. q.todo \in Seq(Writes)
    BY DEF ReqRecords
  <2> QED
    BY <1>2, <1>3, <2>1, TailRange, HeadTailProperties
<1>5. PICK i \in Items : i = w.item
  BY <1>4 DEF Writes
<1>6. /\ \/ Stores(i) /\ Continue(r) /\ UNCHANGED <<failed, faults>>
         \/ /\ Fails(r)
            /\ UNCHANGED rows \/ Stores(i)
            /\ IF i.table = "agent" THEN Refuse(r) ELSE Continue(r)
      /\ UNCHANGED <<enabled, up, kafka, clients, acked, crashed>>
  BY <1>1, <1>2, <1>5 DEF Insert
<1>7. rows \in [Items -> Nat]
  BY DEF Answered, Typed
<1>8. /\ Grows /\ \A j \in Items : rows'[j] = rows[j] \/ (j = i /\ Stores(i))
      /\ Stores(i) => rows'[i] > 0
  BY <1>6, <1>7 DEF Stores, Grows
<1>9. failed' \in Nat /\ faults' \in 0..MaxFaults
  BY <1>6, FailsLemma DEF Answered
<1>10. Honest(q)
  BY <1>1 DEF Answered, HonestReqs
<1>11. req' \in [Requests -> ReqRecords] /\ HonestReqs'
  <2>1. CASE Continue(r) /\ (Stores(i) \/ i.table # "agent")
    <3>1. i.table # "agent" \/ rows'[i] > 0
      BY <1>8, <2>1
    <3>2. Head(req[r].todo).item = i /\ req[r].todo # <<>> /\ enabled' = enabled
      BY <1>1, <1>2, <1>3, <1>5, <1>6
    <3> QED
      BY <1>8, <2>1, <3>1, <3>2, ContinueLemma DEF Answered
  <2>2. CASE Refuse(r)
    <3>1. req' = [req EXCEPT ![r] = Idle] /\ enabled' = enabled
      BY <1>6, <2>2 DEF Refuse
    <3> QED
      BY <1>8, <3>1, IdleLemma, OneRequest DEF Answered
  <2> QED
    BY <1>6, <2>1, <2>2
<1>12. Typed'
  BY <1>6, <1>8, <1>9, <1>11 DEF Answered, Typed, kafka, clients, Grows
<1>13. AnsweredIsStored'
  BY <1>6, <1>8 DEF Answered, Typed, AnsweredIsStored, Grows
<1>14. PartsFollowMain'
  <2>1. ASSUME NEW j \in SampleItems, rows'[j] > 0
        PROVE  rows'[Main(j)] > 0
    <3>1. j \in Items /\ Main(j) \in Items
      BY ItemLemma DEF Items
    <3>2. CASE rows[j] > 0
      BY <1>8, <3>1, <3>2 DEF Answered, PartsFollowMain, Main, Grows
    <3>3. CASE ~(rows[j] > 0)
      <4>1. j = i /\ Stores(i)
        BY <1>8, <2>1, <3>1, <3>3
      <4>2. j \in q.items /\ ~enabled
        BY <1>3, <1>4, <1>5, <1>10, <4>1 DEF Honest, Answered, Typed
      <4>3. rows[Main(j)] > 0 \/ w = Inserts(Main(j))
        BY <1>2, <1>10, <4>2 DEF Honest
      <4>4. w = Inserts(Main(j)) => i = Main(j)
        BY <1>5 DEF Inserts
      <4> QED
        BY <1>8, <3>1, <4>1, <4>3, <4>4 DEF Grows
    <3> QED
      BY <3>2, <3>3
  <2> QED
    BY <2>1 DEF PartsFollowMain, Main
<1>15. KafkaOK'
  BY <1>6 DEF Answered, KafkaOK, kafka
<1> QED
  BY <1>11, <1>12, <1>13, <1>14, <1>15 DEF Answered

LEMMA PartitionLemma ==
    ASSUME NEW i \in Items, i.table \in {"agent", "probe"}
    PROVE  PartitionOf(i) \in TopicPartitions
<1>1. i.key \in Nat
  BY ItemLemma
<1>2. i.key % Partitions \in 0..Partitions - 1
  BY <1>1, IngestAssumption
<1> QED
  BY <1>2 DEF PartitionOf, TopicPartitions

LEMMA PublishLemma ==
    ASSUME Answered, NEW r \in Requests, Publish(r)
    PROVE  Answered'
<1>1. PICK q \in ReqRecords : q = req[r]
  BY DEF Answered, Typed
<1>2. PICK w : w = Head(q.todo)
  OBVIOUS
<1>3. q.todo # <<>> /\ w.via = "publish"
  BY <1>1, <1>2 DEF Publish, NextWrite
<1>4. w \in Range(q.todo) /\ w \in Writes
  <2>1. q.todo \in Seq(Writes)
    BY DEF ReqRecords
  <2> QED
    BY <1>2, <1>3, <2>1, TailRange, HeadTailProperties
<1>5. PICK i \in Items : i = w.item
  BY <1>4 DEF Writes
<1>6. /\ \/ /\ published' = published + 1
            /\ queue' = [queue EXCEPT ![PartitionOf(i)] = Append(@, [item |-> i, no |-> published'])]
            /\ UNCHANGED <<failed, faults>>
         \/ Fails(r) /\ UNCHANGED <<queue, published>>
      /\ Continue(r)
      /\ UNCHANGED <<enabled, up, rows, batch, topic, lostAcks, clients, acked, crashed>>
  BY <1>1, <1>2, <1>5 DEF Publish
<1>7. Honest(q)
  BY <1>1 DEF Answered, HonestReqs
<1>8. enabled /\ i.table \in {"agent", "probe"}
  <2>1. w.via # "insert"
    BY <1>3
  <2> QED
    BY <1>3, <1>4, <1>5, <1>7, <2>1 DEF Honest, Answered, Typed
<1>9. Grows /\ enabled' = enabled
  BY <1>6 DEF Grows, Answered, Typed
<1>10. req' \in [Requests -> ReqRecords] /\ HonestReqs'
  <2>1. Head(req[r].todo).item = i /\ req[r].todo # <<>>
    BY <1>1, <1>2, <1>3, <1>5
  <2> QED
    BY <1>6, <1>8, <1>9, <2>1, ContinueLemma DEF Answered
<1>11. failed' \in Nat /\ faults' \in 0..MaxFaults
  BY <1>6, FailsLemma DEF Answered
<1>12. published \in Nat /\ queue \in [TopicPartitions -> Seq(MsgRecords)]
  BY DEF Answered, Typed
<1>13. PICK m : m = [item |-> i, no |-> published + 1] /\ m \in MsgRecords
  <2>1. published + 1 \in Nat
    BY <1>12
  <2>2. [item |-> i, no |-> published + 1] \in MsgRecords
    BY <2>1 DEF MsgRecords
  <2> QED
    BY <2>2
<1>14. ASSUME NEW p \in TopicPartitions
       PROVE  /\ queue'[p] \in Seq(MsgRecords)
              /\ \A x \in Range(queue'[p]) : x \in Range(queue[p]) \/ (x = m /\ published' = published + 1)
  <2>1. queue[p] \in Seq(MsgRecords)
    BY <1>12
  <2>2. queue'[p] = queue[p] \/ (queue'[p] = Append(queue[p], m) /\ published' = published + 1)
    BY <1>6, <1>12, <1>13
  <2>3. Append(queue[p], m) \in Seq(MsgRecords) /\ Range(Append(queue[p], m)) = Range(queue[p]) \cup {m}
    <3>1. m \in MsgRecords
      BY <1>13
    <3> QED
      BY <2>1, <3>1, AppendRange
  <2> QED
    BY <2>1, <2>2, <2>3
<1>15. queue' \in [TopicPartitions -> Seq(MsgRecords)]
  <2>1. DOMAIN queue' = TopicPartitions /\ queue' = [p \in TopicPartitions |-> queue'[p]]
    BY <1>6, <1>12
  <2> QED
    BY <2>1, <1>14
<1>16. published' \in Nat /\ published <= published'
  BY <1>6, <1>12
<1>17. KafkaOK'
  <2>1. ASSUME NEW p \in TopicPartitions
        PROVE  \A x \in Range(queue'[p]) \cup Range(batch[p]) \cup Range(topic[p]) : x.no \in 1..published'
    <3>1. \A x \in Range(queue[p]) \cup Range(batch[p]) \cup Range(topic[p]) : x.no \in 1..published
      BY DEF Answered, KafkaOK
    <3>2. \A n \in 1..published : n \in 1..published'
      BY <1>12, <1>16
    <3>3. m.no = published + 1
      BY <1>13
    <3>4. published' = published + 1 => m.no \in 1..published'
      BY <1>12, <3>3
    <3> QED
      BY <1>14, <3>1, <3>2, <3>4
  <2> QED
    BY <1>6, <1>8, <2>1 DEF Answered, KafkaOK
<1>18. Typed'
  BY <1>6, <1>10, <1>11, <1>15, <1>16 DEF Answered, Typed, clients
<1>19. AnsweredIsStored' /\ PartsFollowMain'
  BY <1>6 DEF Answered, AnsweredIsStored, PartsFollowMain
<1> QED
  BY <1>10, <1>17, <1>18, <1>19 DEF Answered

LEMMA AnswerLemma ==
    ASSUME Answered, NEW r \in Requests, Answer(r)
    PROVE  Answered'
<1>1. PICK q \in ReqRecords : q = req[r]
  BY DEF Answered, Typed
<1>2. /\ q.todo = <<>> /\ req' = [req EXCEPT ![r] = Idle]
      /\ acked' = acked \/ acked' = acked \cup q.items
      /\ UNCHANGED <<enabled, up, rows, kafka, clients, failed, faults, crashed>>
  BY <1>1 DEF Answer
<1>3. Grows /\ enabled' = enabled
  BY <1>2 DEF Grows, Answered, Typed
<1>4. req' \in [Requests -> ReqRecords] /\ HonestReqs'
  BY <1>2, <1>3, IdleLemma, OneRequest DEF Answered
<1>5. Honest(q)
  BY <1>1 DEF Answered, HonestReqs
<1>6. q.items \subseteq Items
  BY DEF ReqRecords
<1>7. ASSUME ~enabled, NEW i \in q.items, i.table = "agent"
      PROVE  rows[i] > 0
  <2>1. i \in Items /\ i \in SampleItems /\ Main(i) = i
    BY <1>6, <1>7, ItemLemma
  <2> QED
    BY <1>2, <1>5, <1>7, <2>1 DEF Honest
<1>8. AnsweredIsStored'
  BY <1>2, <1>7 DEF Answered, AnsweredIsStored
<1>9. Typed'
  BY <1>2, <1>4, <1>6 DEF Answered, Typed, kafka, clients
<1>10. KafkaOK' /\ PartsFollowMain'
  BY <1>2 DEF Answered, KafkaOK, PartsFollowMain, kafka
<1> QED
  BY <1>4, <1>8, <1>9, <1>10 DEF Answered

----------------------------------------------------------------------------
(* The producer. *)

LEMMA FormBatchLemma ==
    ASSUME Answered, NEW p \in TopicPartitions, FormBatch(p)
    PROVE  Answered'
<1>1. /\ batch[p] = <<>>
      /\ UNCHANGED <<enabled, up, req, rows, topic, published, lostAcks, clients, acked,
                     failed, faults, crashed>>
  BY DEF FormBatch
<1>2. queue \in [TopicPartitions -> Seq(MsgRecords)] /\ batch \in [TopicPartitions -> Seq(MsgRecords)]
      /\ BatchSize \in Nat
  BY Constants DEF Answered, Typed
<1>3. PICK s \in Seq(MsgRecords) : s = queue[p]
  BY <1>2
<1>4. PICK k \in 1..BatchSize :
          /\ k <= Len(s)
          /\ batch' = [batch EXCEPT ![p] = SubSeq(s, 1, k)]
          /\ queue' = [queue EXCEPT ![p] = SubSeq(s, k + 1, Len(s))]
  BY <1>2, <1>3 DEF FormBatch
<1>5. k \in 1..Len(s)
  BY <1>2, <1>4, LenProperties
<1>6. PICK b \in Seq(MsgRecords), o \in Seq(MsgRecords) :
          /\ b = SubSeq(s, 1, k) /\ o = SubSeq(s, k + 1, Len(s))
          /\ Range(s) = Range(b) \cup Range(o) /\ Len(b) = k
  <2>1. /\ SubSeq(s, 1, k) \in Seq(MsgRecords) /\ SubSeq(s, k + 1, Len(s)) \in Seq(MsgRecords)
        /\ Len(SubSeq(s, 1, k)) = k
        /\ Range(s) = Range(SubSeq(s, 1, k)) \cup Range(SubSeq(s, k + 1, Len(s)))
    BY <1>5, SplitRange
  <2> QED
    BY <2>1, Zenon
<1>7. /\ batch' = [batch EXCEPT ![p] = b] /\ queue' = [queue EXCEPT ![p] = o]
      /\ Len(b) <= BatchSize
  BY <1>2, <1>4, <1>6
<1>8. Typed'
  BY <1>1, <1>7 DEF Answered, Typed, clients
<1>9. KafkaOK'
  <2>1. ASSUME NEW x \in TopicPartitions
        PROVE  /\ Range(queue'[x]) \cup Range(batch'[x]) \subseteq Range(queue[x]) \cup Range(batch[x])
               /\ Len(batch'[x]) <= BatchSize
               /\ ~enabled => queue'[x] = <<>> /\ batch'[x] = <<>>
    <3>1. CASE x # p
      BY <1>2, <1>7, <3>1 DEF Answered, KafkaOK
    <3>2. CASE x = p
      <4>1. queue'[x] = o /\ batch'[x] = b
        BY <1>2, <1>7, <3>2
      <4>2. s # <<>>
        BY <1>5
      <4>3. enabled
        BY <1>3, <4>2 DEF Answered, KafkaOK
      <4> QED
        BY <1>3, <1>6, <1>7, <3>2, <4>1, <4>3
    <3> QED
      BY <3>1, <3>2
  <2> QED
    BY <1>1, <2>1 DEF Answered, KafkaOK
<1>10. HonestReqs' /\ AnsweredIsStored' /\ PartsFollowMain'
  BY <1>1 DEF Answered, HonestReqs, Honest, AnsweredIsStored, PartsFollowMain
<1> QED
  BY <1>8, <1>9, <1>10 DEF Answered

LEMMA TransmitLemma ==
    ASSUME Answered, NEW p \in TopicPartitions, Transmit(p)
    PROVE  Answered'
<1>1. /\ topic \in [TopicPartitions -> Seq(MsgRecords)] /\ batch \in [TopicPartitions -> Seq(MsgRecords)]
      /\ queue \in [TopicPartitions -> Seq(MsgRecords)]
      /\ failed \in Nat /\ lostAcks \in Nat /\ faults \in 0..MaxFaults /\ MaxFaults \in Nat
  BY Constants DEF Answered, Typed
<1>2. PICK b \in Seq(MsgRecords), t \in Seq(MsgRecords) : b = batch[p] /\ t = topic[p]
  BY <1>1
<1>3. /\ b # <<>>
      /\ topic' = topic \/ topic' = [topic EXCEPT ![p] = t \o b]
      /\ batch' = batch \/ batch' = [batch EXCEPT ![p] = <<>>]
      /\ failed' = failed \/ failed' = failed + Len(b)
      /\ lostAcks' = lostAcks \/ lostAcks' = lostAcks + 1
      /\ Fault \/ UNCHANGED faults
      /\ UNCHANGED <<enabled, up, req, rows, queue, published, clients, acked, crashed>>
  BY <1>1, <1>2 DEF Transmit, Reaches, Leaves
<1>4. t \o b \in Seq(MsgRecords) /\ Range(t \o b) = Range(t) \cup Range(b) /\ Len(b) \in Nat
  BY ConcatProperties, RangeConcatenation, LenProperties
<1>5. topic' \in [TopicPartitions -> Seq(MsgRecords)] /\ batch' \in [TopicPartitions -> Seq(MsgRecords)]
  <2>1. PICK tb \in Seq(MsgRecords), e \in Seq(MsgRecords) : tb = t \o b /\ e = <<>>
    <3>1. <<>> \in Seq(MsgRecords)
      OBVIOUS
    <3> QED
      BY <1>4, <3>1
  <2>2. topic' = topic \/ topic' = [topic EXCEPT ![p] = tb]
    BY <1>3, <2>1
  <2>3. batch' = batch \/ batch' = [batch EXCEPT ![p] = e]
    BY <1>3, <2>1
  <2>4. topic' \in [TopicPartitions -> Seq(MsgRecords)]
    BY <1>1, <2>2
  <2>5. batch' \in [TopicPartitions -> Seq(MsgRecords)]
    BY <1>1, <2>3
  <2> QED
    BY <2>4, <2>5
<1>6. failed' \in Nat /\ lostAcks' \in Nat /\ faults' \in 0..MaxFaults
  <2>1. faults' \in 0..MaxFaults
    BY <1>1, <1>3 DEF Fault
  <2> QED
    BY <1>1, <1>3, <1>4, <2>1
<1>7. Typed'
  BY <1>3, <1>5, <1>6 DEF Answered, Typed, clients
<1>8. KafkaOK'
  <2>1. enabled
    BY <1>2, <1>3 DEF Answered, KafkaOK
  <2>2. Range(<<>>) = {} /\ Len(<<>>) = 0 /\ 0 <= BatchSize
    BY Constants DEF Range
  <2>3. ASSUME NEW x \in TopicPartitions
        PROVE  /\ Range(batch'[x]) \cup Range(topic'[x]) \subseteq Range(batch[x]) \cup Range(topic[x])
               /\ Len(batch'[x]) <= BatchSize
    <3>1. topic'[x] = topic[x] \/ (x = p /\ topic'[x] = t \o b)
      BY <1>1, <1>3
    <3>2. batch'[x] = batch[x] \/ batch'[x] = <<>>
      BY <1>1, <1>3
    <3>3. Len(batch[x]) <= BatchSize
      BY DEF Answered, KafkaOK
    <3>4. Range(topic'[x]) \subseteq Range(batch[x]) \cup Range(topic[x])
      BY <1>2, <1>4, <3>1
    <3>5. Range(batch'[x]) \subseteq Range(batch[x]) /\ Len(batch'[x]) <= BatchSize
      BY <2>2, <3>2, <3>3
    <3> QED
      BY <3>4, <3>5
  <2> QED
    BY <1>3, <2>1, <2>3 DEF Answered, KafkaOK
<1>9. HonestReqs' /\ AnsweredIsStored' /\ PartsFollowMain'
  BY <1>3 DEF Answered, HonestReqs, Honest, AnsweredIsStored, PartsFollowMain
<1> QED
  BY <1>7, <1>8, <1>9 DEF Answered

----------------------------------------------------------------------------
(* The process. *)

LEMMA CrashLemma ==
    ASSUME Answered, Crash
    PROVE  Answered'
<1>1. /\ req' = [r \in Requests |-> Idle] /\ up' = FALSE /\ crashed' = TRUE
      /\ queue' = [p \in TopicPartitions |-> <<>>] /\ batch' = [p \in TopicPartitions |-> <<>>]
      /\ UNCHANGED <<enabled, rows, topic, published, lostAcks, clients, acked, failed>>
  BY DEF Crash
<1>2. faults' \in 0..MaxFaults
  BY Constants DEF Crash, Fault, Answered, Typed
<1>3. <<>> \in Seq(MsgRecords) /\ Range(<<>>) = {} /\ Len(<<>>) = 0 /\ 0 <= BatchSize
  BY Constants DEF Range
<1>4. Typed'
  BY <1>1, <1>2, <1>3, IdleLemma DEF Answered, Typed, clients
<1>5. KafkaOK'
  BY <1>1, <1>3 DEF Answered, KafkaOK
<1>6. HonestReqs'
  BY <1>1, IdleLemma DEF HonestReqs, Honest
<1>7. AnsweredIsStored' /\ PartsFollowMain'
  BY <1>1 DEF Answered, AnsweredIsStored, PartsFollowMain
<1> QED
  BY <1>4, <1>5, <1>6, <1>7 DEF Answered

LEMMA StillLemma ==
    ASSUME Answered, Restart \/ UNCHANGED vars
    PROVE  Answered'
<1>1. /\ up' \in BOOLEAN
      /\ UNCHANGED <<enabled, req, rows, kafka, clients, acked, failed, faults, crashed>>
  BY DEF Restart, vars, Answered, Typed
<1> QED
  BY <1>1 DEF Answered, Typed, HonestReqs, Honest, KafkaOK, AnsweredIsStored, PartsFollowMain,
              kafka, clients

LEMMA InitLemma ==
    ASSUME Init
    PROVE  Answered
<1>1. /\ enabled \in BOOLEAN /\ up = TRUE /\ req = [r \in Requests |-> Idle]
      /\ rows = [i \in Items |-> 0] /\ queue = [p \in TopicPartitions |-> <<>>]
      /\ batch = [p \in TopicPartitions |-> <<>>] /\ topic = [p \in TopicPartitions |-> <<>>]
      /\ sends = [s \in Samples |-> 0] /\ rounds = 0 /\ started = 0
      /\ acked = {} /\ published = 0 /\ failed = 0 /\ lostAcks = 0 /\ faults = 0 /\ crashed = FALSE
  BY DEF Init
<1>2. <<>> \in Seq(MsgRecords) /\ Range(<<>>) = {} /\ Len(<<>>) = 0 /\ 0 <= BatchSize
  BY Constants DEF Range
<1>3. Typed
  <2>1. req \in [Requests -> ReqRecords]
    BY <1>1, IdleLemma
  <2>2. {queue, batch, topic} \subseteq [TopicPartitions -> Seq(MsgRecords)]
    BY <1>1, <1>2
  <2>3. sends \in [Samples -> Nat] /\ \A s \in Samples : sends[s] <= started
    BY <1>1
  <2>4. started \in 0..MaxRequests /\ rounds \in 0..MaxRounds /\ faults \in 0..MaxFaults
    BY <1>1, Constants
  <2>5. rows \in [Items -> Nat] /\ acked \subseteq Items /\ {published, failed, lostAcks} \subseteq Nat
    BY <1>1
  <2>6. up \in BOOLEAN /\ crashed \in BOOLEAN /\ enabled \in BOOLEAN
    BY <1>1, Zenon
  <2> QED
    BY <2>1, <2>2, <2>3, <2>4, <2>5, <2>6, Zenon DEF Typed
<1>4. HonestReqs
  BY <1>1, IdleLemma DEF HonestReqs
<1>5. KafkaOK
  BY <1>1, <1>2 DEF KafkaOK
<1>6. AnsweredIsStored
  BY <1>1 DEF AnsweredIsStored
<1>7. PartsFollowMain
  <2>1. \A i \in SampleItems : i \in Items
    BY DEF Items
  <2> QED
    BY <1>1, <2>1 DEF PartsFollowMain
<1> QED
  BY <1>3, <1>4, <1>5, <1>6, <1>7 DEF Answered

\* The step of Next, by whoever takes it.
LEMMA StepLemma ==
    ASSUME Next
    PROVE  \/ \E r \in Requests :
                 \/ \E h \in 1..MaxHosts, n \in 1..MaxSamples : SendSample(r, h, n)
                 \/ \E overGRPC \in BOOLEAN : RunChecks(r, overGRPC)
                 \/ GiveUp(r) \/ Insert(r) \/ Publish(r) \/ Answer(r)
           \/ \E p \in TopicPartitions : FormBatch(p) \/ Transmit(p)
           \/ Crash \/ Restart
<1>1. \A s \in Samples : s[1] \in 1..MaxHosts /\ s[2] \in 1..MaxSamples
  BY DEF Samples
<1> QED
  BY <1>1 DEF Next, Handler, Producer

LEMMA NextLemma ==
    ASSUME Answered, [Next]_vars
    PROVE  Answered'
<1>1. CASE UNCHANGED vars
  BY <1>1, StillLemma
<1>2. CASE Next
  <2>1. ASSUME NEW r \in Requests, NEW h \in 1..MaxHosts, NEW n \in 1..MaxSamples, SendSample(r, h, n)
        PROVE  Answered'
    BY <2>1, SendSampleLemma
  <2>2. ASSUME NEW r \in Requests, NEW overGRPC \in BOOLEAN, RunChecks(r, overGRPC)
        PROVE  Answered'
    BY <2>2, RunChecksLemma
  <2>3. ASSUME NEW r \in Requests, GiveUp(r) \/ Insert(r) \/ Publish(r) \/ Answer(r)
        PROVE  Answered'
    BY <2>3, GiveUpLemma, InsertLemma, PublishLemma, AnswerLemma
  <2>4. ASSUME NEW p \in TopicPartitions, FormBatch(p) \/ Transmit(p)
        PROVE  Answered'
    BY <2>4, FormBatchLemma, TransmitLemma
  <2>5. CASE Crash \/ Restart
    BY <2>5, CrashLemma, StillLemma
  <2> QED
    BY <1>2, <2>1, <2>2, <2>3, <2>4, <2>5, StepLemma
<1> QED
  BY <1>1, <1>2

LEMMA AnsweredImplies ==
    ASSUME Answered
    PROVE  TypeOK /\ AnsweredIsStored /\ PartsFollowMain
<1>1. Typed /\ KafkaOK
  BY DEF Answered
<1>2. \A r \in Requests :
          /\ Range(req[r].todo) \subseteq [via : {"publish", "insert"}, item : Items]
          /\ req[r].items \subseteq Items /\ req[r].client \in 0..MaxHosts
          /\ req[r].waiting \in BOOLEAN
  <2>1. ASSUME NEW r \in Requests
        PROVE  /\ req[r].todo \in Seq(Writes)
               /\ req[r].items \subseteq Items /\ req[r].client \in 0..MaxHosts
               /\ req[r].waiting \in BOOLEAN
    BY <1>1 DEF Typed, ReqRecords
  <2>2. ASSUME NEW r \in Requests
        PROVE  Range(req[r].todo) \subseteq Writes
    BY <2>1, RangeOfSeq
  <2> QED
    BY <2>1, <2>2 DEF Writes
<1>3. ASSUME NEW p \in TopicPartitions
      PROVE  /\ \A m \in Range(queue[p]) \cup Range(batch[p]) \cup Range(topic[p]) :
                  m.item \in Items /\ m.no \in 1..published
             /\ Len(batch[p]) <= BatchSize
             /\ enabled \/ queue[p] \o batch[p] \o topic[p] = <<>>
  <2>1. queue[p] \in Seq(MsgRecords) /\ batch[p] \in Seq(MsgRecords) /\ topic[p] \in Seq(MsgRecords)
    BY <1>1 DEF Typed
  <2>2. Range(queue[p]) \subseteq MsgRecords /\ Range(batch[p]) \subseteq MsgRecords
        /\ Range(topic[p]) \subseteq MsgRecords
    BY <2>1, RangeOfSeq
  <2>3. \A m \in MsgRecords : m.item \in Items
    BY DEF MsgRecords
  <2>4. <<>> \o <<>> \o <<>> = <<>>
    OBVIOUS
  <2> QED
    BY <1>1, <2>2, <2>3, <2>4 DEF KafkaOK
<1>4. sends \in [Samples -> 0..MaxRequests]
  <2>1. \A s \in Samples : sends[s] \in 0..MaxRequests
    BY <1>1, Constants DEF Typed
  <2> QED
    BY <1>1, <2>1 DEF Typed
<1> QED
  BY <1>1, <1>2, <1>3, <1>4 DEF Answered, Typed, TypeOK

\* Every variable of the API keeps its type; without brokers the producer
\* holds nothing, and no batch is larger than its size.
THEOREM TypeCorrect == Spec => []TypeOK
<1>1. Init => Answered
  BY InitLemma
<1>2. Answered /\ [Next]_vars => Answered'
  BY NextLemma
<1>3. Answered => TypeOK
  BY AnsweredImplies
<1> QED
  BY <1>1, <1>2, <1>3, PTL DEF Spec

\* Handle and IngestMetrics without brokers: "ok" is answered only when the
\* row of the sample is in ClickHouse, however many requests time out, are
\* repeated or die with the process.
THEOREM AnswersAreTrue == Spec => []AnsweredIsStored
<1>1. Init => Answered
  BY InitLemma
<1>2. Answered /\ [Next]_vars => Answered'
  BY NextLemma
<1>3. Answered => AnsweredIsStored
  BY AnsweredImplies
<1> QED
  BY <1>1, <1>2, <1>3, PTL DEF Spec

\* The handlers write the row of a sample first and stop when it fails, so no
\* row of a disk or a network is ever without it.
THEOREM MainComesFirst == Spec => []PartsFollowMain
<1>1. Init => Answered
  BY InitLemma
<1>2. Answered /\ [Next]_vars => Answered'
  BY NextLemma
<1>3. Answered => PartsFollowMain
  BY AnsweredImplies
<1> QED
  BY <1>1, <1>2, <1>3, PTL DEF Spec

----------------------------------------------------------------------------
(* What is missing.                                                          *)

\* An item whose write is over: answered, or no longer to be written by the
\* request that carries it.
Due(i) ==
    \/ i \in acked
    \/ \E r \in Requests : i \in req[r].items /\ \A w \in Range(req[r].todo) : w.item # i

Lost == {i \in Items : Due(i) /\ ~Held(i)}

\* Nothing is lost but by a failure of its own, answered or not yet.
FailedOnly == ~crashed => IsFiniteSet(Lost) /\ Cardinality(Lost) <= failed

\* At most n more items are lost, and n more failures are counted.
LEMMA LostLemma ==
    ASSUME Typed, FailedOnly, NEW X, IsFiniteSet(X), NEW n \in Nat, Cardinality(X) <= n,
           Lost' \subseteq Lost \cup X, failed' = failed + n, crashed' = crashed
    PROVE  FailedOnly'
<1>1. CASE crashed
  BY <1>1 DEF FailedOnly
<1>2. CASE ~crashed
  <2>1. IsFiniteSet(Lost) /\ Cardinality(Lost) <= failed /\ failed \in Nat
    BY <1>2 DEF FailedOnly, Typed
  <2>2. /\ IsFiniteSet(Lost \cup X)
        /\ Cardinality(Lost \cup X) = Cardinality(Lost) + Cardinality(X) - Cardinality(Lost \cap X)
    BY <2>1, FS_Union
  <2>3. IsFiniteSet(Lost \cap X)
    BY <2>1, FS_Intersection
  <2>4. Cardinality(Lost) \in Nat /\ Cardinality(X) \in Nat /\ Cardinality(Lost \cap X) \in Nat
    BY <2>1, <2>3, FS_CardinalityType
  <2>5. IsFiniteSet(Lost') /\ Cardinality(Lost') <= Cardinality(Lost \cup X)
    BY <2>2, FS_Subset
  <2>6. Cardinality(Lost') \in Nat
    BY <2>5, FS_CardinalityType
  <2>7. Cardinality(Lost') <= failed'
    BY <2>1, <2>2, <2>4, <2>5, <2>6
  <2> QED
    BY <2>5, <2>7 DEF FailedOnly
<1> QED
  BY <1>1, <1>2

\* Nothing more is lost.
LEMMA NoneLostLemma ==
    ASSUME Typed, FailedOnly, \A i \in Items : Due(i)' /\ ~Held(i)' => Due(i) /\ ~Held(i),
           failed' = failed \/ failed' = failed + 1, crashed' = crashed
    PROVE  FailedOnly'
<1>1. Lost' \subseteq Lost \cup {}
  BY DEF Lost
<1>2. IsFiniteSet({}) /\ Cardinality({}) = 0
  BY FS_EmptySet
<1>3. PICK n \in {0, 1} : failed' = failed + n
  BY DEF Typed
<1>4. n \in Nat /\ Cardinality({}) <= n
  BY <1>2, <1>3
<1> QED
  BY <1>1, <1>2, <1>3, <1>4, LostLemma

\* Rows are added and nothing leaves Kafka.
LEMMA HeldGrows ==
    ASSUME Grows, UNCHANGED <<queue, batch, topic>>, NEW i \in Items, Held(i)
    PROVE  Held(i)'
  BY DEF Grows, Held, InMemory, InTopic

\* A request that is replaced by one whose items are all to be written, or by
\* none, owes nothing new.
LEMMA DueLemma ==
    ASSUME req \in [Requests -> ReqRecords], NEW r \in Requests, NEW q \in ReqRecords,
           req' = [req EXCEPT ![r] = q], NEW i \in Items, Due(i)',
           i \notin acked' \/ i \in acked
    PROVE  Due(i) \/ (i \in q.items /\ \A w \in Range(q.todo) : w.item # i)
<1>1. CASE i \in acked'
  BY <1>1 DEF Due
<1>2. CASE \E o \in Requests : i \in req'[o].items /\ \A w \in Range(req'[o].todo) : w.item # i
  <2>1. PICK o \in Requests : i \in req'[o].items /\ \A w \in Range(req'[o].todo) : w.item # i
    BY <1>2
  <2>2. CASE o = r
    BY <2>1, <2>2
  <2>3. CASE o # r
    BY <2>1, <2>3 DEF Due
  <2> QED
    BY <2>2, <2>3
<1> QED
  BY <1>1, <1>2 DEF Due

LEMMA LostByReceive ==
    ASSUME Answered, FailedOnly, NEW r \in Requests, NEW client \in 0..MaxHosts,
           NEW writes \in Seq(Writes), Receive(r, client, writes)
    PROVE  FailedOnly'
<1>1. PICK q : q = [todo |-> writes, items |-> {w.item : w \in Range(writes)},
                    client |-> client, waiting |-> TRUE]
  OBVIOUS
<1>2. Range(writes) \subseteq Writes
  BY RangeOfSeq
<1>3. /\ q.todo = writes /\ q.items = {w.item : w \in Range(writes)}
      /\ q \in ReqRecords
  <2>1. \A w \in Writes : w.item \in Items
    BY DEF Writes
  <2>2. {w.item : w \in Range(writes)} \subseteq Items
    BY <1>2, <2>1
  <2> QED
    BY <1>1, <2>2 DEF ReqRecords
<1>4. /\ req' = [req EXCEPT ![r] = q]
      /\ UNCHANGED <<rows, kafka, acked, failed, crashed>>
  BY <1>1 DEF Receive
<1>5. req \in [Requests -> ReqRecords] /\ Typed
  BY DEF Answered, Typed
<1>6. ASSUME NEW i \in Items, Due(i)'
      PROVE  Due(i)
  <2>1. Due(i) \/ (i \in q.items /\ \A w \in Range(q.todo) : w.item # i)
    BY <1>3, <1>4, <1>5, <1>6, DueLemma
  <2> QED
    BY <1>3, <2>1
<1>7. \A i \in Items : Held(i)' <=> Held(i)
  BY <1>4 DEF Held, InMemory, InTopic, kafka
<1>8. failed' = failed /\ crashed' = crashed
  BY <1>4
<1> QED
  BY <1>5, <1>6, <1>7, <1>8, NoneLostLemma

LEMMA LostByGiveUp ==
    ASSUME Answered, FailedOnly, NEW r \in Requests, GiveUp(r)
    PROVE  FailedOnly'
<1>1. PICK q \in ReqRecords : q = req[r]
  BY DEF Answered, Typed
<1>2. PICK u : u = [q EXCEPT !.waiting = FALSE]
  OBVIOUS
<1>3. /\ u \in ReqRecords /\ u.todo = q.todo /\ u.items = q.items
      /\ req' = [req EXCEPT ![r] = u]
      /\ UNCHANGED <<rows, kafka, acked, failed, crashed>>
  BY <1>1, <1>2 DEF GiveUp, ReqRecords, Answered, Typed
<1>4. req \in [Requests -> ReqRecords] /\ Typed
  BY DEF Answered, Typed
<1>5. ASSUME NEW i \in Items, Due(i)'
      PROVE  Due(i)
  <2>1. Due(i) \/ (i \in u.items /\ \A w \in Range(u.todo) : w.item # i)
    BY <1>3, <1>4, <1>5, DueLemma
  <2> QED
    BY <1>1, <1>3, <2>1 DEF Due
<1>6. \A i \in Items : Held(i)' <=> Held(i)
  BY <1>3 DEF Held, InMemory, InTopic, kafka
<1>7. failed' = failed /\ crashed' = crashed
  BY <1>3
<1> QED
  BY <1>4, <1>5, <1>6, <1>7, NoneLostLemma

LEMMA LostByAnswer ==
    ASSUME Answered, FailedOnly, NEW r \in Requests, Answer(r)
    PROVE  FailedOnly'
<1>1. PICK q \in ReqRecords : q = req[r]
  BY DEF Answered, Typed
<1>2. /\ q.todo = <<>> /\ req' = [req EXCEPT ![r] = Idle]
      /\ acked' = acked \/ acked' = acked \cup q.items
      /\ UNCHANGED <<rows, kafka, failed, crashed>>
  BY <1>1 DEF Answer
<1>3. req \in [Requests -> ReqRecords] /\ Typed
  BY DEF Answered, Typed
<1>4. Range(q.todo) = {} /\ Idle.items = {}
  BY <1>2 DEF Range, Idle
<1>5. ASSUME NEW i \in Items, Due(i)'
      PROVE  Due(i)
  <2>1. CASE i \in q.items
    BY <1>1, <1>4, <2>1 DEF Due
  <2>2. CASE i \notin q.items
    <3>1. i \notin acked' \/ i \in acked
      BY <1>2, <2>2
    <3>2. Due(i) \/ (i \in Idle.items /\ \A w \in Range(Idle.todo) : w.item # i)
      BY <1>2, <1>3, <1>5, <3>1, IdleLemma, DueLemma
    <3> QED
      BY <1>4, <3>2
  <2> QED
    BY <2>1, <2>2
<1>6. \A i \in Items : Held(i)' <=> Held(i)
  BY <1>2 DEF Held, InMemory, InTopic, kafka
<1>7. failed' = failed /\ crashed' = crashed
  BY <1>2
<1> QED
  BY <1>3, <1>5, <1>6, <1>7, NoneLostLemma

\* A request that goes on owes the item whose write is over.
LEMMA DueByContinue ==
    ASSUME Typed, NEW r \in Requests, Continue(r), req[r].todo # <<>>, acked' = acked,
           NEW i \in Items, Due(i)'
    PROVE  Due(i) \/ i = Head(req[r].todo).item
<1>1. PICK q \in ReqRecords : q = req[r]
  BY DEF Typed
<1>2. PICK u : u = [q EXCEPT !.todo = Tail(@)]
  OBVIOUS
<1>3. req' = [req EXCEPT ![r] = u] /\ req \in [Requests -> ReqRecords]
  BY <1>1, <1>2 DEF Continue, Typed
<1>4. q.todo \in Seq(Writes) /\ q.todo # <<>>
  BY <1>1 DEF ReqRecords
<1>5. Tail(q.todo) \in Seq(Writes) /\ Range(q.todo) = Range(Tail(q.todo)) \cup {Head(q.todo)}
  BY <1>4, TailRange
<1>6. u.todo = Tail(q.todo) /\ u.items = q.items /\ u \in ReqRecords
  BY <1>2, <1>5 DEF ReqRecords
<1>7. Due(i) \/ (i \in u.items /\ \A w \in Range(u.todo) : w.item # i)
  BY <1>3, <1>6, DueLemma
<1>8. ASSUME i \in q.items, \A w \in Range(Tail(q.todo)) : w.item # i, i # Head(q.todo).item
      PROVE  Due(i)
  <2>1. \A w \in Range(q.todo) : w.item # i
    BY <1>5, <1>8
  <2> QED
    BY <1>1, <1>8, <2>1 DEF Due
<1> QED
  BY <1>1, <1>6, <1>7, <1>8

LEMMA LostByInsert ==
    ASSUME Answered, FailedOnly, NEW r \in Requests, Insert(r)
    PROVE  FailedOnly'
<1>1. PICK i : i = Head(req[r].todo).item
  OBVIOUS
<1>2. /\ req[r].todo # <<>>
      /\ \/ Stores(i) /\ Continue(r) /\ UNCHANGED <<failed, faults>>
         \/ /\ Fails(r)
            /\ UNCHANGED rows \/ Stores(i)
            /\ IF i.table = "agent" THEN Refuse(r) ELSE Continue(r)
      /\ UNCHANGED <<kafka, acked, crashed>>
  BY <1>1 DEF Insert, NextWrite
<1>3. Typed /\ req \in [Requests -> ReqRecords] /\ rows \in [Items -> Nat] /\ failed \in Nat
  BY DEF Answered, Typed
<1>4. Grows /\ (Stores(i) /\ i \in Items => rows'[i] > 0)
  BY <1>2, <1>3 DEF Stores, Grows
<1>5. \A j \in Items : Held(j) => Held(j)'
  BY <1>2, <1>4, HeldGrows DEF kafka
<1>6. CASE Continue(r)
  <2>1. \A j \in Items : Due(j)' => Due(j) \/ j = i
    BY <1>1, <1>2, <1>3, <1>6, DueByContinue
  <2>2. CASE Stores(i) /\ UNCHANGED failed
    <3>1. i \in Items => Held(i)'
      BY <1>4, <2>2 DEF Held
    <3> QED
      BY <1>2, <1>3, <1>5, <2>1, <2>2, <3>1, NoneLostLemma
  <2>3. CASE failed' = failed + 1
    <3>1. Lost' \subseteq Lost \cup {i}
      BY <1>5, <2>1 DEF Lost
    <3>2. IsFiniteSet({i}) /\ Cardinality({i}) = 1 /\ 1 \in Nat /\ Cardinality({i}) <= 1
      BY FS_Singleton
    <3> QED
      BY <1>2, <1>3, <2>3, <3>1, <3>2, LostLemma
  <2> QED
    BY <1>2, <2>2, <2>3 DEF Fails
<1>7. CASE Refuse(r) /\ failed' = failed + 1
  <2>1. req' = [req EXCEPT ![r] = Idle] /\ acked' = acked
    BY <1>2, <1>7 DEF Refuse
  <2>2. Idle.items = {}
    BY DEF Idle
  <2>3. \A j \in Items : Due(j)' => Due(j)
    BY <1>3, <2>1, <2>2, IdleLemma, DueLemma
  <2> QED
    BY <1>2, <1>3, <1>5, <1>7, <2>3, NoneLostLemma
<1> QED
  BY <1>2, <1>6, <1>7 DEF Fails

LEMMA LostByPublish ==
    ASSUME Answered, FailedOnly, NEW r \in Requests, Publish(r)
    PROVE  FailedOnly'
<1>1. PICK q \in ReqRecords : q = req[r]
  BY DEF Answered, Typed
<1>2. PICK w : w = Head(q.todo)
  OBVIOUS
<1>3. q.todo # <<>> /\ w.via = "publish"
  BY <1>1, <1>2 DEF Publish, NextWrite
<1>4. w \in Range(q.todo) /\ w \in Writes
  <2>1. q.todo \in Seq(Writes)
    BY DEF ReqRecords
  <2> QED
    BY <1>2, <1>3, <2>1, TailRange, HeadTailProperties
<1>5. PICK i \in Items : i = w.item
  BY <1>4 DEF Writes
<1>6. /\ \/ /\ published' = published + 1
            /\ queue' = [queue EXCEPT ![PartitionOf(i)] = Append(@, [item |-> i, no |-> published'])]
            /\ UNCHANGED failed
         \/ Fails(r) /\ UNCHANGED queue
      /\ Continue(r)
      /\ UNCHANGED <<rows, batch, topic, acked, crashed>>
  BY <1>1, <1>2, <1>5 DEF Publish
<1>7. PartitionOf(i) \in TopicPartitions
  BY <1>1, <1>3, <1>4, <1>5, PartitionLemma DEF Answered, HonestReqs, Honest
<1>8. /\ Typed /\ published \in Nat /\ failed \in Nat
      /\ queue \in [TopicPartitions -> Seq(MsgRecords)] /\ rows \in [Items -> Nat]
  BY DEF Answered, Typed
<1>9. \A j \in Items : Due(j)' => Due(j) \/ j = i
  BY <1>1, <1>2, <1>3, <1>5, <1>6, <1>8, DueByContinue
<1>10. CASE Fails(r) /\ UNCHANGED queue
  <2>1. Grows /\ UNCHANGED <<queue, batch, topic>>
    BY <1>6, <1>8, <1>10 DEF Grows
  <2>2. \A j \in Items : Held(j) => Held(j)'
    BY <2>1, HeldGrows
  <2>3. Lost' \subseteq Lost \cup {i}
    BY <1>9, <2>2 DEF Lost
  <2>4. IsFiniteSet({i}) /\ Cardinality({i}) <= 1 /\ 1 \in Nat
    <3>1. IsFiniteSet({i}) /\ Cardinality({i}) = 1
      BY FS_Singleton, Zenon
    <3> QED
      BY <3>1
  <2> QED
    BY <1>6, <1>8, <1>10, <2>3, <2>4, LostLemma DEF Fails
<1>11. CASE /\ published' = published + 1 /\ UNCHANGED failed
            /\ queue' = [queue EXCEPT ![PartitionOf(i)] = Append(@, [item |-> i, no |-> published'])]
  <2>1. PICK m : m = [item |-> i, no |-> published + 1]
    OBVIOUS
  <2>2. m \in MsgRecords /\ m.item = i
    <3>1. published + 1 \in Nat
      BY <1>8
    <3> QED
      BY <2>1, <3>1 DEF MsgRecords
  <2>3. queue' = [queue EXCEPT ![PartitionOf(i)] = Append(@, m)]
    BY <1>11, <2>1
  <2>4. PICK p \in TopicPartitions : p = PartitionOf(i)
    BY <1>7
  <2>5. /\ queue'[p] = Append(queue[p], m)
        /\ \A x \in TopicPartitions : x # p => queue'[x] = queue[x]
    BY <1>8, <2>3, <2>4
  <2>6. Range(queue'[p]) = Range(queue[p]) \cup {m}
    <3>1. queue[p] \in Seq(MsgRecords)
      BY <1>8
    <3> QED
      BY <2>2, <2>5, <3>1, AppendRange
  <2>7. \A x \in TopicPartitions : Range(queue[x]) \subseteq Range(queue'[x])
    BY <2>5, <2>6
  <2>8. \A j \in Items : Held(j) => Held(j)'
    BY <1>6, <2>7 DEF Held, InMemory, InTopic
  <2>9. Held(i)'
    BY <2>2, <2>6 DEF Held, InMemory
  <2> QED
    BY <1>6, <1>8, <1>9, <1>11, <2>8, <2>9, NoneLostLemma
<1> QED
  BY <1>6, <1>10, <1>11

LEMMA LostByFormBatch ==
    ASSUME Answered, FailedOnly, NEW p \in TopicPartitions, FormBatch(p)
    PROVE  FailedOnly'
<1>1. /\ batch[p] = <<>>
      /\ UNCHANGED <<req, rows, topic, acked, failed, crashed>>
  BY DEF FormBatch
<1>2. /\ queue \in [TopicPartitions -> Seq(MsgRecords)] /\ batch \in [TopicPartitions -> Seq(MsgRecords)]
      /\ BatchSize \in Nat /\ Typed
  BY Constants DEF Answered, Typed
<1>3. PICK s \in Seq(MsgRecords) : s = queue[p]
  BY <1>2
<1>4. PICK k \in 1..BatchSize :
          /\ k <= Len(s)
          /\ batch' = [batch EXCEPT ![p] = SubSeq(s, 1, k)]
          /\ queue' = [queue EXCEPT ![p] = SubSeq(s, k + 1, Len(s))]
  BY <1>2, <1>3 DEF FormBatch
<1>5. k \in 1..Len(s)
  BY <1>2, <1>4, LenProperties
<1>6. Range(s) = Range(SubSeq(s, 1, k)) \cup Range(SubSeq(s, k + 1, Len(s)))
  BY <1>5, SplitRange
<1>7. /\ batch'[p] = SubSeq(s, 1, k) /\ queue'[p] = SubSeq(s, k + 1, Len(s))
      /\ \A x \in TopicPartitions : x # p => batch'[x] = batch[x] /\ queue'[x] = queue[x]
  BY <1>2, <1>4
<1>8. \A x \in TopicPartitions :
          Range(queue[x]) \cup Range(batch[x]) \subseteq Range(queue'[x]) \cup Range(batch'[x])
  <2>1. Range(<<>>) = {}
    BY DEF Range
  <2>2. Range(queue[p]) \cup Range(batch[p]) \subseteq Range(queue'[p]) \cup Range(batch'[p])
    BY <1>1, <1>3, <1>6, <1>7, <2>1
  <2> QED
    BY <1>7, <2>2
<1>9. \A j \in Items : Held(j) => Held(j)'
  BY <1>1, <1>8 DEF Held, InMemory, InTopic
<1>10. \A j \in Items : Due(j)' <=> Due(j)
  BY <1>1 DEF Due
<1> QED
  BY <1>1, <1>2, <1>9, <1>10, NoneLostLemma

\* A batch carries at most as many items as it has messages.
LEMMA CarriedLemma ==
    ASSUME NEW b \in Seq(MsgRecords)
    PROVE  /\ IsFiniteSet({m.item : m \in Range(b)})
           /\ Cardinality({m.item : m \in Range(b)}) <= Len(b)
<1>1. Len(b) \in Nat /\ Range(b) = {b[k] : k \in 1..Len(b)}
  BY LenProperties, RangeEquality
<1>2. {m.item : m \in Range(b)} = {b[k].item : k \in 1..Len(b)}
  BY <1>1
<1>3. PICK X : X = {b[k].item : k \in 1..Len(b)}
  OBVIOUS
<1>4. [k \in 1..Len(b) |-> b[k].item] \in Surjection(1..Len(b), X)
  BY <1>3 DEF Surjection
<1>5. ExistsSurjection(1..Len(b), X)
  BY <1>4 DEF ExistsSurjection
<1>6. IsFiniteSet(X) /\ Cardinality(X) <= Len(b)
  BY <1>1, <1>5, FS_NatSurjection, FS_SurjCardinalityBound
<1> QED
  BY <1>2, <1>3, <1>6

LEMMA LostByTransmit ==
    ASSUME Answered, FailedOnly, NEW p \in TopicPartitions, Transmit(p)
    PROVE  FailedOnly'
<1>1. /\ topic \in [TopicPartitions -> Seq(MsgRecords)] /\ batch \in [TopicPartitions -> Seq(MsgRecords)]
      /\ Typed /\ failed \in Nat
  BY DEF Answered, Typed
<1>2. PICK b \in Seq(MsgRecords) : b = batch[p]
  BY <1>1
<1>3. PICK t \in Seq(MsgRecords) : t = topic[p]
  BY <1>1
<1>4. UNCHANGED <<req, rows, queue, acked, crashed>>
  BY DEF Transmit
<1>5. \A j \in Items : Due(j)' <=> Due(j)
  BY <1>4 DEF Due
<1>6. Range(t \o b) = Range(t) \cup Range(b) /\ Len(b) \in Nat
  BY RangeConcatenation, LenProperties
<1>7. CASE /\ failed' = failed /\ (Reaches(p) \/ UNCHANGED topic)
           /\ UNCHANGED batch \/ (Leaves(p) /\ Reaches(p))
  <2>1. /\ topic' = topic \/ (\A x \in TopicPartitions :
                topic'[x] = topic[x] \/ (x = p /\ topic'[x] = t \o b))
        /\ Reaches(p) => topic'[p] = t \o b
    BY <1>1, <1>2, <1>3, <1>7 DEF Reaches
  <2>2. \A x \in TopicPartitions : batch'[x] = batch[x] \/ (x = p /\ Leaves(p) /\ Reaches(p))
    BY <1>1, <1>7 DEF Leaves
  <2>3. \A x \in TopicPartitions : Range(topic[x]) \subseteq Range(topic'[x])
    BY <1>3, <1>6, <2>1
  <2>4. \A x \in TopicPartitions : Range(batch[x]) \subseteq Range(batch'[x]) \cup Range(topic'[x])
    BY <1>2, <1>6, <1>7, <2>1, <2>2
  <2>5. \A j \in Items : Held(j) => Held(j)'
    BY <1>4, <2>3, <2>4 DEF Held, InMemory, InTopic
  <2> QED
    BY <1>1, <1>4, <1>5, <1>7, <2>5, NoneLostLemma
<1>8. CASE Leaves(p) /\ failed' = failed + Len(batch[p]) /\ UNCHANGED topic
  <2>1. PICK X : X = {m.item : m \in Range(b)}
    OBVIOUS
  <2>2. IsFiniteSet(X) /\ Cardinality(X) <= Len(b)
    BY <2>1, CarriedLemma
  <2>3. \A x \in TopicPartitions : x # p => batch'[x] = batch[x]
    BY <1>1, <1>8 DEF Leaves
  <2>4. \A j \in Items : Held(j) => Held(j)' \/ j \in X
    BY <1>2, <1>4, <1>8, <2>1, <2>3 DEF Held, InMemory, InTopic
  <2>5. Lost' \subseteq Lost \cup X
    BY <1>5, <2>4 DEF Lost
  <2> QED
    BY <1>1, <1>2, <1>4, <1>6, <1>8, <2>2, <2>5, LostLemma
<1> QED
  BY <1>7, <1>8 DEF Transmit

LEMMA LostByNext ==
    ASSUME Answered, FailedOnly, [Next]_vars
    PROVE  FailedOnly'
<1>1. CASE Restart \/ UNCHANGED vars
  <2>1. UNCHANGED <<req, rows, kafka, acked, failed, crashed>>
    BY <1>1 DEF Restart, vars
  <2> QED
    BY <2>1 DEF FailedOnly, Lost, Due, Held, InMemory, InTopic, kafka
<1>2. CASE Crash
  BY <1>2 DEF Crash, FailedOnly
<1>3. CASE Next
  <2>1. ASSUME NEW r \in Requests, NEW h \in 1..MaxHosts, NEW n \in 1..MaxSamples, SendSample(r, h, n)
        PROVE  FailedOnly'
    <3>1. AgentWrites(h, n) \in Seq(Writes)
      BY AgentWritesLemma DEF Answered, Typed
    <3>2. Receive(r, h, AgentWrites(h, n)) /\ h \in 0..MaxHosts
      BY <2>1, Constants DEF SendSample
    <3> QED
      BY <3>1, <3>2, LostByReceive
  <2>2. ASSUME NEW r \in Requests, NEW overGRPC \in BOOLEAN, RunChecks(r, overGRPC)
        PROVE  FailedOnly'
    <3>1. PICK n \in 1..MaxRounds : n = rounds + 1
      BY <2>2, Constants DEF RunChecks, Answered, Typed
    <3>2. PICK ws : ws = IF overGRPC THEN IngestProbe(n) ELSE ProbeWrites(n)
      OBVIOUS
    <3>3. ws \in Seq(Writes)
      BY <3>2, ProbeWritesLemma DEF Answered, Typed
    <3>4. Receive(r, 0, ws) /\ 0 \in 0..MaxHosts
      BY <2>2, <3>1, <3>2, Constants DEF RunChecks
    <3> QED
      BY <3>3, <3>4, LostByReceive
  <2>3. ASSUME NEW r \in Requests, GiveUp(r) \/ Insert(r) \/ Publish(r) \/ Answer(r)
        PROVE  FailedOnly'
    BY <2>3, LostByGiveUp, LostByInsert, LostByPublish, LostByAnswer
  <2>4. ASSUME NEW p \in TopicPartitions, FormBatch(p) \/ Transmit(p)
        PROVE  FailedOnly'
    BY <2>4, LostByFormBatch, LostByTransmit
  <2> QED
    BY <1>1, <1>2, <1>3, <2>1, <2>2, <2>3, <2>4, StepLemma
<1> QED
  BY <1>1, <1>3

LEMMA LostInit ==
    ASSUME Init
    PROVE  FailedOnly
<1>1. acked = {} /\ failed = 0 /\ req = [r \in Requests |-> Idle]
  BY DEF Init
<1>2. Idle.items = {}
  BY DEF Idle
<1>3. Lost = {}
  BY <1>1, <1>2 DEF Lost, Due
<1> QED
  BY <1>1, <1>3, FS_EmptySet DEF FailedOnly

\* What "ok" covered, over HTTP or gRPC, with or without brokers, is a row or
\* on its way to one, except for as many items as writes have failed: no
\* failure takes another write with it.
THEOREM LossesAreFailures == Spec => []MissingBounded
<1>1. Init => Answered /\ FailedOnly
  BY InitLemma, LostInit
<1>2. Answered /\ FailedOnly /\ [Next]_vars => Answered' /\ FailedOnly'
  BY NextLemma, LostByNext
<1>3. Answered /\ FailedOnly => MissingBounded
  <2> SUFFICES ASSUME Answered, FailedOnly, ~crashed
               PROVE  Cardinality({i \in acked : ~Held(i)}) <= failed
    BY DEF MissingBounded
  <2>1. PICK A : A = {i \in acked : ~Held(i)}
    OBVIOUS
  <2>2. A \subseteq Lost
    BY <2>1 DEF Answered, Typed, Lost, Due
  <2>3. IsFiniteSet(Lost) /\ Cardinality(Lost) <= failed /\ failed \in Nat
    BY DEF FailedOnly, Answered, Typed
  <2>4. IsFiniteSet(A) /\ Cardinality(A) <= Cardinality(Lost)
    BY <2>2, <2>3, FS_Subset
  <2>5. Cardinality(A) \in Nat /\ Cardinality(Lost) \in Nat
    BY <2>3, <2>4, FS_CardinalityType
  <2> QED
    BY <2>1, <2>3, <2>4, <2>5
<1> QED
  BY <1>1, <1>2, <1>3, PTL DEF Spec

----------------------------------------------------------------------------
(* Order.                                                                    *)

Ascending(s) == \A j, k \in 1..Len(s) : j < k => s[j].no < s[k].no

\* What the producer and the broker hold for a partition: messages of its
\* keys; the queue and the batch in the order they were published in, the
\* queue last.  Either the batch follows all the broker has, or the broker has
\* it already; and what precedes a smaller number follows a copy of it.
InLane(p, q, b, t) ==
    /\ \A m \in Range(q) \cup Range(b) \cup Range(t) : PartitionOf(m.item) = p
    /\ Ascending(q) /\ Ascending(b)
    /\ \A m \in Range(q) : \A x \in Range(b) \cup Range(t) : x.no < m.no
    /\ \/ \A x \in Range(t), y \in Range(b) : x.no < y.no
       \/ Range(b) \subseteq Range(t)
    /\ \A j, k \in 1..Len(t) : j < k /\ t[j].no > t[k].no => \E i \in 1..j : t[i] = t[k]

Ordered == \A p \in TopicPartitions : InLane(p, queue[p], batch[p], topic[p])

LEMMA NumberLemma ==
    ASSUME NEW s \in Seq(MsgRecords)
    PROVE  /\ Len(s) \in Nat /\ Range(s) = {s[k] : k \in 1..Len(s)}
           /\ \A k \in 1..Len(s) : s[k] \in MsgRecords /\ s[k].no \in Nat /\ s[k] \in Range(s)
           /\ Range(s) \subseteq MsgRecords /\ \A m \in Range(s) : m.no \in Nat
<1>1. Len(s) \in Nat /\ Range(s) = {s[k] : k \in 1..Len(s)} /\ Range(s) \subseteq MsgRecords
  BY LenProperties, RangeEquality, RangeOfSeq
<1>2. \A m \in MsgRecords : m.no \in Nat
  BY DEF MsgRecords
<1> QED
  BY <1>1, <1>2

\* Publishing with a new number.
LEMMA LaneByPublish ==
    ASSUME NEW p, NEW q \in Seq(MsgRecords), NEW b \in Seq(MsgRecords), NEW t \in Seq(MsgRecords),
           InLane(p, q, b, t), NEW m \in MsgRecords, PartitionOf(m.item) = p,
           \A x \in Range(q) \cup Range(b) \cup Range(t) : x.no < m.no
    PROVE  InLane(p, Append(q, m), b, t)
<1>1. PICK a : a = Append(q, m)
  OBVIOUS
<1>2. /\ a \in Seq(MsgRecords) /\ Len(a) = Len(q) + 1
      /\ \A k \in 1..Len(q) : a[k] = q[k]
      /\ a[Len(q) + 1] = m
  BY <1>1, AppendProperties
<1>3. Range(a) = Range(q) \cup {m}
  BY <1>1, AppendRange
<1>4. /\ Len(q) \in Nat
      /\ \A k \in 1..Len(q) : q[k] \in Range(q) /\ q[k].no \in Nat
      /\ m.no \in Nat
  BY NumberLemma DEF MsgRecords
<1>5. Ascending(a)
  <2>1. SUFFICES ASSUME NEW j \in 1..Len(a), NEW k \in 1..Len(a), j < k
                 PROVE  a[j].no < a[k].no
    BY DEF Ascending
  <2>2. j \in 1..Len(q) /\ a[j] = q[j]
    BY <1>2, <1>4, <2>1
  <2>3. CASE k = Len(q) + 1
    BY <1>2, <1>4, <2>2, <2>3
  <2>4. CASE k \in 1..Len(q)
    BY <1>2, <2>1, <2>2, <2>4 DEF InLane, Ascending
  <2> QED
    BY <1>2, <1>4, <2>3, <2>4
<1>6. InLane(p, a, b, t)
  BY <1>3, <1>5 DEF InLane
<1> QED
  BY <1>1, <1>6

\* A batch leaves the queue.
LEMMA LaneByFormBatch ==
    ASSUME NEW p, NEW q \in Seq(MsgRecords), NEW t \in Seq(MsgRecords),
           InLane(p, q, <<>>, t), NEW k \in 1..Len(q)
    PROVE  InLane(p, SubSeq(q, k + 1, Len(q)), SubSeq(q, 1, k), t)
<1>1. PICK b \in Seq(MsgRecords), o \in Seq(MsgRecords) :
          /\ b = SubSeq(q, 1, k) /\ o = SubSeq(q, k + 1, Len(q))
          /\ q = b \o o /\ Len(b) = k
          /\ Range(q) = Range(b) \cup Range(o)
  <2>1. /\ SubSeq(q, 1, k) \in Seq(MsgRecords) /\ SubSeq(q, k + 1, Len(q)) \in Seq(MsgRecords)
        /\ Len(SubSeq(q, 1, k)) = k
        /\ q = SubSeq(q, 1, k) \o SubSeq(q, k + 1, Len(q))
        /\ Range(q) = Range(SubSeq(q, 1, k)) \cup Range(SubSeq(q, k + 1, Len(q)))
    BY SplitRange
  <2> QED
    BY <2>1, Zenon
<1>2. /\ Len(q) = k + Len(o) /\ k \in Nat
      /\ \A i \in 1..k : q[i] = b[i] /\ i \in 1..Len(q)
      /\ \A i \in 1..Len(o) : q[k + i] = o[i] /\ k + i \in 1..Len(q)
  <2>1. /\ Len(q) = Len(b) + Len(o) /\ Len(b) \in Nat /\ Len(o) \in Nat
        /\ \A i \in 1..Len(b) + Len(o) : q[i] = IF i <= Len(b) THEN b[i] ELSE o[i - Len(b)]
    <3>1. PICK c : c = b \o o
      OBVIOUS
    <3>2. /\ Len(c) = Len(b) + Len(o)
          /\ \A i \in 1..Len(b) + Len(o) : c[i] = IF i <= Len(b) THEN b[i] ELSE o[i - Len(b)]
      BY <3>1, ConcatProperties
    <3>3. c = q /\ Len(b) \in Nat /\ Len(o) \in Nat
      BY <1>1, <3>1, LenProperties
    <3> QED
      BY <3>2, <3>3
  <2>2. \A i \in 1..k : i \in 1..Len(b) + Len(o) /\ i <= Len(b) /\ i \in 1..Len(q)
    BY <1>1, <2>1
  <2>3. \A i \in 1..Len(o) : /\ k + i \in 1..Len(b) + Len(o) /\ ~(k + i <= Len(b))
                             /\ k + i \in 1..Len(q) /\ (k + i) - Len(b) = i
    BY <1>1, <2>1
  <2>4. \A i \in 1..k : q[i] = b[i]
    BY <2>1, <2>2
  <2>5. \A i \in 1..Len(o) : q[k + i] = o[i]
    BY <2>1, <2>3
  <2> QED
    BY <1>1, <2>1, <2>2, <2>3, <2>4, <2>5
<1>3. /\ \A i \in 1..Len(q) : q[i].no \in Nat
      /\ Len(b) \in Nat /\ Len(o) \in Nat
      /\ Range(b) = {b[i] : i \in 1..Len(b)} /\ Range(o) = {o[i] : i \in 1..Len(o)}
  BY NumberLemma
<1>4. \A x \in Range(b), y \in Range(o) : x.no < y.no
  <2>1. SUFFICES ASSUME NEW i \in 1..k, NEW j \in 1..Len(o)
                 PROVE  b[i].no < o[j].no
    BY <1>1, <1>3
  <2>2. i \in 1..Len(q) /\ k + j \in 1..Len(q) /\ i < k + j
    BY <1>2, <1>3
  <2>3. q[i].no < q[k + j].no
    BY <2>2 DEF InLane, Ascending
  <2> QED
    BY <1>2, <2>3
<1>5. Ascending(b)
  <2>1. SUFFICES ASSUME NEW i \in 1..k, NEW j \in 1..k, i < j
                 PROVE  b[i].no < b[j].no
    BY <1>1 DEF Ascending
  <2>2. q[i].no < q[j].no
    BY <1>2, <2>1 DEF InLane, Ascending
  <2> QED
    BY <1>2, <2>2
<1>6. Ascending(o)
  <2>1. SUFFICES ASSUME NEW i \in 1..Len(o), NEW j \in 1..Len(o), i < j
                 PROVE  o[i].no < o[j].no
    BY DEF Ascending
  <2>2. k + i \in 1..Len(q) /\ k + j \in 1..Len(q) /\ k + i < k + j
    BY <1>2, <1>3, <2>1
  <2>3. q[k + i].no < q[k + j].no
    BY <2>2 DEF InLane, Ascending
  <2> QED
    BY <1>2, <2>3
<1>7. \A x \in Range(t), y \in Range(q) : x.no < y.no
  BY DEF InLane
<1>8. InLane(p, o, b, t)
  BY <1>1, <1>4, <1>5, <1>6, <1>7 DEF InLane
<1> QED
  BY <1>1, <1>8

\* The batch reaches the broker, and may stay.
LEMMA LaneByTransmit ==
    ASSUME NEW p, NEW q \in Seq(MsgRecords), NEW b \in Seq(MsgRecords), NEW t \in Seq(MsgRecords),
           InLane(p, q, b, t)
    PROVE  /\ InLane(p, q, b, t \o b)
           /\ InLane(p, q, <<>>, t \o b)
           /\ InLane(p, q, <<>>, t)
<1>1. PICK s \in Seq(MsgRecords) : s = t \o b
  BY ConcatProperties
<1>2. /\ Len(s) = Len(t) + Len(b) /\ Range(s) = Range(t) \cup Range(b)
      /\ Len(t) \in Nat /\ Len(b) \in Nat
      /\ \A i \in 1..Len(t) + Len(b) : s[i] = IF i <= Len(t) THEN t[i] ELSE b[i - Len(t)]
  BY <1>1, ConcatProperties, RangeConcatenation, LenProperties
<1>3. /\ \A i \in 1..Len(t) : s[i] = t[i] /\ t[i] \in Range(t) /\ t[i].no \in Nat
      /\ \A i \in 1..Len(s) : i > Len(t) => /\ i - Len(t) \in 1..Len(b) /\ s[i] = b[i - Len(t)]
                                            /\ s[i] \in Range(b) /\ s[i].no \in Nat
  <2>1. /\ \A i \in 1..Len(t) : t[i] \in Range(t) /\ t[i].no \in Nat
        /\ \A i \in 1..Len(b) : b[i] \in Range(b) /\ b[i].no \in Nat
    BY NumberLemma
  <2>2. \A i \in 1..Len(t) : i \in 1..Len(t) + Len(b) /\ i <= Len(t)
    BY <1>2
  <2>3. \A i \in 1..Len(s) : i > Len(t) => /\ i \in 1..Len(t) + Len(b) /\ ~(i <= Len(t))
                                           /\ i - Len(t) \in 1..Len(b)
    BY <1>2
  <2>4. \A i \in 1..Len(t) : s[i] = t[i]
    BY <1>2, <2>2
  <2>5. \A i \in 1..Len(s) : i > Len(t) => s[i] = b[i - Len(t)]
    BY <1>2, <2>3
  <2> QED
    BY <2>1, <2>3, <2>4, <2>5
<1>4. ASSUME NEW j \in 1..Len(s), NEW k \in 1..Len(s), j < k, s[j].no > s[k].no
      PROVE  \E i \in 1..j : s[i] = s[k]
  <2>1. CASE k <= Len(t)
    <3>1. j \in 1..Len(t) /\ k \in 1..Len(t)
      BY <1>2, <1>4, <2>1
    <3>2. s[j] = t[j] /\ s[k] = t[k]
      BY <1>3, <3>1
    <3>3. PICK i \in 1..j : t[i] = t[k]
      BY <1>4, <3>1, <3>2 DEF InLane
    <3>4. i \in 1..Len(t)
      BY <1>2, <3>1
    <3> QED
      BY <1>3, <3>2, <3>3, <3>4
  <2>2. CASE k > Len(t) /\ j > Len(t)
    <3>1. /\ s[j] = b[j - Len(t)] /\ s[k] = b[k - Len(t)]
          /\ j - Len(t) \in 1..Len(b) /\ k - Len(t) \in 1..Len(b)
      BY <1>3, <2>2
    <3>2. j - Len(t) < k - Len(t)
      BY <1>2, <1>4
    <3>3. s[j].no < s[k].no
      BY <3>1, <3>2 DEF InLane, Ascending
    <3>4. s[j].no \in Nat /\ s[k].no \in Nat
      BY <1>3, <2>2
    <3> QED
      BY <1>4, <3>3, <3>4
  <2>3. CASE k > Len(t) /\ j <= Len(t)
    <3>1. j \in 1..Len(t) /\ s[j] = t[j] /\ t[j] \in Range(t) /\ s[k] \in Range(b)
          /\ s[j].no \in Nat /\ s[k].no \in Nat
      BY <1>2, <1>3, <2>3
    <3>2. ~(s[j].no < s[k].no)
      BY <1>4, <3>1
    <3>3. s[k] \in Range(t)
      BY <3>1, <3>2 DEF InLane
    <3>4. PICK n \in 1..Len(t) : t[n] = s[k]
      <4>1. Range(t) = {t[n] : n \in 1..Len(t)}
        BY NumberLemma
      <4> QED
        BY <3>3, <4>1
    <3>5. CASE n <= j
      <4>1. n \in 1..j /\ s[n] = s[k]
        BY <1>3, <3>1, <3>4, <3>5
      <4> QED
        BY <4>1
    <3>6. CASE n > j
      <4>1. PICK i \in 1..j : t[i] = t[n]
        BY <1>4, <3>1, <3>4, <3>6 DEF InLane
      <4>2. i \in 1..Len(t)
        BY <1>2, <3>1
      <4> QED
        BY <1>3, <3>4, <4>1, <4>2
    <3> QED
      BY <3>1, <3>5, <3>6
  <2> QED
    BY <1>2, <2>1, <2>2, <2>3
<1>5. Range(<<>>) = {} /\ Ascending(<<>>)
  BY DEF Range, Ascending
<1>6. InLane(p, q, b, s)
  BY <1>2, <1>4 DEF InLane
<1>7. InLane(p, q, <<>>, s)
  BY <1>2, <1>4, <1>5 DEF InLane
<1>8. InLane(p, q, <<>>, t)
  BY <1>5 DEF InLane
<1> QED
  BY <1>1, <1>6, <1>7, <1>8

LEMMA OrderByPublish ==
    ASSUME Answered, Ordered, NEW r \in Requests, Publish(r)
    PROVE  Ordered'
<1>1. PICK i : i = Head(req[r].todo).item
  OBVIOUS
<1>2. /\ \/ queue' = [queue EXCEPT ![PartitionOf(i)] = Append(@, [item |-> i, no |-> published + 1])]
         \/ UNCHANGED queue
      /\ UNCHANGED <<batch, topic>>
      /\ req[r].todo # <<>>
  BY <1>1 DEF Publish, NextWrite
<1>3. i \in Items
  <2>1. req[r].todo \in Seq(Writes)
    BY DEF Answered, Typed, ReqRecords
  <2>2. Head(req[r].todo) \in Writes
    BY <1>2, <2>1, HeadTailProperties
  <2> QED
    BY <1>1, <2>2 DEF Writes
<1>4. /\ published \in Nat /\ queue \in [TopicPartitions -> Seq(MsgRecords)]
      /\ batch \in [TopicPartitions -> Seq(MsgRecords)] /\ topic \in [TopicPartitions -> Seq(MsgRecords)]
  BY DEF Answered, Typed
<1>5. PICK m \in MsgRecords : m = [item |-> i, no |-> published + 1]
  <2>1. published + 1 \in Nat
    BY <1>4
  <2>2. [item |-> i, no |-> published + 1] \in MsgRecords
    BY <1>3, <2>1 DEF MsgRecords
  <2> QED
    BY <2>2
<1>6. m.item = i /\ m.no = published + 1
  BY <1>5
<1>7. ASSUME NEW p \in TopicPartitions
      PROVE  InLane(p, queue[p], batch[p], topic[p])'
  <2>1. InLane(p, queue[p], batch[p], topic[p])
    BY DEF Ordered
  <2>2. CASE queue'[p] = queue[p]
    BY <1>2, <2>1, <2>2
  <2>3. CASE p = PartitionOf(i) /\ queue'[p] = Append(queue[p], m)
    <3>1. \A x \in Range(queue[p]) \cup Range(batch[p]) \cup Range(topic[p]) : x.no < m.no
      <4>1. \A x \in Range(queue[p]) \cup Range(batch[p]) \cup Range(topic[p]) : x.no \in 1..published
        BY DEF Answered, KafkaOK
      <4> QED
        BY <1>4, <1>6, <4>1
    <3>2. queue[p] \in Seq(MsgRecords) /\ batch[p] \in Seq(MsgRecords) /\ topic[p] \in Seq(MsgRecords)
      BY <1>4
    <3>3. InLane(p, Append(queue[p], m), batch[p], topic[p])
      BY <1>6, <2>1, <2>3, <3>1, <3>2, LaneByPublish
    <3> QED
      BY <1>2, <2>3, <3>3
  <2>4. queue'[p] = queue[p] \/ (p = PartitionOf(i) /\ queue'[p] = Append(queue[p], m))
    BY <1>2, <1>4, <1>5
  <2> QED
    BY <2>2, <2>3, <2>4
<1> QED
  BY <1>7 DEF Ordered

LEMMA OrderByFormBatch ==
    ASSUME Answered, Ordered, NEW p \in TopicPartitions, FormBatch(p)
    PROVE  Ordered'
<1>1. batch[p] = <<>> /\ UNCHANGED topic
  BY DEF FormBatch
<1>2. /\ queue \in [TopicPartitions -> Seq(MsgRecords)] /\ batch \in [TopicPartitions -> Seq(MsgRecords)]
      /\ topic \in [TopicPartitions -> Seq(MsgRecords)] /\ BatchSize \in Nat
  BY Constants DEF Answered, Typed
<1>3. PICK s \in Seq(MsgRecords), t \in Seq(MsgRecords) : s = queue[p] /\ t = topic[p]
  BY <1>2
<1>4. PICK k \in 1..BatchSize :
          /\ k <= Len(s)
          /\ batch' = [batch EXCEPT ![p] = SubSeq(s, 1, k)]
          /\ queue' = [queue EXCEPT ![p] = SubSeq(s, k + 1, Len(s))]
  BY <1>2, <1>3 DEF FormBatch
<1>5. k \in 1..Len(s)
  BY <1>2, <1>4, LenProperties
<1>6. InLane(p, SubSeq(s, k + 1, Len(s)), SubSeq(s, 1, k), t)
  <2>1. InLane(p, s, <<>>, t)
    BY <1>1, <1>3 DEF Ordered
  <2> QED
    BY <1>5, <2>1, LaneByFormBatch
<1>7. ASSUME NEW x \in TopicPartitions
      PROVE  InLane(x, queue[x], batch[x], topic[x])'
  <2>1. CASE x = p
    <3>1. queue'[x] = SubSeq(s, k + 1, Len(s)) /\ batch'[x] = SubSeq(s, 1, k) /\ topic'[x] = t
      BY <1>1, <1>2, <1>3, <1>4, <2>1
    <3> QED
      BY <1>6, <2>1, <3>1
  <2>2. CASE x # p
    <3>1. queue'[x] = queue[x] /\ batch'[x] = batch[x] /\ topic'[x] = topic[x]
      BY <1>1, <1>2, <1>4, <2>2
    <3> QED
      BY <3>1 DEF Ordered
  <2> QED
    BY <2>1, <2>2
<1> QED
  BY <1>7 DEF Ordered

LEMMA OrderByTransmit ==
    ASSUME Answered, Ordered, NEW p \in TopicPartitions, Transmit(p)
    PROVE  Ordered'
<1>1. /\ queue \in [TopicPartitions -> Seq(MsgRecords)] /\ batch \in [TopicPartitions -> Seq(MsgRecords)]
      /\ topic \in [TopicPartitions -> Seq(MsgRecords)]
  BY DEF Answered, Typed
<1>2. PICK q \in Seq(MsgRecords), b \in Seq(MsgRecords), t \in Seq(MsgRecords) :
          q = queue[p] /\ b = batch[p] /\ t = topic[p]
  BY <1>1
<1>3. /\ topic' = topic \/ topic' = [topic EXCEPT ![p] = t \o b]
      /\ batch' = batch \/ batch' = [batch EXCEPT ![p] = <<>>]
      /\ UNCHANGED queue
  BY <1>2 DEF Transmit, Reaches, Leaves
<1>4. InLane(p, q, b, t)
  BY <1>2 DEF Ordered
<1>5. InLane(p, q, b, t \o b) /\ InLane(p, q, <<>>, t \o b) /\ InLane(p, q, <<>>, t)
  BY <1>4, LaneByTransmit
<1>6. ASSUME NEW x \in TopicPartitions
      PROVE  InLane(x, queue[x], batch[x], topic[x])'
  <2>1. CASE x = p
    <3>1. queue'[x] = q /\ batch'[x] \in {b, <<>>} /\ topic'[x] \in {t, t \o b}
      <4>1. topic'[x] \in {t, t \o b}
        BY <1>1, <1>2, <1>3, <2>1
      <4>2. batch'[x] \in {b, <<>>}
        BY <1>1, <1>2, <1>3, <2>1
      <4> QED
        BY <1>2, <1>3, <2>1, <4>1, <4>2
    <3> QED
      BY <1>4, <1>5, <2>1, <3>1
  <2>2. CASE x # p
    <3>1. queue'[x] = queue[x] /\ batch'[x] = batch[x] /\ topic'[x] = topic[x]
      <4>1. topic'[x] = topic[x]
        BY <1>1, <1>3, <2>2
      <4>2. batch'[x] = batch[x]
        BY <1>1, <1>3, <2>2
      <4> QED
        BY <1>3, <4>1, <4>2
    <3> QED
      BY <3>1 DEF Ordered
  <2> QED
    BY <2>1, <2>2
<1> QED
  BY <1>6 DEF Ordered

LEMMA OrderByCrash ==
    ASSUME Answered, Ordered, Crash
    PROVE  Ordered'
<1>1. /\ queue' = [p \in TopicPartitions |-> <<>>] /\ batch' = [p \in TopicPartitions |-> <<>>]
      /\ UNCHANGED topic
  BY DEF Crash
<1>2. Range(<<>>) = {} /\ Ascending(<<>>)
  BY DEF Range, Ascending
<1>3. ASSUME NEW p \in TopicPartitions
      PROVE  InLane(p, queue[p], batch[p], topic[p])'
  <2>1. InLane(p, queue[p], batch[p], topic[p])
    BY DEF Ordered
  <2>2. InLane(p, <<>>, <<>>, topic[p])
    BY <1>2, <2>1 DEF InLane
  <2> QED
    BY <1>1, <2>2
<1> QED
  BY <1>3 DEF Ordered

LEMMA OrderByNext ==
    ASSUME Answered, Ordered, [Next]_vars
    PROVE  Ordered'
<1>1. CASE UNCHANGED <<queue, batch, topic>>
  BY <1>1 DEF Ordered
<1>2. CASE Next
  <2>1. ASSUME NEW r \in Requests, NEW h \in 1..MaxHosts, NEW n \in 1..MaxSamples, SendSample(r, h, n)
        PROVE  UNCHANGED <<queue, batch, topic>>
    BY <2>1 DEF SendSample, Receive, kafka
  <2>2. ASSUME NEW r \in Requests, NEW overGRPC \in BOOLEAN, RunChecks(r, overGRPC)
        PROVE  UNCHANGED <<queue, batch, topic>>
    BY <2>2 DEF RunChecks, Receive, kafka
  <2>3. ASSUME NEW r \in Requests, GiveUp(r) \/ Insert(r) \/ Answer(r)
        PROVE  UNCHANGED <<queue, batch, topic>>
    BY <2>3 DEF GiveUp, Insert, Answer, kafka
  <2>4. ASSUME NEW r \in Requests, Publish(r)
        PROVE  Ordered'
    BY <2>4, OrderByPublish
  <2>5. ASSUME NEW p \in TopicPartitions, FormBatch(p) \/ Transmit(p)
        PROVE  Ordered'
    BY <2>5, OrderByFormBatch, OrderByTransmit
  <2>6. CASE Crash
    BY <2>6, OrderByCrash
  <2>7. CASE Restart
    BY <1>1, <2>7 DEF Restart, kafka
  <2> QED
    BY <1>1, <1>2, <2>1, <2>2, <2>3, <2>4, <2>5, <2>6, <2>7, StepLemma
<1>3. CASE UNCHANGED vars
  BY <1>1, <1>3 DEF vars, kafka
<1> QED
  BY <1>2, <1>3

LEMMA OrderInit ==
    ASSUME Init
    PROVE  Ordered
<1>1. Range(<<>>) = {} /\ Ascending(<<>>) /\ Len(<<>>) = 0
  BY DEF Range, Ascending
<1>2. \A p : InLane(p, <<>>, <<>>, <<>>)
  BY <1>1 DEF InLane
<1> QED
  BY <1>2 DEF Init, Ordered

\* The order of the lanes is the order per key.
LEMMA OrderedImplies ==
    ASSUME Answered, Ordered
    PROVE  OrderPerHost
<1> SUFFICES \A p, q \in TopicPartitions :
                \A j \in 1..Len(topic[p]), k \in 1..Len(topic[q]) :
                   /\ topic[p][j].item.table = topic[q][k].item.table
                   /\ topic[p][j].item.key = topic[q][k].item.key
                   => /\ p = q
                      /\ j < k /\ topic[p][j].no > topic[q][k].no =>
                           \E i \in 1..j : topic[p][i] = topic[q][k]
  BY Zenon DEF OrderPerHost
<1> TAKE p, q \in TopicPartitions
<1> TAKE j \in 1..Len(topic[p]), k \in 1..Len(topic[q])
<1> HAVE /\ topic[p][j].item.table = topic[q][k].item.table
         /\ topic[p][j].item.key = topic[q][k].item.key
<1>1. topic[p] \in Seq(MsgRecords) /\ topic[q] \in Seq(MsgRecords)
  BY DEF Answered, Typed
<1>2. topic[p][j] \in Range(topic[p]) /\ topic[q][k] \in Range(topic[q])
  BY <1>1, NumberLemma
<1>3. PartitionOf(topic[p][j].item) = p /\ PartitionOf(topic[q][k].item) = q
  BY <1>2 DEF Ordered, InLane
<1>4. p = q
  BY <1>3 DEF PartitionOf
<1> QED
  BY <1>4 DEF Ordered, InLane

\* PublishAgentMetric keys a message by its host: whatever is batched, sent
\* again or lost, the samples of a host are in one partition, each after all
\* that were published before it, apart from copies.
THEOREM OneOrderPerHost == Spec => []OrderPerHost
<1>1. Init => Answered /\ Ordered
  BY InitLemma, OrderInit
<1>2. Answered /\ Ordered /\ [Next]_vars => Answered' /\ Ordered'
  BY NextLemma, OrderByNext
<1>3. Answered /\ Ordered => OrderPerHost
  BY OrderedImplies
<1> QED
  BY <1>1, <1>2, <1>3, PTL DEF Spec

----------------------------------------------------------------------------
(* Copies.                                                                   *)

Places(s, i) == {k \in 1..Len(s) : s[k].item = i}
Count(s, i)  == Cardinality(Places(s, i))

\* The messages of an item, all of them in the partition of its key.
At(lane, i) == IF PartitionOf(i) \in TopicPartitions THEN Count(lane[PartitionOf(i)], i) ELSE 0

\* The requests that are still to write an item, and how often it was sent.
Writers(i) == {r \in Requests : \E w \in Range(req[r].todo) : w.item = i}
SentFor(i) == IF i \in ProbeItems THEN IF i.n <= rounds THEN 1 ELSE 0
              ELSE sends[<<i.key, i.n>>]

\* Writers, queued, in the batch, in the topic and stored: what is on its way
\* is there once for each time it was sent, and every lost acknowledgement can
\* double it again.
Balanced(w, q, b, t, s, n, l) ==
    /\ {w, q, b, t, s, n, l} \subseteq Nat
    /\ w + q + b <= n
    /\ s + t + w + q + b <= n * (1 + l)

Distinct(s) == \A j, k \in 1..Len(s) : s[j].item = s[k].item => j = k

Budget(i) ==
    /\ IsFiniteSet(Writers(i))
    /\ Balanced(Cardinality(Writers(i)), At(queue, i), At(batch, i), At(topic, i), rows[i],
                SentFor(i), lostAcks)

Budgeted ==
    /\ \A r \in Requests : Distinct(req[r].todo)
    /\ \A i \in Items : Budget(i)

\* Sequences and their parts.
LEMMA CountType ==
    ASSUME NEW s \in Seq(MsgRecords), NEW i
    PROVE  IsFiniteSet(Places(s, i)) /\ Count(s, i) \in Nat
<1>1. Len(s) \in Nat
  BY LenProperties
<1>2. IsFiniteSet(1..Len(s))
  BY <1>1, FS_Interval
<1>3. Places(s, i) \in SUBSET (1..Len(s))
  BY DEF Places
<1>4. IsFiniteSet(Places(s, i))
  BY <1>2, <1>3, FS_Subset
<1> QED
  BY <1>4, FS_CardinalityType DEF Count

LEMMA CountSmall ==
    ASSUME NEW i
    PROVE  /\ Count(<<>>, i) = 0
           /\ \A m : m.item = i => Count(<<m>>, i) = 1
           /\ \A m : m.item # i => Count(<<m>>, i) = 0
<1>1. Places(<<>>, i) = {}
  BY DEF Places
<1>2. ASSUME NEW m
      PROVE  Places(<<m>>, i) = {k \in {1} : m.item = i}
  BY DEF Places
<1>3. \A m : m.item = i => Places(<<m>>, i) = {1}
  <2>1. ASSUME NEW m, m.item = i
        PROVE  {k \in {1} : m.item = i} = {1}
    BY <2>1
  <2> QED
    BY <1>2, <2>1
<1>4. \A m : m.item # i => Places(<<m>>, i) = {}
  BY <1>2
<1>5. Cardinality({}) = 0 /\ Cardinality({1}) = 1
  BY FS_EmptySet, FS_Singleton
<1> QED
  BY <1>1, <1>3, <1>4, <1>5 DEF Count

LEMMA CountConcat ==
    ASSUME NEW s \in Seq(MsgRecords), NEW t \in Seq(MsgRecords), NEW i
    PROVE  Count(s \o t, i) = Count(s, i) + Count(t, i)
<1>1. PICK c : c = s \o t
  OBVIOUS
<1>2. /\ Len(c) = Len(s) + Len(t) /\ Len(s) \in Nat /\ Len(t) \in Nat
      /\ \A k \in 1..Len(s) + Len(t) : c[k] = IF k <= Len(s) THEN s[k] ELSE t[k - Len(s)]
  BY <1>1, ConcatProperties, LenProperties
<1>3. PICK S, T, U : S = Places(s, i) /\ T = Places(t, i) /\ U = {k + Len(s) : k \in T}
  OBVIOUS
<1>4. IsFiniteSet(S) /\ IsFiniteSet(T) /\ S \subseteq 1..Len(s) /\ T \subseteq 1..Len(t)
  BY <1>3, CountType DEF Places
<1>5. Places(c, i) = S \cup U
  <2>1. ASSUME NEW k \in Places(c, i)
        PROVE  k \in S \cup U
    <3>1. k \in 1..Len(s) + Len(t) /\ c[k].item = i
      BY <1>2 DEF Places
    <3>2. CASE k <= Len(s)
      <4>1. k \in 1..Len(s) /\ c[k] = s[k]
        BY <1>2, <3>1, <3>2
      <4> QED
        BY <1>3, <3>1, <4>1 DEF Places
    <3>3. CASE ~(k <= Len(s))
      <4>1. k - Len(s) \in 1..Len(t) /\ c[k] = t[k - Len(s)] /\ k = (k - Len(s)) + Len(s)
        BY <1>2, <3>1, <3>3
      <4>2. k - Len(s) \in T
        BY <1>3, <3>1, <4>1 DEF Places
      <4> QED
        BY <1>3, <4>1, <4>2
    <3> QED
      BY <3>2, <3>3
  <2>2. ASSUME NEW k \in S
        PROVE  k \in Places(c, i)
    <3>1. k \in 1..Len(s) /\ s[k].item = i
      BY <1>3 DEF Places
    <3>2. k \in 1..Len(s) + Len(t) /\ k <= Len(s) /\ k \in 1..Len(c)
      BY <1>2, <3>1
    <3> QED
      BY <1>2, <3>1, <3>2 DEF Places
  <2>3. ASSUME NEW k \in T
        PROVE  k + Len(s) \in Places(c, i)
    <3>1. k \in 1..Len(t) /\ t[k].item = i
      BY <1>3 DEF Places
    <3>2. /\ k + Len(s) \in 1..Len(s) + Len(t) /\ ~(k + Len(s) <= Len(s))
          /\ k + Len(s) \in 1..Len(c) /\ (k + Len(s)) - Len(s) = k
      BY <1>2, <3>1
    <3>3. c[k + Len(s)] = t[k]
      BY <1>2, <3>2
    <3> QED
      BY <3>1, <3>2, <3>3 DEF Places
  <2> QED
    BY <1>3, <2>1, <2>2, <2>3
<1>6. IsFiniteSet(U) /\ Cardinality(U) = Cardinality(T)
  <2>1. PICK f : f = [k \in T |-> k + Len(s)]
    OBVIOUS
  <2>2. \A j, k \in T : j + Len(s) = k + Len(s) => j = k
    BY <1>2, <1>4
  <2>3. f \in Bijection(T, U)
    <3>1. f \in [T -> U] /\ \A j, k \in T : f[j] = f[k] => j = k
      BY <1>3, <2>1, <2>2
    <3>2. \A u \in U : \E k \in T : f[k] = u
      BY <1>3, <2>1
    <3> QED
      BY <3>1, <3>2 DEF Bijection, Injection, Surjection, IsInjective
  <2>4. ExistsBijection(T, U)
    BY <2>3 DEF ExistsBijection
  <2> QED
    BY <1>4, <2>4, FS_Bijection
<1>7. S \cap U = {}
  BY <1>2, <1>3, <1>4
<1>8. Cardinality(S \cup U) = Cardinality(S) + Cardinality(U)
  <2>1. Cardinality(S \cup U) = Cardinality(S) + Cardinality(U) - Cardinality(S \cap U)
    BY <1>4, <1>6, FS_Union
  <2>2. Cardinality(S \cap U) = 0
    BY <1>7, FS_EmptySet
  <2>3. Cardinality(S) \in Nat /\ Cardinality(U) \in Nat
    BY <1>4, <1>6, FS_CardinalityType
  <2> QED
    BY <2>1, <2>2, <2>3
<1> QED
  BY <1>1, <1>3, <1>5, <1>6, <1>8 DEF Count

LEMMA CountAppend ==
    ASSUME NEW s \in Seq(MsgRecords), NEW m \in MsgRecords, NEW i
    PROVE  /\ m.item = i => Count(Append(s, m), i) = Count(s, i) + 1
           /\ m.item # i => Count(Append(s, m), i) = Count(s, i)
<1>1. PICK u \in Seq(MsgRecords) : u = <<m>>
  <2>1. <<m>> \in Seq(MsgRecords)
    OBVIOUS
  <2> QED
    BY <2>1
<1>2. Append(s, m) = s \o u
  BY <1>1, AppendIsConcat
<1>3. Count(s \o u, i) = Count(s, i) + Count(u, i)
  BY CountConcat
<1>4. Count(s, i) \in Nat
  BY CountType
<1>5. (m.item = i => Count(u, i) = 1) /\ (m.item # i => Count(u, i) = 0)
  BY <1>1, CountSmall
<1> QED
  BY <1>2, <1>3, <1>4, <1>5

----------------------------------------------------------------------------
(* The arithmetic of a step. *)

LEMMA BalancedSent ==
    ASSUME NEW w, NEW q, NEW b, NEW t, NEW s, NEW n, NEW l, Balanced(w, q, b, t, s, n, l),
           NEW v \in Nat, v <= w + 1
    PROVE  Balanced(v, q, b, t, s, n + 1, l)
<1>1. /\ w \in Nat /\ q \in Nat /\ b \in Nat /\ t \in Nat /\ s \in Nat /\ n \in Nat /\ l \in Nat
      /\ w + q + b <= n /\ s + t + w + q + b <= n * (1 + l)
  BY DEF Balanced
<1>2. (n + 1) * (1 + l) = n * (1 + l) + 1 + l /\ n * (1 + l) \in Nat
  BY <1>1
<1>3. s + t + v + q + b <= (n + 1) * (1 + l)
  BY <1>1, <1>2
<1>4. v + q + b <= n + 1 /\ n + 1 \in Nat
  BY <1>1
<1> QED
  BY <1>1, <1>3, <1>4 DEF Balanced

\* Something moves on, is stored or is given up.
LEMMA BalancedMove ==
    ASSUME NEW w, NEW q, NEW b, NEW t, NEW s, NEW n, NEW l, Balanced(w, q, b, t, s, n, l),
           NEW w1 \in Nat, NEW q1 \in Nat, NEW b1 \in Nat, NEW t1 \in Nat, NEW s1 \in Nat,
           w1 + q1 + b1 <= w + q + b,
           s1 + t1 + w1 + q1 + b1 <= s + t + w + q + b
    PROVE  Balanced(w1, q1, b1, t1, s1, n, l)
<1>1. /\ w \in Nat /\ q \in Nat /\ b \in Nat /\ t \in Nat /\ s \in Nat /\ n \in Nat /\ l \in Nat
      /\ w + q + b <= n /\ s + t + w + q + b <= n * (1 + l)
  BY DEF Balanced
<1>2. n * (1 + l) \in Nat
  BY <1>1
<1>3. s1 + t1 + w1 + q1 + b1 <= n * (1 + l)
  BY <1>1, <1>2
<1>4. w1 + q1 + b1 <= n
  BY <1>1
<1> QED
  BY <1>1, <1>3, <1>4 DEF Balanced

\* The broker has the batch, and the producer does not know.
LEMMA BalancedAgain ==
    ASSUME NEW w, NEW q, NEW b, NEW t, NEW s, NEW n, NEW l, Balanced(w, q, b, t, s, n, l)
    PROVE  Balanced(w, q, b, t + b, s, n, l + 1)
<1>1. /\ w \in Nat /\ q \in Nat /\ b \in Nat /\ t \in Nat /\ s \in Nat /\ n \in Nat /\ l \in Nat
      /\ w + q + b <= n /\ s + t + w + q + b <= n * (1 + l)
  BY DEF Balanced
<1>2. n * (1 + (l + 1)) = n * (1 + l) + n /\ n * (1 + l) \in Nat
  BY <1>1
<1>3. s + (t + b) + w + q + b <= n * (1 + (l + 1))
  BY <1>1, <1>2
<1>4. t + b \in Nat /\ l + 1 \in Nat
  BY <1>1
<1> QED
  BY <1>1, <1>3, <1>4 DEF Balanced

----------------------------------------------------------------------------
(* The budget of an item. *)

LEMMA AtType ==
    ASSUME NEW lane \in [TopicPartitions -> Seq(MsgRecords)], NEW i
    PROVE  At(lane, i) \in Nat
<1>1. CASE PartitionOf(i) \in TopicPartitions
  <2>1. lane[PartitionOf(i)] \in Seq(MsgRecords)
    BY <1>1
  <2>2. Count(lane[PartitionOf(i)], i) \in Nat
    BY <2>1, CountType
  <2> QED
    BY <1>1, <2>2 DEF At
<1>2. CASE PartitionOf(i) \notin TopicPartitions
  BY <1>2 DEF At
<1> QED
  BY <1>1, <1>2

\* Nobody sends the item, and no more of it is written or kept.
LEMMA BudgetMove ==
    ASSUME NEW i \in Items, Budget(i), Answered', UNCHANGED <<sends, rounds, lostAcks>>,
           IsFiniteSet(Writers(i)'),
           Cardinality(Writers(i)') + At(queue', i) + At(batch', i)
               <= Cardinality(Writers(i)) + At(queue, i) + At(batch, i),
           rows'[i] + At(topic', i) + Cardinality(Writers(i)') + At(queue', i) + At(batch', i)
               <= rows[i] + At(topic, i) + Cardinality(Writers(i)) + At(queue, i) + At(batch, i)
    PROVE  Budget(i)'
<1>1. /\ rows'[i] \in Nat /\ At(queue', i) \in Nat /\ At(batch', i) \in Nat /\ At(topic', i) \in Nat
  BY AtType DEF Answered, Typed
<1>2. Cardinality(Writers(i)') \in Nat
  BY FS_CardinalityType
<1>3. PICK n, l, w, w1, q, q1, b, b1, t, t1, s, s1 :
          /\ n = SentFor(i) /\ l = lostAcks
          /\ w = Cardinality(Writers(i)) /\ w1 = Cardinality(Writers(i)')
          /\ q = At(queue, i) /\ q1 = At(queue', i)
          /\ b = At(batch, i) /\ b1 = At(batch', i)
          /\ t = At(topic, i) /\ t1 = At(topic', i)
          /\ s = rows[i] /\ s1 = rows'[i]
  OBVIOUS
<1>4. Balanced(w, q, b, t, s, n, l)
  BY <1>3 DEF Budget
<1>5. Balanced(w1, q1, b1, t1, s1, n, l)
  BY <1>1, <1>2, <1>3, <1>4, BalancedMove
<1>6. SentFor(i)' = n /\ lostAcks' = l
  BY <1>3 DEF SentFor
<1> QED
  BY <1>3, <1>5, <1>6 DEF Budget, At

\* What a subset of the writers amounts to.
LEMMA FewerWriters ==
    ASSUME NEW S, IsFiniteSet(S), NEW T, T \subseteq S
    PROVE  /\ IsFiniteSet(T) /\ Cardinality(T) \in Nat /\ Cardinality(S) \in Nat
           /\ Cardinality(T) <= Cardinality(S)
           /\ \A x \in S : x \notin T => Cardinality(T) + 1 <= Cardinality(S)
<1>1. IsFiniteSet(T) /\ Cardinality(T) <= Cardinality(S)
  BY FS_Subset
<1>2. Cardinality(T) \in Nat /\ Cardinality(S) \in Nat
  BY <1>1, FS_CardinalityType
<1>3. ASSUME NEW x \in S, x \notin T
      PROVE  Cardinality(T) + 1 <= Cardinality(S)
  <2>1. IsFiniteSet(S \ {x}) /\ Cardinality(S \ {x}) = Cardinality(S) - 1
    BY FS_RemoveElement
  <2>2. T \in SUBSET (S \ {x})
    BY <1>3
  <2>3. Cardinality(T) <= Cardinality(S \ {x})
    BY <2>1, <2>2, FS_Subset
  <2> QED
    BY <1>2, <2>1, <2>3
<1> QED
  BY <1>1, <1>2, <1>3

\* A request does its first write, and maybe no other.
LEMMA TodoShrinks ==
    ASSUME Typed, \A o \in Requests : Distinct(req[o].todo),
           NEW r \in Requests, req[r].todo # <<>>, Continue(r) \/ Refuse(r),
           NEW i, i = Head(req[r].todo).item
    PROVE  /\ \A o \in Requests : Distinct(req'[o].todo)
           /\ \A j : Writers(j)' \subseteq Writers(j)
           /\ r \in Writers(i) /\ r \notin Writers(i)'
<1>1. req \in [Requests -> ReqRecords]
  BY DEF Typed
<1>2. PICK q \in ReqRecords : q = req[r]
  BY <1>1
<1>3. i = Head(q.todo).item
  BY <1>2
<1>4. q.todo \in Seq(Writes) /\ q.todo # <<>>
  BY <1>2 DEF ReqRecords
<1>5. /\ Head(q.todo) \in Range(q.todo) /\ Tail(q.todo) \in Seq(Writes)
      /\ Range(q.todo) = Range(Tail(q.todo)) \cup {Head(q.todo)}
  BY <1>4, TailRange
<1>6. PICK s : s = req'[r].todo
  OBVIOUS
<1>7. s = Tail(q.todo) \/ s = <<>>
  <2>1. CASE Continue(r)
    BY <1>1, <1>2, <1>6, <2>1 DEF Continue
  <2>2. CASE Refuse(r)
    BY <1>1, <1>6, <2>2 DEF Refuse, Idle
  <2> QED
    BY <2>1, <2>2
<1>8. \A o \in Requests : o # r => req'[o] = req[o]
  BY <1>1 DEF Continue, Refuse
<1>9. /\ Len(Tail(q.todo)) = Len(q.todo) - 1 /\ Len(q.todo) \in Nat \ {0}
      /\ \A k \in 1..Len(Tail(q.todo)) : Tail(q.todo)[k] = q.todo[k + 1]
      /\ Head(q.todo) = q.todo[1]
  BY <1>4, HeadTailProperties, EmptySeq
<1>10. Distinct(q.todo)
  BY <1>2
<1>11. \A k \in 1..Len(Tail(q.todo)) : k + 1 \in 1..Len(q.todo) /\ k + 1 # 1 /\ 1 \in 1..Len(q.todo)
  BY <1>9
<1>12. Distinct(Tail(q.todo)) /\ Distinct(<<>>)
  <2>1. ASSUME NEW j \in 1..Len(Tail(q.todo)), NEW k \in 1..Len(Tail(q.todo)),
               Tail(q.todo)[j].item = Tail(q.todo)[k].item
        PROVE  j = k
    <3>1. j + 1 = k + 1
      BY <1>9, <1>10, <1>11, <2>1 DEF Distinct
    <3>2. j \in Int /\ k \in Int
      OBVIOUS
    <3> QED
      BY <3>1, <3>2
  <2>2. Distinct(<<>>)
    BY DEF Distinct
  <2> QED
    BY <2>1, <2>2 DEF Distinct
<1>13. Range(<<>>) = {}
  BY DEF Range
<1>14. \A o \in Requests : Distinct(req'[o].todo)
  BY <1>6, <1>7, <1>8, <1>12
<1>15. \A j : Writers(j)' \subseteq Writers(j)
  <2>1. Range(s) \subseteq Range(q.todo)
    BY <1>5, <1>7, <1>13
  <2> QED
    BY <1>2, <1>6, <1>8, <2>1 DEF Writers
<1>16. r \in Writers(i)
  BY <1>2, <1>3, <1>5 DEF Writers
<1>17. \A w \in Range(s) : w.item # i
  <2>1. \A w \in Range(Tail(q.todo)) : w.item # i
    <3>1. Range(Tail(q.todo)) = {Tail(q.todo)[k] : k \in 1..Len(Tail(q.todo))}
      BY <1>5, RangeEquality
    <3>2. ASSUME NEW k \in 1..Len(Tail(q.todo))
          PROVE  Tail(q.todo)[k].item # i
      BY <1>3, <1>9, <1>10, <1>11 DEF Distinct
    <3> QED
      BY <3>1, <3>2
  <2> QED
    BY <1>7, <1>13, <2>1
<1>18. r \notin Writers(i)'
  BY <1>6, <1>17 DEF Writers
<1> QED
  BY <1>14, <1>15, <1>16, <1>18

\* A request gets writes, all of them of the items I.
LEMMA TodoAppears ==
    ASSUME Typed, \A o \in Requests : Distinct(req[o].todo),
           NEW r \in Requests, NEW client, NEW writes \in Seq(Writes), Distinct(writes),
           Receive(r, client, writes)
    PROVE  /\ \A o \in Requests : Distinct(req'[o].todo)
           /\ \A j : Writers(j)' \subseteq Writers(j) \cup {r}
           /\ \A j : (\A w \in Range(writes) : w.item # j) => Writers(j)' \subseteq Writers(j)
<1>1. req \in [Requests -> ReqRecords]
  BY DEF Typed
<1>2. req'[r].todo = writes /\ \A o \in Requests : o # r => req'[o] = req[o]
  BY <1>1 DEF Receive
<1> QED
  BY <1>2 DEF Writers

----------------------------------------------------------------------------
(* The steps that send, write, queue and transmit. *)

\* What is sent once more may be on its way once more.
LEMMA BudgetSent ==
    ASSUME NEW i \in Items, Budget(i), NEW r, Writers(i)' \subseteq Writers(i) \cup {r},
           UNCHANGED <<queue, batch, topic, rows, lostAcks>>, SentFor(i)' = SentFor(i) + 1
    PROVE  Budget(i)'
<1>1. PICK W, V : W = Writers(i) /\ V = Writers(i)'
  OBVIOUS
<1>2. IsFiniteSet(W) /\ V \subseteq W \cup {r}
  BY <1>1 DEF Budget
<1>3. IsFiniteSet(W \cup {r}) /\ Cardinality(W \cup {r}) <= Cardinality(W) + 1
  <2>1. Cardinality(W) \in Nat
    BY <1>2, FS_CardinalityType
  <2>2. /\ IsFiniteSet(W \cup {r})
        /\ Cardinality(W \cup {r}) = IF r \in W THEN Cardinality(W) ELSE Cardinality(W) + 1
    BY <1>2, FS_AddElement
  <2> QED
    BY <2>1, <2>2
<1>4. IsFiniteSet(V) /\ Cardinality(V) \in Nat /\ Cardinality(V) <= Cardinality(W) + 1
  <2>1. /\ IsFiniteSet(V) /\ Cardinality(V) \in Nat
        /\ Cardinality(V) <= Cardinality(W \cup {r}) /\ Cardinality(W \cup {r}) \in Nat
    BY <1>2, <1>3, FewerWriters
  <2>2. Cardinality(W) \in Nat
    BY <1>2, FS_CardinalityType
  <2> QED
    BY <1>3, <2>1, <2>2
<1>5. PICK n, l, q, b, t, s :
          /\ n = SentFor(i) /\ l = lostAcks /\ q = At(queue, i) /\ b = At(batch, i)
          /\ t = At(topic, i) /\ s = rows[i]
  OBVIOUS
<1>6. Balanced(Cardinality(W), q, b, t, s, n, l)
  BY <1>1, <1>5 DEF Budget
<1>7. Balanced(Cardinality(V), q, b, t, s, n + 1, l)
  BY <1>4, <1>6, BalancedSent
<1>8. SentFor(i)' = n + 1 /\ lostAcks' = l /\ At(queue, i)' = q /\ At(batch, i)' = b
      /\ At(topic, i)' = t /\ rows'[i] = s
  BY <1>5 DEF At
<1> QED
  BY <1>1, <1>4, <1>7, <1>8 DEF Budget

\* Nothing of the item changes but its writers.
LEMMA BudgetStays ==
    ASSUME NEW i \in Items, Budget(i), Writers(i)' \subseteq Writers(i),
           UNCHANGED <<queue, batch, topic, rows, lostAcks>>, SentFor(i)' = SentFor(i)
    PROVE  Budget(i)'
<1>1. PICK W, V : W = Writers(i) /\ V = Writers(i)'
  OBVIOUS
<1>2. IsFiniteSet(W) /\ V \subseteq W
  BY <1>1 DEF Budget
<1>3. IsFiniteSet(V) /\ Cardinality(V) \in Nat /\ Cardinality(V) <= Cardinality(W)
      /\ Cardinality(W) \in Nat
  BY <1>2, FewerWriters
<1>4. PICK n, l, q, b, t, s :
          /\ n = SentFor(i) /\ l = lostAcks /\ q = At(queue, i) /\ b = At(batch, i)
          /\ t = At(topic, i) /\ s = rows[i]
  OBVIOUS
<1>5. Balanced(Cardinality(W), q, b, t, s, n, l)
  BY <1>1, <1>4 DEF Budget
<1>6. Balanced(Cardinality(V), q, b, t, s, n, l)
  <2>1. q \in Nat /\ b \in Nat /\ t \in Nat /\ s \in Nat
    BY <1>5 DEF Balanced
  <2>2. /\ Cardinality(V) + q + b <= Cardinality(W) + q + b
        /\ s + t + Cardinality(V) + q + b <= s + t + Cardinality(W) + q + b
    BY <1>3, <2>1
  <2> QED
    BY <1>3, <1>5, <2>1, <2>2, BalancedMove
<1>7. SentFor(i)' = n /\ lostAcks' = l /\ At(queue, i)' = q /\ At(batch, i)' = b
      /\ At(topic, i)' = t /\ rows'[i] = s
  BY <1>4 DEF At
<1> QED
  BY <1>1, <1>3, <1>6, <1>7 DEF Budget

LEMMA BudgetBySend ==
    ASSUME Answered, Budgeted, NEW r \in Requests, NEW h \in 1..MaxHosts, NEW n \in 1..MaxSamples,
           SendSample(r, h, n)
    PROVE  Budgeted'
<1>1. /\ enabled \in BOOLEAN /\ sends \in [Samples -> Nat] /\ Typed
      /\ Receive(r, h, AgentWrites(h, n)) /\ rounds' = rounds
      /\ sends' = [sends EXCEPT ![<<h, n>>] = @ + 1]
      /\ UNCHANGED <<queue, batch, topic, rows, lostAcks>>
  BY DEF Answered, Typed, SendSample, Receive, kafka
<1>2. PICK ws \in Seq(Writes) : ws = AgentWrites(h, n)
  BY <1>1, AgentWritesLemma
<1>3. \A w \in Range(ws) : w.item.table # "probe" /\ w.item.key = h /\ w.item.n = n
  <2>1. /\ enabled => Range(ws) = {Publishes(Item("agent", h, n))}
        /\ ~enabled => Range(ws) =
              {Inserts(Item("agent", h, n)), Inserts(Item("disk", h, n)), Inserts(Item("net", h, n))}
    BY <1>1, <1>2, AgentWritesLemma
  <2> QED
    BY <1>1, <2>1 DEF Publishes, Inserts, Item
<1>4. Distinct(ws)
  <2>1. CASE enabled
    <3>1. Len(ws) = 1
      BY <1>2, <2>1 DEF AgentWrites
    <3> QED
      BY <3>1 DEF Distinct
  <2>2. CASE ~enabled
    <3>1. PICK a, d, e : /\ a = Inserts(Item("agent", h, n)) /\ d = Inserts(Item("disk", h, n))
                         /\ e = Inserts(Item("net", h, n))
      OBVIOUS
    <3>2. ws = <<a, d, e>>
      BY <1>2, <2>2, <3>1 DEF AgentWrites
    <3>3. a.item.table = "agent" /\ d.item.table = "disk" /\ e.item.table = "net"
      BY <3>1 DEF Inserts, Item
    <3>4. a.item # d.item /\ a.item # e.item /\ d.item # e.item
      BY <3>3
    <3>5. Len(ws) = 3 /\ ws[1] = a /\ ws[2] = d /\ ws[3] = e /\ 1..3 = {1, 2, 3}
      BY <3>2
    <3>6. ASSUME NEW j \in {1, 2, 3}, NEW k \in {1, 2, 3}, ws[j].item = ws[k].item
          PROVE  j = k
      BY <3>4, <3>5, <3>6
    <3> QED
      BY <3>5, <3>6 DEF Distinct
  <2> QED
    BY <2>1, <2>2
<1>5. /\ \A o \in Requests : Distinct(req'[o].todo)
      /\ \A j : Writers(j)' \subseteq Writers(j) \cup {r}
      /\ \A j : (\A w \in Range(ws) : w.item # j) => Writers(j)' \subseteq Writers(j)
  BY <1>1, <1>2, <1>4, TodoAppears DEF Budgeted
<1>6. ASSUME NEW i \in Items
      PROVE  Budget(i)'
  <2>1. Budget(i) /\ (i \in ProbeItems <=> i.table = "probe")
    <3>1. i \in ProbeItems <=> i.table = "probe"
      BY ItemLemma DEF ProbeItems, Items, Item
    <3> QED
      BY <3>1 DEF Budgeted
  <2>2. CASE i.table # "probe" /\ i.key = h /\ i.n = n
    <3>1. SentFor(i) = sends[<<h, n>>] /\ SentFor(i)' = sends'[<<h, n>>]
      BY <2>1, <2>2 DEF SentFor
    <3>2. <<h, n>> \in Samples
      BY DEF Samples
    <3>3. SentFor(i)' = SentFor(i) + 1
      BY <1>1, <3>1, <3>2
    <3> QED
      BY <1>1, <1>5, <2>1, <3>3, BudgetSent
  <2>3. CASE i.table = "probe"
    <3>1. SentFor(i)' = SentFor(i)
      BY <1>1, <2>1, <2>3 DEF SentFor
    <3>2. \A w \in Range(ws) : w.item # i
      BY <1>3, <2>3
    <3> QED
      BY <1>1, <1>5, <2>1, <3>1, <3>2, BudgetStays
  <2>4. CASE i.table # "probe" /\ ~(i.key = h /\ i.n = n)
    <3>1. <<i.key, i.n>> # <<h, n>>
      BY <2>4
    <3>2. i \in SampleItems
      BY <2>4, ItemLemma
    <3>3. <<i.key, i.n>> \in Samples
      <4>1. PICK s \in Samples : i.key = s[1] /\ i.n = s[2]
        BY <3>2, ItemLemma
      <4> QED
        BY <4>1 DEF Samples
    <3>4. sends'[<<i.key, i.n>>] = sends[<<i.key, i.n>>]
      BY <1>1, <3>1, <3>3
    <3>5. SentFor(i)' = SentFor(i)
      BY <2>1, <2>4, <3>4 DEF SentFor
    <3>6. \A w \in Range(ws) : w.item # i
      BY <1>3, <2>4
    <3> QED
      BY <1>1, <1>5, <2>1, <3>5, <3>6, BudgetStays
  <2> QED
    BY <2>2, <2>3, <2>4
<1> QED
  BY <1>5, <1>6 DEF Budgeted

LEMMA BudgetByRound ==
    ASSUME Answered, Budgeted, NEW r \in Requests, NEW overGRPC \in BOOLEAN, RunChecks(r, overGRPC)
    PROVE  Budgeted'
<1>1. /\ enabled \in BOOLEAN /\ Typed /\ rounds \in Nat
      /\ rounds' = rounds + 1 /\ sends' = sends /\ rounds < MaxRounds
      /\ UNCHANGED <<queue, batch, topic, rows, lostAcks>>
  BY Constants DEF Answered, Typed, RunChecks, Receive, kafka
<1>2. PICK n \in 1..MaxRounds : n = rounds + 1
  BY <1>1, Constants
<1>3. PICK ws : ws = IF overGRPC THEN IngestProbe(n) ELSE ProbeWrites(n)
  OBVIOUS
<1>4. /\ ws \in Seq(Writes) /\ Len(ws) = MaxUrls
      /\ \A u \in 1..MaxUrls : ws[u].item = Item("probe", u, n)
      /\ \A w \in Range(ws) : \E u \in 1..MaxUrls : w = ws[u]
  <2>1. enabled \in BOOLEAN
    BY <1>1
  <2>2. /\ ws \in Seq(Writes) /\ Len(ws) = MaxUrls
        /\ \A u \in 1..MaxUrls : ws[u].item = Item("probe", u, n)
        /\ \A w \in Range(ws) : \E u \in 1..MaxUrls : w = ws[u]
        /\ ~enabled => \A w \in Range(ws) : w.via = "insert"
    BY <1>3, <2>1, ProbeWritesLemma, SMTT(20)
  <2> QED
    BY ONLY <2>2, Zenon
<1>5. Receive(r, 0, ws)
  BY <1>2, <1>3 DEF RunChecks
<1>6. \A u, v : Item("probe", u, n) = Item("probe", v, n) => u = v
  BY DEF Item
<1>7. Distinct(ws)
  BY <1>4, <1>6 DEF Distinct
<1>8. /\ \A o \in Requests : Distinct(req'[o].todo)
      /\ \A j : Writers(j)' \subseteq Writers(j) \cup {r}
      /\ \A j : (\A w \in Range(ws) : w.item # j) => Writers(j)' \subseteq Writers(j)
  BY <1>1, <1>4, <1>5, <1>7, TodoAppears DEF Budgeted
<1>9. \A w \in Range(ws) : w.item.table = "probe" /\ w.item.n = n
  <2>1. \A u \in 1..MaxUrls : Item("probe", u, n).table = "probe" /\ Item("probe", u, n).n = n
    BY DEF Item
  <2> QED
    BY <1>4, <2>1
<1>10. ASSUME NEW i \in Items
       PROVE  Budget(i)'
  <2>1. Budget(i) /\ (i \in ProbeItems <=> i.table = "probe") /\ (i \in ProbeItems => i.n \in Nat)
    <3>1. i \in ProbeItems <=> i.table = "probe"
      BY ItemLemma DEF ProbeItems, Items, Item
    <3>2. i \in ProbeItems => i.n \in 1..MaxRounds
      BY DEF ProbeItems, Item
    <3> QED
      BY <3>1, <3>2 DEF Budgeted
  <2>2. CASE i \in ProbeItems /\ i.n = n
    <3>1. SentFor(i) = 0 /\ SentFor(i)' = 1
      BY <1>1, <1>2, <2>2 DEF SentFor
    <3>2. SentFor(i)' = SentFor(i) + 1
      BY <3>1
    <3>3. Writers(i)' \subseteq Writers(i) \cup {r}
      BY <1>8
    <3> QED
      BY <1>1, <2>1, <3>2, <3>3, BudgetSent
  <2>3. CASE ~(i \in ProbeItems /\ i.n = n)
    <3>1. SentFor(i)' = SentFor(i)
      BY <1>1, <1>2, <2>1, <2>3 DEF SentFor
    <3>2. \A w \in Range(ws) : w.item # i
      BY <1>9, <2>1, <2>3
    <3> QED
      BY <1>1, <1>8, <2>1, <3>1, <3>2, BudgetStays
  <2> QED
    BY <2>2, <2>3
<1> QED
  BY <1>8, <1>10 DEF Budgeted

\* The numbers of an item before and after a step.
LEMMA BudgetNumbers ==
    ASSUME Answered, Answered', NEW i \in Items, Budget(i)
    PROVE  /\ rows[i] \in Nat /\ At(queue, i) \in Nat /\ At(batch, i) \in Nat
           /\ At(topic, i) \in Nat /\ Cardinality(Writers(i)) \in Nat
           /\ rows'[i] \in Nat /\ At(queue', i) \in Nat /\ At(batch', i) \in Nat
           /\ At(topic', i) \in Nat
<1>1. Cardinality(Writers(i)) \in Nat
  BY FS_CardinalityType DEF Budget
<1>2. At(queue, i) \in Nat /\ At(batch, i) \in Nat /\ At(topic, i) \in Nat
  BY AtType DEF Answered, Typed
<1>3. At(queue', i) \in Nat /\ At(batch', i) \in Nat /\ At(topic', i) \in Nat
  BY AtType DEF Answered, Typed
<1>4. rows[i] \in Nat /\ rows'[i] \in Nat
  BY DEF Answered, Typed
<1> QED
  BY <1>1, <1>2, <1>3, <1>4

LEMMA BudgetByInsert ==
    ASSUME Answered, Answered', Budgeted, NEW r \in Requests, Insert(r)
    PROVE  Budgeted'
<1>1. PICK i : i = Head(req[r].todo).item
  OBVIOUS
<1>2. /\ req[r].todo # <<>> /\ (Continue(r) \/ Refuse(r))
      /\ UNCHANGED rows \/ Stores(i)
      /\ UNCHANGED <<queue, batch, topic, sends, rounds, lostAcks>>
  BY <1>1 DEF Insert, NextWrite, kafka, clients
<1>3. Typed /\ rows \in [Items -> Nat]
  BY DEF Answered, Typed
<1>4. /\ \A o \in Requests : Distinct(req'[o].todo)
      /\ \A j : Writers(j)' \subseteq Writers(j)
      /\ r \in Writers(i) /\ r \notin Writers(i)'
  BY <1>1, <1>2, <1>3, TodoShrinks DEF Budgeted
<1>5. ASSUME NEW j \in Items
      PROVE  Budget(j)'
  <2>1. Budget(j)
    BY DEF Budgeted
  <2>2. PICK W, V : W = Writers(j) /\ V = Writers(j)'
    OBVIOUS
  <2>3. /\ IsFiniteSet(V) /\ Cardinality(V) \in Nat /\ Cardinality(W) \in Nat
        /\ Cardinality(V) <= Cardinality(W)
        /\ \A x \in W : x \notin V => Cardinality(V) + 1 <= Cardinality(W)
    <3>1. IsFiniteSet(W) /\ V \subseteq W
      BY <1>4, <2>1, <2>2 DEF Budget
    <3> QED
      BY <3>1, FewerWriters
  <2>4. rows'[j] + Cardinality(V) <= rows[j] + Cardinality(W)
    <3>1. rows[j] \in Nat
      BY <1>3
    <3>2. CASE rows'[j] = rows[j]
      BY <2>3, <3>1, <3>2
    <3>3. CASE j = i /\ rows'[j] = rows[j] + 1
      <4>1. Cardinality(V) + 1 <= Cardinality(W)
        BY <1>4, <2>2, <2>3, <3>3
      <4> QED
        BY <2>3, <3>1, <3>3, <4>1
    <3> QED
      BY <1>2, <1>3, <3>2, <3>3 DEF Stores
  <2>5. PICK q, b, t, s, s1 :
            q = At(queue, j) /\ b = At(batch, j) /\ t = At(topic, j) /\ s = rows[j] /\ s1 = rows'[j]
    OBVIOUS
  <2>6. At(queue', j) = q /\ At(batch', j) = b /\ At(topic', j) = t
    BY <1>2, <2>5 DEF At
  <2>7. q \in Nat /\ b \in Nat /\ t \in Nat /\ s \in Nat /\ s1 \in Nat
    BY <2>1, <2>5, BudgetNumbers
  <2>8. /\ Cardinality(V) + q + b <= Cardinality(W) + q + b
        /\ s1 + t + Cardinality(V) + q + b <= s + t + Cardinality(W) + q + b
    <3>1. s1 + Cardinality(V) <= s + Cardinality(W)
      BY <2>4, <2>5
    <3> QED
      BY <2>3, <2>7, <3>1
  <2> QED
    BY <1>2, <2>1, <2>2, <2>3, <2>5, <2>6, <2>8, BudgetMove
<1> QED
  BY <1>4, <1>5 DEF Budgeted

LEMMA BudgetByPublish ==
    ASSUME Answered, Answered', Budgeted, NEW r \in Requests, Publish(r)
    PROVE  Budgeted'
<1>1. PICK i : i = Head(req[r].todo).item
  OBVIOUS
<1>2. /\ req[r].todo # <<>> /\ (Continue(r) \/ Refuse(r))
      /\ \/ queue' = [queue EXCEPT ![PartitionOf(i)] = Append(@, [item |-> i, no |-> published + 1])]
         \/ UNCHANGED queue
      /\ UNCHANGED <<rows, batch, topic, sends, rounds, lostAcks>>
  BY <1>1 DEF Publish, NextWrite, clients
<1>3. /\ Typed /\ published \in Nat /\ queue \in [TopicPartitions -> Seq(MsgRecords)]
  BY DEF Answered, Typed
<1>4. i \in Items
  <2>1. req[r].todo \in Seq(Writes)
    BY <1>3 DEF Typed, ReqRecords
  <2>2. Head(req[r].todo) \in Writes
    BY <1>2, <2>1, HeadTailProperties
  <2> QED
    BY <1>1, <2>2 DEF Writes
<1>5. /\ \A o \in Requests : Distinct(req'[o].todo)
      /\ \A j : Writers(j)' \subseteq Writers(j)
      /\ r \in Writers(i) /\ r \notin Writers(i)'
  BY <1>1, <1>2, <1>3, TodoShrinks DEF Budgeted
<1>6. PICK m \in MsgRecords : m = [item |-> i, no |-> published + 1]
  <2>1. published + 1 \in Nat
    BY <1>3
  <2>2. [item |-> i, no |-> published + 1] \in MsgRecords
    BY <1>4, <2>1 DEF MsgRecords
  <2> QED
    BY <2>2
<1>7. m.item = i
  BY <1>6
<1>8. ASSUME NEW j \in Items
      PROVE  \/ At(queue', j) = At(queue, j)
             \/ j = i /\ At(queue', j) = At(queue, j) + 1
  <2>1. PICK p : p = PartitionOf(j)
    OBVIOUS
  <2>2. CASE p \notin TopicPartitions
    BY <2>1, <2>2 DEF At
  <2>3. CASE p \in TopicPartitions
    <3>1. At(queue, j) = Count(queue[p], j) /\ At(queue', j) = Count(queue'[p], j)
      BY <2>1, <2>3 DEF At
    <3>2. queue'[p] = queue[p] \/ queue'[p] = Append(queue[p], m)
      BY <1>2, <1>3, <1>6, <2>3
    <3>3. queue[p] \in Seq(MsgRecords)
      BY <1>3, <2>3
    <3>4. /\ m.item = j => Count(Append(queue[p], m), j) = Count(queue[p], j) + 1
          /\ m.item # j => Count(Append(queue[p], m), j) = Count(queue[p], j)
      BY <3>3, CountAppend
    <3>5. CASE queue'[p] = queue[p]
      BY <3>1, <3>5
    <3>6. CASE queue'[p] = Append(queue[p], m)
      BY <1>7, <3>1, <3>4, <3>6
    <3> QED
      BY <3>2, <3>5, <3>6
  <2> QED
    BY <2>2, <2>3
<1>9. ASSUME NEW j \in Items
      PROVE  Budget(j)'
  <2>1. Budget(j)
    BY DEF Budgeted
  <2>2. PICK W, V : W = Writers(j) /\ V = Writers(j)'
    OBVIOUS
  <2>3. /\ IsFiniteSet(V) /\ Cardinality(V) \in Nat /\ Cardinality(W) \in Nat
        /\ Cardinality(V) <= Cardinality(W)
        /\ \A x \in W : x \notin V => Cardinality(V) + 1 <= Cardinality(W)
    <3>1. IsFiniteSet(W) /\ V \subseteq W
      BY <1>5, <2>1, <2>2 DEF Budget
    <3> QED
      BY <3>1, FewerWriters
  <2>4. PICK q, q1, b, t, s :
            q = At(queue, j) /\ q1 = At(queue', j) /\ b = At(batch, j) /\ t = At(topic, j) /\ s = rows[j]
    OBVIOUS
  <2>5. At(batch', j) = b /\ At(topic', j) = t /\ rows'[j] = s
    BY <1>2, <2>4 DEF At
  <2>6. q \in Nat /\ q1 \in Nat /\ b \in Nat /\ t \in Nat /\ s \in Nat
    BY <2>1, <2>4, BudgetNumbers
  <2>7. Cardinality(V) + q1 <= Cardinality(W) + q
    <3>1. CASE q1 = q
      BY <2>3, <2>6, <3>1
    <3>2. CASE j = i /\ q1 = q + 1
      <4>1. Cardinality(V) + 1 <= Cardinality(W)
        BY <1>5, <2>2, <2>3, <3>2
      <4> QED
        BY <2>3, <2>6, <3>2, <4>1
    <3> QED
      BY <1>8, <2>4, <3>1, <3>2
  <2>8. /\ Cardinality(V) + q1 + b <= Cardinality(W) + q + b
        /\ s + t + Cardinality(V) + q1 + b <= s + t + Cardinality(W) + q + b
    BY <2>3, <2>6, <2>7
  <2> QED
    BY <1>2, <2>1, <2>2, <2>3, <2>4, <2>5, <2>8, BudgetMove
<1> QED
  BY <1>5, <1>9 DEF Budgeted

\* A request that gives up, or is over.
LEMMA BudgetByAnswer ==
    ASSUME Answered, Budgeted, NEW r \in Requests, GiveUp(r) \/ Answer(r)
    PROVE  Budgeted'
<1>1. UNCHANGED <<queue, batch, topic, rows, lostAcks, sends, rounds>>
  BY DEF GiveUp, Answer, kafka, clients
<1>2. req \in [Requests -> ReqRecords]
  BY DEF Answered, Typed
<1>3. req'[r].todo = req[r].todo \/ req'[r].todo = <<>>
  BY <1>2 DEF GiveUp, Answer, Idle, ReqRecords
<1>4. \A o \in Requests : o # r => req'[o] = req[o]
  BY <1>2 DEF GiveUp, Answer
<1>5. Range(<<>>) = {} /\ Distinct(<<>>)
  BY DEF Range, Distinct
<1>6. /\ \A o \in Requests : Distinct(req'[o].todo)
      /\ \A j : Writers(j)' \subseteq Writers(j)
  <2>1. \A o \in Requests : req'[o].todo = req[o].todo \/ req'[o].todo = <<>>
    BY <1>3, <1>4
  <2> QED
    BY <1>5, <2>1 DEF Writers, Budgeted
<1>7. \A i \in Items : SentFor(i)' = SentFor(i)
  BY <1>1 DEF SentFor
<1>8. \A i \in Items : Budget(i)'
  BY <1>1, <1>6, <1>7, BudgetStays DEF Budgeted
<1> QED
  BY <1>6, <1>8 DEF Budgeted

\* MsgRecords move along, or are lost.
LEMMA BudgetByKafka ==
    ASSUME Answered, Answered', Budgeted, UNCHANGED <<rows, sends, rounds, lostAcks>>,
           \A j : Writers(j)' \subseteq Writers(j),
           \A o \in Requests : Distinct(req'[o].todo),
           \A j \in Items : /\ At(queue', j) + At(batch', j) <= At(queue, j) + At(batch, j)
                            /\ At(topic', j) + At(queue', j) + At(batch', j)
                                  <= At(topic, j) + At(queue, j) + At(batch, j)
    PROVE  Budgeted'
<1>1. ASSUME NEW j \in Items
      PROVE  Budget(j)'
  <2>1. Budget(j)
    BY DEF Budgeted
  <2>2. PICK W, V : W = Writers(j) /\ V = Writers(j)'
    OBVIOUS
  <2>3. /\ IsFiniteSet(V) /\ Cardinality(V) \in Nat /\ Cardinality(W) \in Nat
        /\ Cardinality(V) <= Cardinality(W)
    <3>1. IsFiniteSet(W) /\ V \subseteq W
      BY <2>1, <2>2 DEF Budget
    <3> QED
      BY <3>1, FewerWriters
  <2>4. PICK q, q1, b, b1, t, t1, s :
            /\ q = At(queue, j) /\ q1 = At(queue', j) /\ b = At(batch, j) /\ b1 = At(batch', j)
            /\ t = At(topic, j) /\ t1 = At(topic', j) /\ s = rows[j]
    OBVIOUS
  <2>5. /\ q \in Nat /\ q1 \in Nat /\ b \in Nat /\ b1 \in Nat /\ t \in Nat /\ t1 \in Nat
        /\ s \in Nat /\ rows'[j] = s
    BY <2>1, <2>4, BudgetNumbers
  <2>6. q1 + b1 <= q + b /\ t1 + q1 + b1 <= t + q + b
    BY <2>4
  <2>7. /\ Cardinality(V) + q1 + b1 <= Cardinality(W) + q + b
        /\ s + t1 + Cardinality(V) + q1 + b1 <= s + t + Cardinality(W) + q + b
    BY <2>3, <2>5, <2>6
  <2> QED
    BY <2>1, <2>2, <2>3, <2>4, <2>5, <2>7, BudgetMove
<1> QED
  BY <1>1 DEF Budgeted

LEMMA BudgetByFormBatch ==
    ASSUME Answered, Answered', Budgeted, NEW p \in TopicPartitions, FormBatch(p)
    PROVE  Budgeted'
<1>1. batch[p] = <<>> /\ UNCHANGED <<req, rows, topic, sends, rounds, lostAcks>>
  BY DEF FormBatch, clients
<1>2. /\ queue \in [TopicPartitions -> Seq(MsgRecords)] /\ batch \in [TopicPartitions -> Seq(MsgRecords)]
      /\ topic \in [TopicPartitions -> Seq(MsgRecords)] /\ BatchSize \in Nat
  BY Constants DEF Answered, Typed
<1>3. PICK s \in Seq(MsgRecords) : s = queue[p]
  BY <1>2
<1>4. PICK k \in 1..BatchSize :
          /\ k <= Len(s)
          /\ batch' = [batch EXCEPT ![p] = SubSeq(s, 1, k)]
          /\ queue' = [queue EXCEPT ![p] = SubSeq(s, k + 1, Len(s))]
  BY <1>2, <1>3 DEF FormBatch
<1>5. k \in 1..Len(s)
  BY <1>2, <1>4, LenProperties
<1>6. PICK b \in Seq(MsgRecords), o \in Seq(MsgRecords) :
          b = SubSeq(s, 1, k) /\ o = SubSeq(s, k + 1, Len(s)) /\ s = b \o o
  <2>1. /\ SubSeq(s, 1, k) \in Seq(MsgRecords) /\ SubSeq(s, k + 1, Len(s)) \in Seq(MsgRecords)
        /\ s = SubSeq(s, 1, k) \o SubSeq(s, k + 1, Len(s))
    BY <1>5, SplitRange
  <2> QED
    BY <2>1, Zenon
<1>7. /\ batch'[p] = b /\ queue'[p] = o
      /\ \A x \in TopicPartitions : x # p => batch'[x] = batch[x] /\ queue'[x] = queue[x]
  BY <1>2, <1>4, <1>6
<1>8. \A j : Count(s, j) = Count(b, j) + Count(o, j) /\ Count(b, j) \in Nat /\ Count(o, j) \in Nat
  <2>1. ASSUME NEW j
        PROVE  Count(b \o o, j) = Count(b, j) + Count(o, j) /\ Count(b, j) \in Nat /\ Count(o, j) \in Nat
    BY CountConcat, CountType
  <2> QED
    BY <1>6, <2>1
<1>9. ASSUME NEW j \in Items
      PROVE  At(queue', j) + At(batch', j) = At(queue, j) + At(batch, j) /\ At(topic', j) = At(topic, j)
  <2>1. At(topic', j) = At(topic, j)
    BY <1>1 DEF At
  <2>2. CASE PartitionOf(j) = p
    <3>1. At(queue', j) = Count(o, j) /\ At(batch', j) = Count(b, j)
      BY <1>7, <2>2 DEF At
    <3>2. At(queue, j) = Count(s, j) /\ At(batch, j) = 0
      BY <1>1, <1>3, <2>2, CountSmall DEF At
    <3> QED
      BY <1>8, <2>1, <3>1, <3>2
  <2>3. CASE PartitionOf(j) # p
    <3>1. At(queue', j) = At(queue, j) /\ At(batch', j) = At(batch, j)
      BY <1>7, <2>3 DEF At
    <3> QED
      BY <2>1, <3>1
  <2> QED
    BY <2>2, <2>3
<1>10. \A j \in Items : /\ At(queue', j) + At(batch', j) <= At(queue, j) + At(batch, j)
                        /\ At(topic', j) + At(queue', j) + At(batch', j)
                              <= At(topic, j) + At(queue, j) + At(batch, j)
  <2>1. ASSUME NEW j \in Items
        PROVE  /\ At(queue', j) + At(batch', j) <= At(queue, j) + At(batch, j)
               /\ At(topic', j) + At(queue', j) + At(batch', j)
                     <= At(topic, j) + At(queue, j) + At(batch, j)
    <3>1. Budget(j)
      BY DEF Budgeted
    <3>2. /\ At(queue, j) \in Nat /\ At(batch, j) \in Nat /\ At(topic, j) \in Nat
          /\ At(queue', j) \in Nat /\ At(batch', j) \in Nat
      BY <3>1, BudgetNumbers
    <3> QED
      BY <1>9, <3>2
  <2> QED
    BY <2>1
<1>11. \A j : Writers(j)' \subseteq Writers(j)
  BY <1>1 DEF Writers
<1>12. \A o1 \in Requests : Distinct(req'[o1].todo)
  BY <1>1 DEF Budgeted
<1> QED
  BY <1>1, <1>10, <1>11, <1>12, BudgetByKafka

LEMMA BudgetByTransmit ==
    ASSUME Answered, Answered', Budgeted, NEW p \in TopicPartitions, Transmit(p)
    PROVE  Budgeted'
<1>1. UNCHANGED <<req, rows, queue, sends, rounds>>
  BY DEF Transmit, clients
<1>2. /\ batch \in [TopicPartitions -> Seq(MsgRecords)] /\ topic \in [TopicPartitions -> Seq(MsgRecords)]
      /\ lostAcks \in Nat
  BY DEF Answered, Typed
<1>3. PICK b \in Seq(MsgRecords), t \in Seq(MsgRecords) : b = batch[p] /\ t = topic[p]
  BY <1>2
<1>4. \A j : Count(t \o b, j) = Count(t, j) + Count(b, j) /\ Count(t, j) \in Nat /\ Count(b, j) \in Nat
  <2>1. ASSUME NEW j
        PROVE  Count(t \o b, j) = Count(t, j) + Count(b, j) /\ Count(t, j) \in Nat /\ Count(b, j) \in Nat
    BY CountConcat, CountType
  <2> QED
    BY <2>1
<1>5. /\ \A j : Writers(j)' \subseteq Writers(j)
      /\ \A o \in Requests : Distinct(req'[o].todo)
  BY <1>1 DEF Writers, Budgeted
<1>6. ASSUME NEW j \in Items, Reaches(p)
      PROVE  \/ At(topic', j) = At(topic, j) + At(batch, j) /\ PartitionOf(j) = p
             \/ At(topic', j) = At(topic, j) /\ PartitionOf(j) # p
  <2>1. topic'[p] = t \o b /\ \A x \in TopicPartitions : x # p => topic'[x] = topic[x]
    BY <1>2, <1>3, <1>6 DEF Reaches
  <2>2. CASE PartitionOf(j) = p
    <3>1. At(topic', j) = Count(t \o b, j) /\ At(topic, j) = Count(t, j) /\ At(batch, j) = Count(b, j)
      BY <1>3, <2>1, <2>2 DEF At
    <3> QED
      BY <1>4, <2>2, <3>1
  <2>3. CASE PartitionOf(j) # p
    BY <2>1, <2>3 DEF At
  <2> QED
    BY <2>2, <2>3
<1>7. ASSUME NEW j \in Items, Leaves(p)
      PROVE  \/ At(batch', j) = 0 /\ PartitionOf(j) = p
             \/ At(batch', j) = At(batch, j) /\ PartitionOf(j) # p
  <2>1. batch'[p] = <<>> /\ \A x \in TopicPartitions : x # p => batch'[x] = batch[x]
    BY <1>2, <1>7 DEF Leaves
  <2>2. CASE PartitionOf(j) = p
    BY <2>1, <2>2, CountSmall DEF At
  <2>3. CASE PartitionOf(j) # p
    BY <2>1, <2>3 DEF At
  <2> QED
    BY <2>2, <2>3
<1>8. ASSUME NEW j \in Items
      PROVE  /\ Budget(j) /\ At(queue', j) = At(queue, j)
             /\ At(queue, j) \in Nat /\ At(batch, j) \in Nat /\ At(topic, j) \in Nat
  <2>1. Budget(j)
    BY DEF Budgeted
  <2>2. At(queue, j) \in Nat /\ At(batch, j) \in Nat /\ At(topic, j) \in Nat
    BY <2>1, BudgetNumbers
  <2> QED
    BY <1>1, <2>1, <2>2 DEF At
<1>9. CASE UNCHANGED lostAcks /\ Leaves(p) /\ (Reaches(p) \/ UNCHANGED topic)
  <2>1. ASSUME NEW j \in Items
        PROVE  /\ At(queue', j) + At(batch', j) <= At(queue, j) + At(batch, j)
               /\ At(topic', j) + At(queue', j) + At(batch', j)
                     <= At(topic, j) + At(queue, j) + At(batch, j)
    <3>1. UNCHANGED topic => At(topic', j) = At(topic, j)
      BY DEF At
    <3> QED
      BY <1>6, <1>7, <1>8, <1>9, <3>1
  <2> QED
    BY <1>1, <1>5, <1>9, <2>1, BudgetByKafka
<1>10. CASE UNCHANGED <<lostAcks, topic, batch>>
  <2>1. \A j \in Items : SentFor(j)' = SentFor(j)
    BY <1>1 DEF SentFor
  <2>2. \A j \in Items : Budget(j)'
    BY <1>1, <1>5, <1>10, <2>1, BudgetStays DEF Budgeted
  <2> QED
    BY <1>5, <2>2 DEF Budgeted
<1>11. CASE Reaches(p) /\ UNCHANGED batch /\ lostAcks' = lostAcks + 1
  <2>1. ASSUME NEW j \in Items
        PROVE  Budget(j)'
    <3>1. PICK w, n, q, b0, t0, s :
              /\ w = Cardinality(Writers(j)) /\ n = SentFor(j) /\ q = At(queue, j)
              /\ b0 = At(batch, j) /\ t0 = At(topic, j) /\ s = rows[j]
      OBVIOUS
    <3>2. Balanced(w, q, b0, t0, s, n, lostAcks) /\ IsFiniteSet(Writers(j))
      BY <1>8, <3>1 DEF Budget
    <3>3. PICK l : l = lostAcks
      OBVIOUS
    <3>4. Balanced(w, q, b0, t0 + b0, s, n, l + 1)
      BY <3>2, <3>3, BalancedAgain
    <3>5. Balanced(w, q, b0, t0, s, n, l + 1)
      <4>1. /\ w \in Nat /\ q \in Nat /\ b0 \in Nat /\ t0 \in Nat /\ s \in Nat
        BY <3>2 DEF Balanced
      <4>2. w + q + b0 <= w + q + b0 /\ s + t0 + w + q + b0 <= s + (t0 + b0) + w + q + b0
        BY <4>1
      <4> QED
        BY <3>4, <4>1, <4>2, BalancedMove
    <3>6. /\ Writers(j)' = Writers(j) /\ SentFor(j)' = n /\ At(queue, j)' = q
          /\ At(batch, j)' = b0 /\ rows'[j] = s /\ lostAcks' = l + 1
      BY <1>1, <1>11, <3>1, <3>3 DEF Writers, SentFor, At
    <3>7. At(topic, j)' = t0 + b0 \/ At(topic, j)' = t0
      <4>1. At(topic', j) = t0 + b0 \/ At(topic', j) = t0
        BY <1>6, <1>11, <3>1
      <4> QED
        BY <4>1 DEF At
    <3>8. CASE At(topic, j)' = t0 + b0
      BY <3>1, <3>2, <3>4, <3>6, <3>8 DEF Budget
    <3>9. CASE At(topic, j)' = t0
      BY <3>1, <3>2, <3>5, <3>6, <3>9 DEF Budget
    <3> QED
      BY <3>7, <3>8, <3>9
  <2> QED
    BY <1>5, <2>1 DEF Budgeted
<1> QED
  BY <1>9, <1>10, <1>11 DEF Transmit

LEMMA BudgetByCrash ==
    ASSUME Answered, Answered', Budgeted, Crash
    PROVE  Budgeted'
<1>1. /\ req' = [r \in Requests |-> Idle]
      /\ queue' = [p \in TopicPartitions |-> <<>>] /\ batch' = [p \in TopicPartitions |-> <<>>]
      /\ UNCHANGED <<rows, topic, sends, rounds, lostAcks>>
  BY DEF Crash, clients
<1>2. Range(Idle.todo) = {} /\ Distinct(Idle.todo)
  BY DEF Idle, Range, Distinct
<1>3. /\ \A j : Writers(j)' \subseteq Writers(j)
      /\ \A o \in Requests : Distinct(req'[o].todo)
  BY <1>1, <1>2 DEF Writers
<1>4. ASSUME NEW j \in Items
      PROVE  /\ At(queue', j) + At(batch', j) <= At(queue, j) + At(batch, j)
             /\ At(topic', j) + At(queue', j) + At(batch', j)
                   <= At(topic, j) + At(queue, j) + At(batch, j)
  <2>1. At(queue', j) = 0 /\ At(batch', j) = 0 /\ At(topic', j) = At(topic, j)
    BY <1>1, CountSmall DEF At
  <2>2. Budget(j)
    BY DEF Budgeted
  <2>3. At(queue, j) \in Nat /\ At(batch, j) \in Nat /\ At(topic, j) \in Nat
    BY <2>2, BudgetNumbers
  <2> QED
    BY <2>1, <2>3
<1> QED
  BY <1>1, <1>3, <1>4, BudgetByKafka

LEMMA BudgetByNext ==
    ASSUME Answered, Answered', Budgeted, [Next]_vars
    PROVE  Budgeted'
<1>1. CASE Restart \/ UNCHANGED vars
  <2>1. UNCHANGED <<req, rows, queue, batch, topic, sends, rounds, lostAcks>>
    BY <1>1 DEF Restart, vars, kafka, clients
  <2>2. \A j \in Items : Writers(j)' = Writers(j) /\ SentFor(j)' = SentFor(j)
    BY <2>1 DEF Writers, SentFor
  <2>3. \A j \in Items : Budget(j)'
    BY <2>1, <2>2, BudgetStays DEF Budgeted
  <2> QED
    BY <2>1, <2>3 DEF Budgeted
<1>2. CASE Next
  <2>1. ASSUME NEW r \in Requests, NEW h \in 1..MaxHosts, NEW n \in 1..MaxSamples, SendSample(r, h, n)
        PROVE  Budgeted'
    BY <2>1, BudgetBySend
  <2>2. ASSUME NEW r \in Requests, NEW overGRPC \in BOOLEAN, RunChecks(r, overGRPC)
        PROVE  Budgeted'
    BY <2>2, BudgetByRound
  <2>3. ASSUME NEW r \in Requests, GiveUp(r) \/ Insert(r) \/ Publish(r) \/ Answer(r)
        PROVE  Budgeted'
    BY <2>3, BudgetByAnswer, BudgetByInsert, BudgetByPublish
  <2>4. ASSUME NEW p \in TopicPartitions, FormBatch(p) \/ Transmit(p)
        PROVE  Budgeted'
    BY <2>4, BudgetByFormBatch, BudgetByTransmit
  <2>5. CASE Crash
    BY <2>5, BudgetByCrash
  <2> QED
    BY <1>1, <1>2, <2>1, <2>2, <2>3, <2>4, <2>5, StepLemma
<1> QED
  BY <1>1, <1>2

LEMMA BudgetInit ==
    ASSUME Init
    PROVE  Budgeted
<1>1. /\ req = [r \in Requests |-> Idle] /\ rows = [i \in Items |-> 0]
      /\ queue = [p \in TopicPartitions |-> <<>>] /\ batch = [p \in TopicPartitions |-> <<>>]
      /\ topic = [p \in TopicPartitions |-> <<>>]
      /\ sends = [s \in Samples |-> 0] /\ rounds = 0 /\ lostAcks = 0
  BY DEF Init
<1>2. Range(Idle.todo) = {} /\ Distinct(Idle.todo)
  BY DEF Idle, Range, Distinct
<1>3. \A i : Writers(i) = {}
  BY <1>1, <1>2 DEF Writers
<1>4. IsFiniteSet({}) /\ Cardinality({}) = 0
  BY FS_EmptySet
<1>5. ASSUME NEW i \in Items
      PROVE  Budget(i)
  <2>1. At(queue, i) = 0 /\ At(batch, i) = 0 /\ At(topic, i) = 0 /\ rows[i] = 0
    BY <1>1, CountSmall DEF At
  <2>2. SentFor(i) \in Nat
    <3>1. CASE i \in ProbeItems
      BY <3>1 DEF SentFor
    <3>2. CASE i \notin ProbeItems
      <4>1. PICK s \in Samples : i.key = s[1] /\ i.n = s[2]
        BY <3>2, ItemLemma DEF Items
      <4>2. <<i.key, i.n>> \in Samples
        BY <4>1 DEF Samples
      <4> QED
        BY <1>1, <3>2, <4>2 DEF SentFor
    <3> QED
      BY <3>1, <3>2
  <2>3. ASSUME NEW n \in Nat
        PROVE  Balanced(0, 0, 0, 0, 0, n, 0)
    BY DEF Balanced
  <2> QED
    BY <1>1, <1>3, <1>4, <2>1, <2>2, <2>3 DEF Budget
<1> QED
  BY <1>1, <1>2, <1>5 DEF Budgeted

\* All messages of an item are in the partition of its key.
LEMMA CopiesAreAt ==
    ASSUME Answered, Ordered, NEW i \in Items, NEW C,
           C = UNION {{p} \X {k \in 1..Len(topic[p]) : topic[p][k].item = i} : p \in TopicPartitions}
    PROVE  Cardinality(C) = At(topic, i)
<1>1. PICK o : o = PartitionOf(i)
  OBVIOUS
<1>2. topic \in [TopicPartitions -> Seq(MsgRecords)]
  BY DEF Answered, Typed
<1>3. ASSUME NEW p \in TopicPartitions, NEW k \in 1..Len(topic[p]), topic[p][k].item = i
      PROVE  p = o
  <2>1. topic[p] \in Seq(MsgRecords)
    BY <1>2
  <2>2. topic[p][k] \in Range(topic[p])
    BY <2>1, NumberLemma
  <2> QED
    BY <1>1, <1>3, <2>2 DEF Ordered, InLane
<1>4. CASE o \notin TopicPartitions
  <2>1. C = {}
    BY <1>3, <1>4
  <2> QED
    BY <1>1, <1>4, <2>1, FS_EmptySet DEF At
<1>5. CASE o \in TopicPartitions
  <2>1. PICK T : T = Places(topic[o], i)
    OBVIOUS
  <2>2. C = {o} \X T
    <3>1. \A p \in TopicPartitions : p # o => {k \in 1..Len(topic[p]) : topic[p][k].item = i} = {}
      BY <1>3
    <3>2. {k \in 1..Len(topic[o]) : topic[o][k].item = i} = T
      BY <2>1 DEF Places
    <3>3. ASSUME NEW x
          PROVE  x \in C <=> x \in {o} \X T
      <4>1. x \in C <=> \E p \in TopicPartitions :
                            x \in {p} \X {k \in 1..Len(topic[p]) : topic[p][k].item = i}
        OBVIOUS
      <4>2. x \in {o} \X {k \in 1..Len(topic[o]) : topic[o][k].item = i} <=> x \in {o} \X T
        BY <3>2
      <4>3. \A p \in TopicPartitions :
                p # o => ~(x \in {p} \X {k \in 1..Len(topic[p]) : topic[p][k].item = i})
        BY <3>1
      <4> QED
        BY <1>5, <4>1, <4>2, <4>3
    <3> QED
      BY <3>3
  <2>3. IsFiniteSet(T)
    BY <1>2, <1>5, <2>1, CountType
  <2>4. Cardinality({o} \X T) = Cardinality(T)
    <3>1. IsFiniteSet({o}) /\ Cardinality({o}) = 1
      BY FS_Singleton, Zenon
    <3>2. Cardinality({o} \X T) = Cardinality({o}) * Cardinality(T)
      BY <2>3, <3>1, FS_Product
    <3>3. Cardinality(T) \in Nat
      BY <2>3, FS_CardinalityType
    <3> QED
      BY <3>1, <3>2, <3>3
  <2> QED
    BY <1>1, <1>5, <2>1, <2>2, <2>4 DEF At, Count
<1> QED
  BY <1>4, <1>5

\* What is stored and logged of a sample or a result is due to its sender:
\* never more copies than it was sent for, each doubled at most by the
\* broker's acknowledgements that were lost.
THEOREM CopiesAreSent == Spec => []CopiesBounded
<1>1. Init => Answered /\ Ordered /\ Budgeted
  BY InitLemma, OrderInit, BudgetInit
<1>2. Answered /\ Ordered /\ Budgeted /\ [Next]_vars => Answered' /\ Ordered' /\ Budgeted'
  BY NextLemma, OrderByNext, BudgetByNext
<1>3. Answered /\ Ordered /\ Budgeted => CopiesBounded
  <2> SUFFICES ASSUME Answered, Ordered, Budgeted, NEW i \in Items, NEW C,
                      C = UNION {{p} \X {k \in 1..Len(topic[p]) : topic[p][k].item = i}
                                     : p \in TopicPartitions}
               PROVE  rows[i] + Cardinality(C)
                          <= (IF i \in ProbeItems THEN 1 ELSE sends[<<i.key, i.n>>]) * (1 + lostAcks)
    BY DEF CopiesBounded
  <2>1. PICK w, n, l, q, b, t, s :
            /\ n = SentFor(i) /\ l = lostAcks /\ q = At(queue, i) /\ b = At(batch, i)
            /\ t = At(topic, i) /\ s = rows[i] /\ w = Cardinality(Writers(i))
    OBVIOUS
  <2>2. Balanced(w, q, b, t, s, n, l)
    BY <2>1 DEF Budgeted, Budget
  <2>3. Cardinality(C) = t
    BY <2>1, CopiesAreAt
  <2>4. /\ w \in Nat /\ q \in Nat /\ b \in Nat /\ t \in Nat /\ s \in Nat /\ n \in Nat /\ l \in Nat
        /\ s + t + w + q + b <= n * (1 + l)
    BY <2>2 DEF Balanced
  <2>5. s + t <= n * (1 + l)
    <3>1. n * (1 + l) \in Nat
      BY <2>4
    <3> QED
      BY <2>4, <3>1
  <2>6. CASE i \in ProbeItems
    <3>1. n = 0 \/ n = 1
      BY <2>1, <2>6 DEF SentFor
    <3>2. s + t <= 1 * (1 + l)
      BY <2>4, <2>5, <3>1
    <3> QED
      BY <2>1, <2>3, <2>6, <3>2
  <2>7. CASE i \notin ProbeItems
    BY <2>1, <2>3, <2>5, <2>7 DEF SentFor
  <2> QED
    BY <2>6, <2>7
<1> QED
  BY <1>1, <1>2, <1>3, PTL DEF Spec

=============================================================================
