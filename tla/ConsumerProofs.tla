--------------------------- MODULE ConsumerProofs ---------------------------
(***************************************************************************)
(* Proofs about a consumer's worker, for every batch size, one table or    *)
(* three, every set of messages that do not unmarshal and every number of  *)
(* restarts, rebalances and failed inserts.                                *)
(***************************************************************************)
EXTENDS ConsumerWorker, FiniteSetTheorems, SequenceTheorems, TLAPS

\* Between two flushes the locals of flush are gone; a batch that is flushed
\* on the way to Close is not full; a process that ended fetched nothing.
Steady ==
    /\ pc # "send" => sending = 1
    /\ after = "close" => Len(batch) < BatchSize
    /\ pc = "down" => msg = 0

Worker == TypeOK /\ Steady

\* How often table t gets message m from the batch, if the flush succeeds.
Due(t, m) ==
    IF (pc = "send" /\ t < sending) \/ pc \in {"close", "returned"} THEN 0 ELSE Occurrences(m)

\* A message is in a table, in the batch, or ahead of the reader, once for
\* each start.
Once ==
    \A t \in Tables, m \in Msgs :
        rows[t][m] + Due(t, m) + (IF m > position THEN 1 ELSE 0) <= starts

----------------------------------------------------------------------------
(* Constants, maxima and sequences. *)

LEMMA Bounds ==
    /\ BatchSize \in Nat \ {0} /\ MaxMsgs \in Nat /\ MaxStarts \in Nat \ {0}
    /\ 1 \in Tables /\ Tables \subseteq Nat
    /\ \A t \in Tables : Rows[t] \subseteq Msgs \ Poison
    /\ \A t, s \in Tables : s < t => s + 1 \in Tables
  BY ConsumerAssumption

LEMMA MaxLemma ==
    ASSUME NEW a \in Int, NEW b \in Int
    PROVE  Max({a, b}) \in {a, b} /\ a <= Max({a, b}) /\ b <= Max({a, b})
  BY DEF Max

\* The offsets, typed.
LEMMA Offsets ==
    ASSUME TypeOK
    PROVE  /\ topic \in Nat /\ topic <= MaxMsgs /\ MaxMsgs \in Nat
           /\ committed \in Nat /\ committed <= topic
           /\ queued \in Nat /\ queued <= topic
           /\ position \in Nat /\ position <= topic
           /\ msg \in Nat /\ msg <= topic
           /\ starts \in Nat /\ kills \in Nat /\ blind \in Nat
  BY Bounds DEF TypeOK

\* The worker moves on without a batch, or with the one it has.
LEMMA MoveLemma ==
    ASSUME Worker, UNCHANGED <<topic, rows, drops, kills, blind, batch, nils, sending>>,
           pc # "send", pc' # "send",
           committed' \in 0..topic, queued' \in 0..topic, position' \in 0..topic, msg' \in 0..topic,
           pc' \in {"select", "fetch", "commit", "prepare", "close", "returned", "down"},
           after' \in {"select", "commit", "close"},
           Len(batch) = BatchSize => pc' = "prepare",
           pc' = "prepare" => batch # << >>,
           after' = "close" => Len(batch) < BatchSize,
           pc' = "down" => msg' = 0,
           ctxDone' \in BOOLEAN, tick' \in BOOLEAN,
           starts' \in 1..MaxStarts, skipped' \subseteq 1..topic
    PROVE  Worker'
<1>1. TypeOK'
  BY DEF Worker, TypeOK
<1>2. Steady'
  BY DEF Worker, Steady
<1> QED
  BY <1>1, <1>2 DEF Worker

\* The select statement, FetchMessage without a message, and Commit.
LEMMA RunMoves ==
    ASSUME Worker, Done \/ Close \/ Ticked \/ Default \/ FetchError \/ FetchCancelled \/ Commit
    PROVE  Worker'
<1>1. TypeOK /\ Steady
  BY DEF Worker
<1>2. /\ topic \in Nat /\ committed \in 0..topic /\ queued \in 0..topic /\ position \in 0..topic
      /\ msg \in 0..topic /\ ctxDone \in BOOLEAN /\ tick \in BOOLEAN
      /\ starts \in 1..MaxStarts /\ skipped \subseteq 1..topic
  BY <1>1, Offsets DEF TypeOK
<1>3. /\ UNCHANGED <<topic, rows, drops, kills, blind, batch, nils, sending>>
      /\ position' = position /\ starts' = starts /\ skipped' = skipped /\ ctxDone' = ctxDone
  BY DEF Done, Close, Ticked, Default, FetchError, FetchCancelled, Commit, broker, reader, flush, history
<1>4. /\ pc \in {"select", "close", "fetch", "commit"}
      /\ pc' \in {"select", "fetch", "prepare", "close", "returned"}
      /\ pc' = "prepare" => batch # << >>
      /\ after' \in {after, "close", "select"}
  BY DEF Done, Close, Ticked, Default, FetchError, FetchCancelled, Commit, Flush, flush
<1>5. /\ committed' \in 0..topic /\ queued' \in 0..topic /\ msg' \in 0..topic /\ tick' \in BOOLEAN
  <2>1. CASE Commit
    <3>1. Max({queued, msg}) \in {queued, msg}
      <4>1. queued \in Int /\ msg \in Int
        BY <1>2
      <4> QED
        BY <4>1, MaxLemma
    <3>2. queued' \in {queued, Max({queued, msg})} /\ committed' = committed /\ msg' = 0 /\ tick' = tick
      BY <2>1 DEF Commit, broker
    <3> QED
      BY <1>2, <3>1, <3>2
  <2>2. CASE Close
    <3>1. committed' \in {committed, queued} /\ queued' = 0 /\ msg' = msg /\ tick' = tick
      BY <2>2 DEF Close, CommitOnLeaving
    <3> QED
      BY <1>2, <3>1
  <2>3. CASE Done \/ Ticked \/ Default \/ FetchError \/ FetchCancelled
    <3>1. committed' = committed /\ queued' = queued /\ msg' = msg /\ tick' \in {tick, FALSE}
      BY <2>3 DEF Done, Ticked, Default, FetchError, FetchCancelled, broker, reader
    <3> QED
      BY <1>2, <3>1
  <2> QED
    BY <2>1, <2>2, <2>3
<1>6. Len(batch) < BatchSize
  <2>1. Len(batch) \in Nat /\ BatchSize \in Nat /\ Len(batch) <= BatchSize
    BY <1>1, Bounds, LenProperties DEF TypeOK
  <2>2. Len(batch) # BatchSize
    BY <1>1, <1>4 DEF TypeOK
  <2> QED
    BY <2>1, <2>2
<1>7. Len(batch) # BatchSize
  BY <1>1, <1>4 DEF TypeOK
<1>8. after' \in {"select", "commit", "close"}
  BY <1>1, <1>4 DEF TypeOK
<1> QED
  BY <1>2, <1>3, <1>4, <1>5, <1>6, <1>7, <1>8, MoveLemma

\* The group's offset: the reader begins somewhere behind what it commits.
LEMMA TakePositionLemma ==
    ASSUME TypeOK, TakePosition, committed' \in 0..topic
    PROVE  /\ position' \in 0..topic /\ queued' \in 0..topic
           /\ starts' = starts + 1 /\ starts' \in 1..MaxStarts /\ skipped' \subseteq 1..topic
<1>1. topic \in Nat /\ position \in Nat /\ starts \in 1..MaxStarts /\ MaxStarts \in Nat
      /\ skipped \subseteq 1..topic
  BY Offsets, Bounds DEF TypeOK
<1>2. position + 1..topic \subseteq 1..topic
  BY <1>1
<1>3. skipped' \in {skipped, skipped \cup (position + 1..topic)} /\ position' \in {topic, committed'}
      /\ queued' = 0 /\ starts < MaxStarts /\ starts' = starts + 1
  BY DEF TakePosition
<1> QED
  BY <1>1, <1>2, <1>3

LEMMA RebalanceRestart ==
    ASSUME Worker, Rebalance \/ Restart
    PROVE  Worker'
<1>1. TypeOK /\ Steady
  BY DEF Worker
<1>2. /\ committed \in 0..topic /\ queued \in 0..topic /\ msg \in 0..topic
      /\ ctxDone \in BOOLEAN /\ tick \in BOOLEAN
  BY <1>1, Offsets DEF TypeOK
<1>3. /\ UNCHANGED <<topic, rows, drops, kills, blind, batch, nils, sending, after, msg>>
      /\ TakePosition /\ ctxDone' \in {ctxDone, FALSE} /\ tick' \in {tick, FALSE}
  BY DEF Rebalance, Restart, history, flush
<1>4. committed' \in 0..topic
  BY <1>2 DEF Rebalance, Restart, CommitOnLeaving
<1>5. /\ position' \in 0..topic /\ queued' \in 0..topic
      /\ starts' \in 1..MaxStarts /\ skipped' \subseteq 1..topic
  BY <1>1, <1>3, <1>4, TakePositionLemma
<1>6. CASE Rebalance
  <2>1. pc' = pc /\ pc # "down"
    BY <1>6 DEF Rebalance
  <2>2. TypeOK'
    <3> USE <1>1, <1>2, <1>3, <1>4, <1>5, <2>1
    <3>1. (topic \in 0..MaxMsgs /\ committed \in 0..topic /\ queued \in 0..topic
           /\ position \in 0..topic /\ msg \in 0..topic /\ skipped \subseteq 1..topic)'
      BY DEF TypeOK
    <3>2. (pc \in {"select", "fetch", "commit", "prepare", "send", "close", "returned", "down"}
           /\ after \in {"select", "commit", "close"} /\ batch \in Seq(Msgs \ Poison)
           /\ (Len(batch) = BatchSize => pc \in {"prepare", "send"})
           /\ Len(batch) <= BatchSize
           /\ (pc \in {"prepare", "send"} => batch # << >>)
           /\ nils \subseteq Tables /\ sending \in Tables)'
      BY DEF TypeOK
    <3>3. (ctxDone \in BOOLEAN /\ tick \in BOOLEAN /\ rows \in [Tables -> [Msgs -> Nat]]
           /\ starts \in 1..MaxStarts /\ kills \in Nat /\ blind \in 0..kills
           /\ drops \in [Tables -> Nat])'
      BY DEF TypeOK
    <3> QED
      BY <3>1, <3>2, <3>3 DEF TypeOK
  <2>3. Steady'
    BY <1>1, <1>3, <2>1 DEF Steady
  <2> QED
    BY <2>2, <2>3 DEF Worker
<1>7. CASE Restart
  <2>1. pc = "down" /\ pc' = "select"
    BY <1>7 DEF Restart
  <2>2. Len(batch) # BatchSize /\ after \in {"select", "commit", "close"}
    BY <1>1, <2>1 DEF TypeOK
  <2>3. after = "close" => Len(batch) < BatchSize
    BY <1>1 DEF Steady
  <2> QED
    BY <1>2, <1>3, <1>4, <1>5, <2>1, <2>2, <2>3, MoveLemma
<1> QED
  BY <1>6, <1>7

\* AutoCommit, a tick, a signal and a message published leave the worker as it
\* is.
LEMMA Surroundings ==
    ASSUME Worker, AutoCommit \/ Tick \/ Signal \/ Publish
    PROVE  Worker'
<1>1. TypeOK /\ Steady
  BY DEF Worker
<1>2. /\ topic \in Nat /\ committed \in 0..topic /\ queued \in 0..topic /\ position \in 0..topic
      /\ msg \in 0..topic /\ MaxMsgs \in Nat /\ topic <= MaxMsgs
      /\ ctxDone \in BOOLEAN /\ tick \in BOOLEAN
      /\ starts \in 1..MaxStarts /\ skipped \subseteq 1..topic
  BY <1>1, Offsets DEF TypeOK
<1>3. /\ UNCHANGED <<rows, drops, kills, blind, batch, nils, sending, after, pc, msg, position, starts,
                     skipped>>
      /\ topic' \in Nat /\ topic <= topic' /\ topic' <= MaxMsgs
      /\ committed' \in {committed, queued} /\ queued' \in {queued, 0}
      /\ ctxDone' \in {ctxDone, TRUE} /\ tick' \in {tick, TRUE}
  <2>1. CASE AutoCommit
    BY <1>2, <2>1 DEF AutoCommit, flush, history
  <2>2. CASE Publish
    BY <1>2, <2>2 DEF Publish, reader, flush, history
  <2>3. CASE Tick \/ Signal
    <3>1. UNCHANGED <<topic, rows, drops, kills, blind, batch, nils, sending, after, pc, msg, position,
                      starts, skipped, committed, queued>>
      BY <2>3 DEF Tick, Signal, broker, reader, flush, history
    <3>2. ctxDone' \in {ctxDone, TRUE} /\ tick' \in {tick, TRUE}
      BY <2>3 DEF Tick, Signal
    <3>3. topic' \in Nat /\ topic <= topic' /\ topic' <= MaxMsgs
      BY <1>2, <3>1
    <3>4. committed' \in {committed, queued} /\ queued' \in {queued, 0}
      BY <3>1
    <3> QED
      BY <3>1, <3>2, <3>3, <3>4, Zenon
  <2> QED
    BY <2>1, <2>2, <2>3
<1>4. (topic \in 0..MaxMsgs /\ committed \in 0..topic /\ queued \in 0..topic
       /\ position \in 0..topic /\ msg \in 0..topic)'
  BY <1>2, <1>3
<1>5. (skipped \subseteq 1..topic /\ starts \in 1..MaxStarts /\ ctxDone \in BOOLEAN /\ tick \in BOOLEAN)'
  <2>1. 1..topic \subseteq 1..topic'
    BY <1>2, <1>3
  <2>2. skipped' \subseteq 1..topic'
    BY <1>2, <1>3, <2>1
  <2> QED
    BY <1>2, <1>3, <2>2
<1>6. TypeOK'
  BY <1>1, <1>3, <1>4, <1>5 DEF TypeOK
<1>7. Steady'
  BY <1>1, <1>3 DEF Steady
<1> QED
  BY <1>6, <1>7 DEF Worker

\* What a step inside flush leaves alone.
InFlush == UNCHANGED <<topic, committed, queued, position, starts, skipped, ctxDone, tick>>

\* The process ends.
LEMMA DieLemma ==
    ASSUME Worker, Die, UNCHANGED <<topic, committed, queued, position, starts, skipped, rows>>,
           ctxDone' \in BOOLEAN, tick' \in BOOLEAN, drops' \in [Tables -> Nat]
    PROVE  Worker'
<1>1. /\ pc' = "down" /\ after' = "select" /\ nils' = {} /\ sending' = 1 /\ batch' = << >> /\ msg' = 0
      /\ kills' = kills + 1 /\ blind' \in {blind, blind + 1}
  BY DEF Die, Leave
<1>2. TypeOK
  BY DEF Worker
<1>3. topic \in Nat /\ kills \in Nat /\ blind \in 0..kills
  BY <1>2, Offsets DEF TypeOK
<1>4. kills' \in Nat /\ blind' \in 0..kills' /\ msg' \in 0..topic'
  BY <1>1, <1>3
<1>5. Len(batch') = 0 /\ batch' \in Seq(Msgs \ Poison)
  BY <1>1
<1>6. BatchSize \in Nat \ {0} /\ 1 \in Tables
  BY Bounds
<1>7. TypeOK'
  <2>1. (topic \in 0..MaxMsgs /\ committed \in 0..topic /\ queued \in 0..topic
         /\ position \in 0..topic /\ skipped \subseteq 1..topic /\ starts \in 1..MaxStarts
         /\ rows \in [Tables -> [Msgs -> Nat]])'
    BY <1>2 DEF TypeOK
  <2>2. (batch \in Seq(Msgs \ Poison) /\ Len(batch) # BatchSize /\ Len(batch) <= BatchSize
         /\ nils \subseteq Tables /\ sending \in Tables)'
    BY <1>1, <1>5, <1>6
  <2> QED
    BY <1>1, <1>4, <2>1, <2>2 DEF TypeOK
<1>8. Steady'
  BY <1>1, <1>5, <1>6 DEF Steady
<1> QED
  BY <1>7, <1>8 DEF Worker

\* flush returns.
LEMMA ReturnLemma ==
    ASSUME Worker, FlushReturns, pc \in {"prepare", "send"},
           UNCHANGED <<topic, committed, queued, position, starts, skipped, ctxDone, tick, kills, blind, msg>>,
           rows' \in [Tables -> [Msgs -> Nat]], drops' \in [Tables -> Nat]
    PROVE  Worker'
<1>1. TypeOK /\ Steady
  BY DEF Worker
<1>2. /\ pc' = after /\ after \in {"select", "commit", "close"} /\ after' = "select"
      /\ nils' = {} /\ sending' = 1
      /\ batch' = IF after = "close" THEN batch ELSE << >>
  BY <1>1 DEF FlushReturns, Leave, TypeOK
<1>3. BatchSize \in Nat \ {0} /\ 1 \in Tables
  BY Bounds
<1>4. batch \in Seq(Msgs \ Poison) /\ Len(batch) \in Nat
  BY <1>1, LenProperties DEF TypeOK
<1>5. batch' \in Seq(Msgs \ Poison) /\ Len(batch') # BatchSize /\ Len(batch') <= BatchSize
  <2>1. CASE after = "close"
    BY <1>1, <1>2, <1>3, <1>4, <2>1 DEF Steady
  <2>2. CASE after # "close"
    <3>1. batch' = << >> /\ Len(batch') = 0
      BY <1>2, <2>2
    <3> QED
      BY <1>3, <3>1
  <2> QED
    BY <2>1, <2>2
<1>6. TypeOK'
  <2>1. (topic \in 0..MaxMsgs /\ committed \in 0..topic /\ queued \in 0..topic
         /\ position \in 0..topic /\ msg \in 0..topic /\ skipped \subseteq 1..topic
         /\ starts \in 1..MaxStarts /\ kills \in Nat /\ blind \in 0..kills
         /\ ctxDone \in BOOLEAN /\ tick \in BOOLEAN)'
    BY <1>1 DEF TypeOK
  <2> QED
    BY <1>2, <1>3, <1>5, <2>1 DEF TypeOK
<1>7. Steady'
  BY <1>2 DEF Steady
<1> QED
  BY <1>6, <1>7 DEF Worker

\* How often m occurs in a sequence of messages.
Count(b, m) == Cardinality({i \in DOMAIN b : b[i] = m})

LEMMA CountType ==
    ASSUME NEW S, NEW b \in Seq(S), NEW m
    PROVE  Count(b, m) \in Nat
<1>1. Len(b) \in Nat /\ DOMAIN b = 1..Len(b)
  BY LenProperties
<1>2. IsFiniteSet({i \in DOMAIN b : b[i] = m})
  <2>1. IsFiniteSet(1..Len(b))
    BY <1>1, FS_Interval
  <2>2. {i \in DOMAIN b : b[i] = m} \subseteq 1..Len(b)
    BY <1>1
  <2> QED
    BY <2>1, <2>2, FS_Subset
<1> QED
  BY <1>2, FS_CardinalityType DEF Count

LEMMA CountAppend ==
    ASSUME NEW S, NEW b \in Seq(S), NEW x \in S, NEW m
    PROVE  Count(Append(b, x), m) = Count(b, m) + (IF x = m THEN 1 ELSE 0)
<1> DEFINE N == Len(b) + 1
           Old == {i \in DOMAIN b : b[i] = m}
<1>1. Len(b) \in Nat /\ DOMAIN b = 1..Len(b)
  BY LenProperties
<1>2. /\ DOMAIN Append(b, x) = 1..N
      /\ \A i \in 1..Len(b) : Append(b, x)[i] = b[i]
      /\ Append(b, x)[N] = x
  BY <1>1, AppendProperties
<1>3. IsFiniteSet(Old) /\ N \notin Old
  <2>1. Old \subseteq 1..Len(b)
    BY <1>1
  <2>2. IsFiniteSet(1..Len(b))
    BY <1>1, FS_Interval
  <2>3. IsFiniteSet(Old)
    BY <2>1, <2>2, FS_Subset
  <2> QED
    BY <1>1, <2>1, <2>3
<1>4. CASE x = m
  <2>1. {i \in DOMAIN Append(b, x) : Append(b, x)[i] = m} = Old \cup {N}
    BY <1>1, <1>2, <1>4
  <2>2. Cardinality(Old \cup {N}) = Cardinality(Old) + 1
    BY <1>3, FS_AddElement
  <2> QED
    BY <1>4, <2>1, <2>2 DEF Count
<1>5. CASE x # m
  <2>1. {i \in DOMAIN Append(b, x) : Append(b, x)[i] = m} = Old
    BY <1>1, <1>2, <1>5
  <2>2. Cardinality(Old) \in Nat
    BY <1>3, FS_CardinalityType
  <2>3. Count(Append(b, x), m) = Cardinality(Old) /\ Count(b, m) = Cardinality(Old)
    BY <2>1 DEF Count
  <2> QED
    BY <1>5, <2>2, <2>3
<1> QED
  BY <1>4, <1>5

LEMMA CountEmpty ==
    ASSUME NEW m
    PROVE  Count(<< >>, m) = 0
<1>1. {i \in DOMAIN << >> : << >>[i] = m} = {}
  OBVIOUS
<1> QED
  BY <1>1, FS_EmptySet DEF Count

\* A message that is due to a table occurs in the batch.
LEMMA OccurrencesType ==
    ASSUME TypeOK, NEW m
    PROVE  Occurrences(m) = Count(batch, m) /\ Occurrences(m) \in Nat
<1>1. batch \in Seq(Msgs \ Poison)
  BY DEF TypeOK
<1>2. Count(batch, m) \in Nat
  BY <1>1, CountType
<1> QED
  BY <1>2 DEF Occurrences, Count

\* A fetched message joins the batch, which is flushed when it is full.
LEMMA FetchWorker ==
    ASSUME Worker, Fetch
    PROVE  Worker'
<1>1. TypeOK /\ Steady
  BY DEF Worker
<1>2. /\ topic \in Nat /\ topic <= MaxMsgs /\ MaxMsgs \in Nat /\ position \in Nat /\ position < topic
      /\ BatchSize \in Nat \ {0}
      /\ batch \in Seq(Msgs \ Poison) /\ Len(batch) \in Nat /\ Len(batch) < BatchSize
  <2>1. pc = "fetch" /\ position < topic
    BY DEF Fetch
  <2>2. batch \in Seq(Msgs \ Poison) /\ Len(batch) <= BatchSize /\ Len(batch) # BatchSize
    BY <1>1, <2>1 DEF TypeOK
  <2> QED
    BY <1>1, <2>1, <2>2, Offsets, Bounds, LenProperties
<1>3. /\ position' = position + 1 /\ msg' = position + 1
      /\ UNCHANGED <<topic, committed, queued, starts, skipped, nils, sending, ctxDone, tick, rows, kills,
                     blind, drops>>
  BY DEF Fetch, broker, history
<1>4. position' \in 0..topic' /\ msg' \in 0..topic' /\ position + 1 \in Msgs
  BY <1>2, <1>3 DEF Msgs
<1>5. sending = 1
  BY <1>1 DEF Steady, Fetch
<1>6. /\ pc' \in {"commit", "prepare"} /\ after' \in {after, "commit"}
      /\ batch' \in Seq(Msgs \ Poison)
      /\ Len(batch') = BatchSize => pc' = "prepare"
      /\ Len(batch') <= BatchSize
      /\ pc' = "prepare" => batch' # << >>
      /\ after' = "close" => Len(batch') < BatchSize
  <2>1. CASE position + 1 \in Poison
    <3>1. pc' = "commit" /\ after' = after /\ batch' = batch
      BY <1>3, <2>1 DEF Fetch
    <3> QED
      BY <1>2, <3>1
  <2>2. CASE position + 1 \notin Poison
    <3>1. batch' = Append(batch, position + 1)
      BY <1>3, <2>2 DEF Fetch
    <3>2. batch' \in Seq(Msgs \ Poison) /\ Len(batch') = Len(batch) + 1
      BY <1>2, <1>4, <2>2, <3>1, AppendProperties
    <3>3. IF Len(batch') >= BatchSize THEN pc' = "prepare" /\ after' = "commit"
                                      ELSE pc' = "commit" /\ after' = after
      BY <1>3, <2>2, <3>1 DEF Fetch, Full, Flush
    <3>4. batch' # << >>
      BY <1>2, <3>2
    <3>5. Len(batch') <= BatchSize
      BY <1>2, <3>2
    <3> QED
      BY <1>2, <3>2, <3>3, <3>4, <3>5
  <2> QED
    BY <2>1, <2>2
<1>7. TypeOK'
  <2>1. (committed \in 0..topic /\ queued \in 0..topic /\ topic \in 0..MaxMsgs /\ skipped \subseteq 1..topic
         /\ starts \in 1..MaxStarts /\ kills \in Nat /\ blind \in 0..kills
         /\ ctxDone \in BOOLEAN /\ tick \in BOOLEAN /\ nils \subseteq Tables /\ sending \in Tables
         /\ rows \in [Tables -> [Msgs -> Nat]] /\ drops \in [Tables -> Nat])'
    BY <1>1, <1>3 DEF TypeOK
  <2>2. after \in {"select", "commit", "close"}
    BY <1>1 DEF TypeOK
  <2> QED
    BY <1>4, <1>6, <2>1, <2>2 DEF TypeOK
<1>8. Steady'
  BY <1>3, <1>5, <1>6 DEF Steady
<1> QED
  BY <1>7, <1>8 DEF Worker

\* The failures of PrepareBatch.
LEMMA PrepareWorker ==
    ASSUME Worker, Prepare
    PROVE  Worker'
<1>1. TypeOK /\ Steady /\ pc = "prepare"
  BY DEF Worker, Prepare
<1>2. UNCHANGED <<topic, committed, queued, position, starts, skipped, ctxDone, tick, rows>>
  BY DEF Prepare, broker, reader
<1>3. /\ ctxDone \in BOOLEAN /\ tick \in BOOLEAN /\ rows \in [Tables -> [Msgs -> Nat]]
      /\ drops \in [Tables -> Nat]
  BY <1>1 DEF TypeOK
<1>4. PICK failed \in SUBSET Tables :
        /\ drops' = [t \in Tables |-> IF 1 \in failed THEN drops[t] + 1 ELSE drops[t]]
        /\ IF 1 \in failed
           THEN FlushReturns /\ UNCHANGED <<kills, blind, msg>>
           ELSE IF \E t \in failed : ToSet(batch) \cap Rows[t] # {}
                THEN Die
                ELSE /\ pc' = "send" /\ nils' = failed
                     /\ UNCHANGED <<after, sending, batch, kills, blind, msg>>
  BY DEF Prepare
<1>5. drops' \in [Tables -> Nat]
  BY <1>3, <1>4
<1>6. CASE 1 \in failed
  BY <1>1, <1>2, <1>3, <1>4, <1>5, <1>6, ReturnLemma
<1>7. CASE Die
  BY <1>2, <1>3, <1>5, <1>7, DieLemma
<1>8. CASE pc' = "send" /\ nils' = failed /\ UNCHANGED <<after, sending, batch, kills, blind, msg>>
  <2>1. TypeOK'
    BY <1>1, <1>2, <1>4, <1>5, <1>8 DEF TypeOK
  <2>2. Steady'
    BY <1>1, <1>8 DEF Steady
  <2> QED
    BY <2>1, <2>2 DEF Worker
<1> QED
  BY <1>4, <1>6, <1>7, <1>8

\* What one Send does to the rows of its table.
Inserted == [rows EXCEPT ![sending] = [m \in Msgs |->
                IF m \in Rows[sending] THEN @[m] + Occurrences(m) ELSE @[m]]]

LEMMA InsertedType ==
    ASSUME TypeOK
    PROVE  /\ Inserted \in [Tables -> [Msgs -> Nat]]
           /\ \A t \in Tables, m \in Msgs :
                Inserted[t][m] = IF t = sending /\ m \in Rows[t] THEN rows[t][m] + Occurrences(m)
                                                                 ELSE rows[t][m]
<1>1. rows \in [Tables -> [Msgs -> Nat]] /\ sending \in Tables
  BY DEF TypeOK
<1>2. \A m \in Msgs : Occurrences(m) \in Nat
  BY OccurrencesType
<1> DEFINE New == [m \in Msgs |-> IF m \in Rows[sending] THEN rows[sending][m] + Occurrences(m)
                                                          ELSE rows[sending][m]]
<1>3. Inserted = [rows EXCEPT ![sending] = New]
  BY DEF Inserted
<1>4. New \in [Msgs -> Nat]
  BY <1>1, <1>2
<1> QED
  BY <1>1, <1>3, <1>4

LEMMA SendWorker ==
    ASSUME Worker, SendTable
    PROVE  Worker'
<1>1. TypeOK /\ Steady /\ pc = "send"
  BY DEF Worker, SendTable
<1>2. UNCHANGED <<topic, committed, queued, position, starts, skipped, ctxDone, tick>>
  BY DEF SendTable, broker, reader
<1>3. /\ ctxDone \in BOOLEAN /\ tick \in BOOLEAN /\ rows \in [Tables -> [Msgs -> Nat]]
      /\ drops \in [Tables -> Nat] /\ sending \in Tables
  BY <1>1 DEF TypeOK
<1>4. CASE sending \in nils
  <2>1. Die /\ UNCHANGED <<rows, drops>>
    BY <1>4 DEF SendTable
  <2> QED
    BY <1>2, <1>3, <2>1, DieLemma
<1>5. CASE sending \notin nils
  <2>1. rows' \in {rows, Inserted} /\ drops' \in {drops, [drops EXCEPT ![sending] = @ + 1]}
    BY <1>5 DEF SendTable, Inserted
  <2>2. rows' \in [Tables -> [Msgs -> Nat]]
    BY <1>1, <1>3, <2>1, InsertedType
  <2>3. drops' \in [Tables -> Nat]
    BY <1>3, <2>1
  <2>4. UNCHANGED <<kills, blind, msg>>
    BY <1>5 DEF SendTable
  <2>5. CASE FlushReturns
    BY <1>1, <1>2, <2>2, <2>3, <2>4, <2>5, ReturnLemma
  <2>6. CASE sending + 1 \in Tables /\ sending' = sending + 1 /\ UNCHANGED <<pc, after, nils, batch>>
    <3>1. TypeOK'
      BY <1>1, <1>2, <2>2, <2>3, <2>4, <2>6 DEF TypeOK
    <3>2. Steady'
      BY <1>1, <2>4, <2>6 DEF Steady
    <3> QED
      BY <3>1, <3>2 DEF Worker
  <2> QED
    BY <1>5, <2>5, <2>6 DEF SendTable
<1> QED
  BY <1>4, <1>5

LEMMA WorkerInit == Init => Worker
<1> SUFFICES ASSUME Init PROVE Worker
  OBVIOUS
<1>1. TypeOK
  <2>1. batch \in Seq(Msgs \ Poison) /\ Len(batch) = 0 /\ BatchSize \in Nat \ {0}
    BY Bounds DEF Init
  <2>2. /\ pc = "select" /\ after = "select"
        /\ (topic \in 0..MaxMsgs /\ committed \in 0..topic /\ queued \in 0..topic
            /\ position \in 0..topic /\ msg \in 0..topic /\ skipped \subseteq 1..topic
            /\ starts \in 1..MaxStarts /\ kills \in Nat /\ blind \in 0..kills)
    BY Bounds DEF Init
  <2>3. /\ nils \subseteq Tables /\ sending \in Tables /\ ctxDone \in BOOLEAN /\ tick \in BOOLEAN
        /\ rows \in [Tables -> [Msgs -> Nat]] /\ drops \in [Tables -> Nat]
    BY Bounds DEF Init
  <2> QED
    BY <2>1, <2>2, <2>3 DEF TypeOK
<1>2. Steady
  BY Bounds DEF Init, Steady
<1> QED
  BY <1>1, <1>2 DEF Worker

LEMMA WorkerStep ==
    ASSUME Worker, [Next]_vars
    PROVE  Worker'
<1>1. CASE Done \/ Close \/ Ticked \/ Default \/ FetchError \/ FetchCancelled \/ Commit
  BY <1>1, RunMoves
<1>2. CASE Fetch
  BY <1>2, FetchWorker
<1>3. CASE Prepare
  BY <1>3, PrepareWorker
<1>4. CASE SendTable
  BY <1>4, SendWorker
<1>5. CASE AutoCommit \/ Tick \/ Signal \/ Publish
  BY <1>5, Surroundings
<1>6. CASE Rebalance \/ Restart
  BY <1>6, RebalanceRestart
<1>7. CASE Exit \/ Crash
  <2>1. /\ Die /\ UNCHANGED <<topic, committed, queued, position, starts, skipped, rows, drops, ctxDone, tick>>
    BY <1>7 DEF Exit, Crash, broker, reader
  <2>2. ctxDone \in BOOLEAN /\ tick \in BOOLEAN /\ drops \in [Tables -> Nat]
    BY DEF Worker, TypeOK
  <2> QED
    BY <2>1, <2>2, DieLemma
<1>8. CASE UNCHANGED vars
  BY <1>8 DEF vars, broker, reader, flush, history, Worker, TypeOK, Steady
<1> QED
  BY <1>1, <1>2, <1>3, <1>4, <1>5, <1>6, <1>7, <1>8 DEF Next, Run, Environment

(***************************************************************************)
(* Type correctness: the offsets stay within the topic, a batch that is    *)
(* flushed is not empty, and a batch is full only while it is flushed.     *)
(***************************************************************************)
THEOREM TypeCorrect == Spec => []TypeOK
<1>1. Init => Worker
  BY WorkerInit
<1>2. Worker /\ [Next]_vars => Worker'
  BY WorkerStep
<1>3. Worker => TypeOK
  BY DEF Worker
<1> QED
  BY <1>1, <1>2, <1>3, PTL DEF Spec

----------------------------------------------------------------------------
(* Once is inductive. *)

\* What is due, from the batch.
LEMMA DueFacts ==
    ASSUME TypeOK, NEW t, NEW m
    PROVE  /\ Due(t, m) \in Nat /\ Count(batch, m) \in Nat
           /\ Due(t, m) \in {0, Count(batch, m)}
           /\ batch = << >> \/ pc \in {"close", "returned"} => Due(t, m) = 0
           /\ (pc = "send" /\ t < sending) => Due(t, m) = 0
           /\ pc \notin {"send", "close", "returned"} => Due(t, m) = Count(batch, m)
           /\ (pc = "send" /\ ~(t < sending)) => Due(t, m) = Count(batch, m)
<1>1. Occurrences(m) = Count(batch, m) /\ Occurrences(m) \in Nat
  BY OccurrencesType
<1>2. batch = << >> => Count(batch, m) = 0
  BY CountEmpty
<1> QED
  BY <1>1, <1>2 DEF Due

LEMMA DueFactsNext ==
    ASSUME TypeOK', NEW t, NEW m
    PROVE  /\ Due(t, m)' \in Nat /\ Count(batch', m) \in Nat
           /\ Due(t, m)' \in {0, Count(batch', m)}
           /\ batch' = << >> \/ pc' \in {"close", "returned"} => Due(t, m)' = 0
           /\ (pc' = "send" /\ t < sending') => Due(t, m)' = 0
<1>1. batch' \in Seq(Msgs \ Poison)
  BY DEF TypeOK
<1>2. Count(batch', m) \in Nat
  BY <1>1, CountType
<1>3. Occurrences(m)' = Count(batch', m)
  BY DEF Occurrences, Count
<1>4. batch' = << >> => Count(batch', m) = 0
  BY CountEmpty
<1> QED
  BY <1>2, <1>3, <1>4 DEF Due

LEMMA RowsType ==
    ASSUME TypeOK, NEW t \in Tables, NEW m \in Msgs
    PROVE  rows[t][m] \in Nat /\ starts \in Nat /\ position \in Nat /\ m \in Nat
  BY Offsets DEF TypeOK, Msgs

\* A step that inserts nothing, reads nothing and makes nothing due.
LEMMA OnceKept ==
    ASSUME TypeOK, TypeOK', Once, UNCHANGED <<rows, position, starts>>,
           \A t \in Tables, m \in Msgs : Due(t, m)' <= Due(t, m)
    PROVE  Once'
<1> SUFFICES ASSUME NEW t \in Tables, NEW m \in Msgs
             PROVE  rows'[t][m] + Due(t, m)' + (IF m > position' THEN 1 ELSE 0) <= starts'
  BY DEF Once
<1>1. rows[t][m] \in Nat /\ starts \in Nat /\ position \in Nat /\ m \in Nat
  BY RowsType
<1>2. Due(t, m) \in Nat
  BY DueFacts
<1>3. Due(t, m)' \in Nat
  BY DueFactsNext
<1>4. Due(t, m)' <= Due(t, m)
  OBVIOUS
<1>5. rows[t][m] + Due(t, m) + (IF m > position THEN 1 ELSE 0) <= starts
  BY DEF Once
<1>6. rows'[t][m] = rows[t][m] /\ position' = position /\ starts' = starts
  OBVIOUS
<1> HIDE DEF Due
<1> QED
  BY <1>1, <1>2, <1>3, <1>4, <1>5, <1>6

LEMMA OnceRunMoves ==
    ASSUME Worker, Worker', Once,
           \/ Done \/ Close \/ Ticked \/ Default \/ FetchError \/ FetchCancelled \/ Commit
           \/ AutoCommit \/ Tick \/ Signal \/ Publish
    PROVE  Once'
<1>1. TypeOK /\ TypeOK'
  BY DEF Worker
<1>2. UNCHANGED <<rows, position, starts, batch, sending>>
  <2>1. CASE Done \/ Close \/ Ticked \/ Default \/ FetchError \/ FetchCancelled \/ Commit
    BY <2>1 DEF Done, Close, Ticked, Default, FetchError, FetchCancelled, Commit, reader, flush, history
  <2>2. CASE AutoCommit \/ Tick \/ Signal \/ Publish
    BY <2>2 DEF AutoCommit, Tick, Signal, Publish, reader, flush, history
  <2> QED
    BY <2>1, <2>2
<1>3. \/ pc' = pc
      \/ pc \notin {"send", "close", "returned"}
      \/ pc' \in {"close", "returned"}
  BY DEF Done, Close, Ticked, Default, FetchError, FetchCancelled, Commit, AutoCommit, Tick, Signal, Publish,
         flush, history
<1>4. \A t \in Tables, m \in Msgs : Due(t, m)' <= Due(t, m)
  <2> TAKE t \in Tables, m \in Msgs
  <2>1. Count(batch', m) = Count(batch, m)
    BY <1>2
  <2>2. CASE pc' = pc
    <3>1. Due(t, m)' = Due(t, m)
      BY <1>2, <2>2 DEF Due, Occurrences
    <3>2. Due(t, m) \in Nat
      BY <1>1, DueFacts
    <3> QED
      BY <3>1, <3>2
  <2>3. CASE pc \notin {"send", "close", "returned"}
    <3>1. Due(t, m) = Count(batch, m) /\ Count(batch, m) \in Nat
      BY <1>1, <2>3, DueFacts
    <3>2. Due(t, m)' \in {0, Count(batch', m)}
      BY <1>1, DueFactsNext
    <3> QED
      BY <2>1, <3>1, <3>2
  <2>4. CASE pc' \in {"close", "returned"}
    <3>1. Due(t, m)' = 0
      BY <1>1, <2>4, DueFactsNext
    <3>2. Due(t, m) \in Nat
      BY <1>1, DueFacts
    <3> QED
      BY <3>1, <3>2
  <2> QED
    BY <1>3, <2>2, <2>3, <2>4
<1> QED
  BY <1>1, <1>2, <1>4, OnceKept

\* When flush returns or the process ends, nothing is due any more.
LEMMA NothingDue ==
    ASSUME TypeOK', FlushReturns \/ Die, NEW t, NEW m
    PROVE  Due(t, m)' = 0
<1>1. batch' = << >> \/ pc' \in {"close", "returned"}
  BY DEF FlushReturns, Die, Leave
<1> QED
  BY <1>1, DueFactsNext

LEMMA OnceStarts ==
    ASSUME Worker, Worker', Once, Rebalance \/ Restart
    PROVE  Once'
<1>1. TypeOK /\ TypeOK'
  BY DEF Worker
<1>2. UNCHANGED <<rows, batch, sending>> /\ starts' = starts + 1
  BY DEF Rebalance, Restart, TakePosition, flush, history
<1>3. pc' = pc \/ pc = "down"
  BY DEF Rebalance, Restart
<1> SUFFICES ASSUME NEW t \in Tables, NEW m \in Msgs
             PROVE  rows'[t][m] + Due(t, m)' + (IF m > position' THEN 1 ELSE 0) <= starts'
  BY DEF Once
<1>4. rows[t][m] \in Nat /\ starts \in Nat /\ position \in Nat /\ m \in Nat
  BY <1>1, RowsType
<1>5. position' \in Nat
  <2>1. position' \in 0..topic' /\ topic' \in 0..MaxMsgs
    BY <1>1 DEF TypeOK
  <2> QED
    BY <2>1
<1>6. Due(t, m) \in Nat /\ Due(t, m)' \in Nat
  BY <1>1, DueFacts, DueFactsNext
<1>7. Due(t, m)' <= Due(t, m)
  <2>1. CASE pc' = pc
    <3>1. Due(t, m)' = Due(t, m)
      BY <1>2, <2>1 DEF Due, Occurrences
    <3> QED
      BY <1>6, <3>1
  <2>2. CASE pc = "down"
    <3>1. Due(t, m) = Count(batch, m)
      BY <1>1, <2>2, DueFacts
    <3>2. Due(t, m)' \in {0, Count(batch', m)}
      BY <1>1, DueFactsNext
    <3>3. Count(batch', m) = Count(batch, m)
      BY <1>2
    <3> QED
      BY <1>6, <3>1, <3>2, <3>3
  <2> QED
    BY <1>3, <2>1, <2>2
<1>8. rows[t][m] + Due(t, m) + (IF m > position THEN 1 ELSE 0) <= starts
  BY DEF Once
<1>9. rows'[t][m] = rows[t][m]
  BY <1>2
<1> QED
  BY <1>2, <1>4, <1>5, <1>6, <1>7, <1>8, <1>9

LEMMA OnceFetch ==
    ASSUME Worker, Worker', Once, Fetch
    PROVE  Once'
<1>1. TypeOK /\ TypeOK'
  BY DEF Worker
<1>2. UNCHANGED <<rows, starts>> /\ position' = position + 1 /\ pc = "fetch"
  BY DEF Fetch, history
<1> SUFFICES ASSUME NEW t \in Tables, NEW m \in Msgs
             PROVE  rows'[t][m] + Due(t, m)' + (IF m > position' THEN 1 ELSE 0) <= starts'
  BY DEF Once
<1>3. rows[t][m] \in Nat /\ starts \in Nat /\ position \in Nat /\ m \in Nat
  BY <1>1, RowsType
<1>4. Due(t, m) = Count(batch, m) /\ Count(batch, m) \in Nat
  BY <1>1, <1>2, DueFacts
<1>5. Due(t, m)' \in {0, Count(batch', m)} /\ Count(batch', m) \in Nat
  BY <1>1, DueFactsNext
<1>6. Count(batch', m) \in {Count(batch, m), Count(batch, m) + (IF position + 1 = m THEN 1 ELSE 0)}
  <2>1. CASE position + 1 \in Poison
    <3>1. batch' = batch
      BY <1>2, <2>1 DEF Fetch
    <3> QED
      BY <3>1
  <2>2. CASE position + 1 \notin Poison
    <3>1. batch' = Append(batch, position + 1)
      BY <1>2, <2>2 DEF Fetch
    <3>2. batch \in Seq(Nat) /\ position + 1 \in Nat
      <4>1. batch \in Seq(Msgs \ Poison)
        BY <1>1 DEF TypeOK
      <4>2. Msgs \ Poison \subseteq Nat
        BY DEF Msgs
      <4> QED
        BY <1>3, <4>1, <4>2
    <3> QED
      BY <3>1, <3>2, CountAppend
  <2> QED
    BY <2>1, <2>2
<1>7. rows[t][m] + Due(t, m) + (IF m > position THEN 1 ELSE 0) <= starts
  BY DEF Once
<1>8. rows'[t][m] = rows[t][m] /\ starts' = starts
  BY <1>2
<1> QED
  BY <1>2, <1>3, <1>4, <1>5, <1>6, <1>7, <1>8

LEMMA OncePrepare ==
    ASSUME Worker, Worker', Once, Prepare
    PROVE  Once'
<1>1. TypeOK /\ TypeOK' /\ Steady
  BY DEF Worker
<1>2. UNCHANGED <<rows, position, starts>> /\ pc = "prepare"
  BY DEF Prepare, reader
<1>3. FlushReturns \/ Die \/ (pc' = "send" /\ UNCHANGED <<sending, batch>>)
  BY DEF Prepare
<1>4. \A t \in Tables, m \in Msgs : Due(t, m)' <= Due(t, m)
  <2> TAKE t \in Tables, m \in Msgs
  <2>1. Due(t, m) = Count(batch, m) /\ Count(batch, m) \in Nat
    BY <1>1, <1>2, DueFacts
  <2>2. CASE FlushReturns \/ Die
    <3>1. Due(t, m)' = 0
      BY <1>1, <2>2, NothingDue
    <3> QED
      BY <2>1, <3>1
  <2>3. CASE UNCHANGED batch
    <3>1. Due(t, m)' \in {0, Count(batch, m)}
      BY <1>1, <2>3, DueFactsNext
    <3> QED
      BY <2>1, <3>1
  <2> QED
    BY <1>3, <2>2, <2>3
<1> QED
  BY <1>1, <1>2, <1>4, OnceKept

LEMMA OnceSend ==
    ASSUME Worker, Worker', Once, SendTable
    PROVE  Once'
<1>1. TypeOK /\ TypeOK'
  BY DEF Worker
<1>2. UNCHANGED <<position, starts>> /\ pc = "send" /\ sending \in Tables
  BY <1>1 DEF SendTable, reader, TypeOK
<1>3. /\ rows' \in {rows, Inserted}
      /\ \/ FlushReturns \/ Die
         \/ sending' = sending + 1 /\ UNCHANGED <<pc, batch>>
  BY DEF SendTable, Inserted
<1> SUFFICES ASSUME NEW t \in Tables, NEW m \in Msgs
             PROVE  rows'[t][m] + Due(t, m)' + (IF m > position' THEN 1 ELSE 0) <= starts'
  BY DEF Once
<1>4. rows[t][m] \in Nat /\ starts \in Nat /\ position \in Nat /\ m \in Nat /\ t \in Nat /\ sending \in Nat
  BY <1>1, <1>2, RowsType, Bounds
<1>5. Due(t, m) \in Nat /\ Count(batch, m) \in Nat /\ Occurrences(m) = Count(batch, m) /\ Due(t, m)' \in Nat
  BY <1>1, DueFacts, DueFactsNext, OccurrencesType
<1>6. Due(t, m)' <= Due(t, m) /\ (t = sending => Due(t, m) = Count(batch, m) /\ Due(t, m)' = 0)
  <2>1. t = sending => Due(t, m) = Count(batch, m)
    BY <1>1, <1>2, <1>4, DueFacts
  <2>2. CASE FlushReturns \/ Die
    <3>1. Due(t, m)' = 0
      BY <1>1, <2>2, NothingDue
    <3> QED
      BY <1>5, <2>1, <3>1
  <2>3. CASE sending' = sending + 1 /\ UNCHANGED <<pc, batch>>
    <3>1. CASE t < sending + 1
      <4>1. Due(t, m)' = 0
        BY <1>1, <1>2, <2>3, <3>1, DueFactsNext
      <4> QED
        BY <1>5, <2>1, <4>1
    <3>2. CASE ~(t < sending + 1)
      <4>1. ~(t < sending) /\ t # sending
        BY <1>4, <3>2
      <4>2. Due(t, m) = Count(batch, m)
        BY <1>1, <1>2, <4>1, DueFacts
      <4>3. Due(t, m)' \in {0, Count(batch, m)}
        BY <1>1, <2>3, DueFactsNext
      <4> QED
        BY <1>5, <4>1, <4>2, <4>3
    <3> QED
      BY <3>1, <3>2
  <2> QED
    BY <1>3, <2>2, <2>3
<1>7. \/ rows'[t][m] = rows[t][m]
      \/ t = sending /\ rows'[t][m] = rows[t][m] + Count(batch, m)
  <2>1. CASE rows' = rows
    BY <2>1
  <2>2. CASE rows' = Inserted
    <3>1. Inserted[t][m] = IF t = sending /\ m \in Rows[t] THEN rows[t][m] + Occurrences(m) ELSE rows[t][m]
      BY <1>1, InsertedType
    <3> QED
      BY <1>5, <2>2, <3>1
  <2> QED
    BY <1>3, <2>1, <2>2
<1>8. rows[t][m] + Due(t, m) + (IF m > position THEN 1 ELSE 0) <= starts
  BY DEF Once
<1>9. position' = position /\ starts' = starts
  BY <1>2
<1>10. CASE rows'[t][m] = rows[t][m]
  BY <1>4, <1>5, <1>6, <1>8, <1>9, <1>10
<1>11. CASE t = sending /\ rows'[t][m] = rows[t][m] + Count(batch, m)
  BY <1>4, <1>5, <1>6, <1>8, <1>9, <1>11
<1> QED
  BY <1>7, <1>10, <1>11

LEMMA OnceStep ==
    ASSUME Worker, Worker', Once, [Next]_vars
    PROVE  Once'
<1>1. TypeOK /\ TypeOK'
  BY DEF Worker
<1>2. CASE \/ Done \/ Close \/ Ticked \/ Default \/ FetchError \/ FetchCancelled \/ Commit
           \/ AutoCommit \/ Tick \/ Signal \/ Publish
  BY <1>2, OnceRunMoves
<1>3. CASE Fetch
  BY <1>3, OnceFetch
<1>4. CASE Prepare
  BY <1>4, OncePrepare
<1>5. CASE SendTable
  BY <1>5, OnceSend
<1>6. CASE Rebalance \/ Restart
  BY <1>6, OnceStarts
<1>7. CASE Exit \/ Crash
  <2>1. Die /\ UNCHANGED <<rows, position, starts>>
    BY <1>7 DEF Exit, Crash, reader
  <2>2. \A t \in Tables, m \in Msgs : Due(t, m)' <= Due(t, m)
    <3> TAKE t \in Tables, m \in Msgs
    <3>1. Due(t, m)' = 0
      BY <1>1, <2>1, NothingDue
    <3>2. Due(t, m) \in Nat
      BY <1>1, DueFacts
    <3> QED
      BY <3>1, <3>2
  <2> QED
    BY <1>1, <2>1, <2>2, OnceKept
<1>8. CASE UNCHANGED vars
  BY <1>8 DEF vars, broker, reader, flush, history, Once, Due, Occurrences
<1> QED
  BY <1>2, <1>3, <1>4, <1>5, <1>6, <1>7, <1>8 DEF Next, Run, Environment

(***************************************************************************)
(* OneInsertPerStart: only a restart or a rebalance duplicates rows.       *)
(***************************************************************************)
THEOREM OnceAStart == Spec => []OneInsertPerStart
<1>1. Init => Worker /\ Once
  <2> SUFFICES ASSUME Init PROVE Worker /\ Once
    OBVIOUS
  <2>1. Worker
    BY WorkerInit
  <2>2. Once
    <3> SUFFICES ASSUME NEW t \in Tables, NEW m \in Msgs
                 PROVE  rows[t][m] + Due(t, m) + (IF m > position THEN 1 ELSE 0) <= starts
      BY DEF Once
    <3>1. Due(t, m) = 0
      BY <2>1, DueFacts DEF Worker, Init
    <3>2. rows[t][m] = 0 /\ starts = 1
      BY DEF Init
    <3> QED
      BY <3>1, <3>2
  <2> QED
    BY <2>1, <2>2
<1>2. Worker /\ Once /\ [Next]_vars => (Worker /\ Once)'
  BY WorkerStep, OnceStep
<1>3. Worker /\ Once => OneInsertPerStart
  <2> SUFFICES ASSUME Worker, Once, NEW t \in Tables, NEW m \in Msgs
               PROVE  rows[t][m] <= starts
    BY DEF OneInsertPerStart
  <2>1. rows[t][m] \in Nat /\ starts \in Nat /\ position \in Nat /\ m \in Nat /\ Due(t, m) \in Nat
    BY RowsType, DueFacts DEF Worker
  <2>2. rows[t][m] + Due(t, m) + (IF m > position THEN 1 ELSE 0) <= starts
    BY DEF Once
  <2> QED
    BY <2>1, <2>2
<1> QED
  BY <1>1, <1>2, <1>3, PTL DEF Spec

----------------------------------------------------------------------------
(***************************************************************************)
(* Lost messages.  LossBounded is not inductive: the reader may go back    *)
(* behind messages that are lost, so they are not lost for a while, and go *)
(* on in front of them later, when an offset queued before a rebalance is  *)
(* committed.  What stays true is that the messages that may have to be    *)
(* given up are charged, each once, to a process that ended or to an       *)
(* insert that failed.                                                     *)
(***************************************************************************)

\* The reader may go on behind an offset it has not reached yet.
Behind(m) ==
    IF pc = "down" THEN m <= Passed
    ELSE m <= position \/ m <= committed \/ m <= queued \/ m <= msg

\* Messages that are not inserted unless the reader goes back to them.
Gone(t) == {m \in Rows[t] : Behind(m) /\ rows[t][m] = 0} \ (ToSet(batch) \cup skipped)

\* Messages in the batch, and nowhere else, whose offsets are committed.
Exposed(t) ==
    {m \in Rows[t] \cap ToSet(batch) :
        (m <= committed \/ m <= queued) /\ rows[t][m] = 0 /\ m \notin skipped}

Budget(t) == (BatchSize - 1) * kills + blind + BatchSize * drops[t]

\* C is what is charged for table t.  A full batch is being flushed; the
\* message that filled it is either not exposed or was charged before.
Charge(t, C) ==
    /\ Cardinality(C) <= Budget(t)
    /\ Gone(t) \subseteq C
    /\ Len(batch) = BatchSize => Cardinality(Exposed(t) \ C) <= BatchSize - 1
    /\ pc = "send" /\ t < sending =>
         \A m \in ToSet(batch) \cap Rows[t] : rows[t][m] > 0 \/ m \in C

Charged == \A t \in Tables : \E C \in SUBSET Msgs : Charge(t, C)

\* Sets of messages are finite.
LEMMA Sizes ==
    ASSUME NEW S \in SUBSET Msgs, NEW T \in SUBSET Msgs
    PROVE  /\ Cardinality(S) \in Nat /\ Cardinality(T) \in Nat
           /\ Cardinality(S \cup T) <= Cardinality(S) + Cardinality(T)
           /\ S \subseteq T => Cardinality(S) <= Cardinality(T)
<1>1. IsFiniteSet(Msgs)
  BY Bounds, FS_Interval DEF Msgs
<1>2. IsFiniteSet(S) /\ IsFiniteSet(T)
  BY <1>1, FS_Subset
<1>3. Cardinality(S) \in Nat /\ Cardinality(T) \in Nat
  BY <1>2, FS_CardinalityType
<1>4. IsFiniteSet(S \cap T)
  <2>1. S \cap T \in SUBSET S
    OBVIOUS
  <2> QED
    BY <1>2, <2>1, FS_Subset
<1>5. Cardinality(S \cap T) \in Nat
  BY <1>4, FS_CardinalityType
<1>6. Cardinality(S \cup T) = Cardinality(S) + Cardinality(T) - Cardinality(S \cap T)
  BY <1>2, FS_Union
<1>7. S \subseteq T => Cardinality(S) <= Cardinality(T)
  BY <1>2, FS_Subset
<1> QED
  BY <1>3, <1>5, <1>6, <1>7

\* The messages of a sequence are no more than its length.
LEMMA ToSetSize ==
    ASSUME NEW b \in Seq(Msgs \ Poison)
    PROVE  ToSet(b) \in SUBSET Msgs /\ Cardinality(ToSet(b)) <= Len(b) /\ Len(b) \in Nat
<1>1. Len(b) \in Nat /\ DOMAIN b = 1..Len(b) /\ b \in [1..Len(b) -> Msgs \ Poison]
  BY LenProperties
<1>2. ToSet(b) = {b[i] : i \in 1..Len(b)}
  BY <1>1 DEF ToSet
<1>3. ToSet(b) \in SUBSET Msgs
  BY <1>1, <1>2
<1>4. b \in Surjection(1..Len(b), ToSet(b))
  <2>1. b \in [1..Len(b) -> ToSet(b)]
    BY <1>1, <1>2
  <2>2. \A m \in ToSet(b) : \E i \in 1..Len(b) : b[i] = m
    BY <1>2
  <2> QED
    BY <2>1, <2>2 DEF Surjection
<1>5. IsFiniteSet(1..Len(b)) /\ Cardinality(1..Len(b)) = Len(b)
  <2>1. 1 \in Int /\ Len(b) \in Int /\ (1 > Len(b) => Len(b) = 0) /\ Len(b) - 1 + 1 = Len(b)
    BY <1>1
  <2>2. /\ IsFiniteSet(1..Len(b))
        /\ Cardinality(1..Len(b)) = IF 1 > Len(b) THEN 0 ELSE Len(b) - 1 + 1
    BY <2>1, FS_Interval
  <2> QED
    BY <2>1, <2>2
<1>6. Cardinality(ToSet(b)) <= Cardinality(1..Len(b))
  BY <1>4, <1>5, FS_Surjection
<1> QED
  BY <1>1, <1>3, <1>5, <1>6

LEMMA ToSetAppend ==
    ASSUME NEW b \in Seq(Msgs \ Poison), NEW x \in Msgs \ Poison
    PROVE  ToSet(Append(b, x)) = ToSet(b) \cup {x}
<1> DEFINE N == Len(b) + 1
<1>1. Len(b) \in Nat /\ DOMAIN b = 1..Len(b)
  BY LenProperties
<1>2. /\ DOMAIN Append(b, x) = 1..N
      /\ \A i \in 1..Len(b) : Append(b, x)[i] = b[i]
      /\ Append(b, x)[N] = x
  BY <1>1, AppendProperties
<1>3. 1..N = 1..Len(b) \cup {N} /\ N \in 1..N
  BY <1>1
<1>4. ToSet(Append(b, x)) \subseteq ToSet(b) \cup {x}
  BY <1>1, <1>2, <1>3 DEF ToSet
<1>5. ToSet(b) \cup {x} \subseteq ToSet(Append(b, x))
  BY <1>1, <1>2, <1>3 DEF ToSet
<1> QED
  BY <1>4, <1>5

\* The batch as a set.
LEMMA BatchSet ==
    ASSUME TypeOK
    PROVE  /\ ToSet(batch) \in SUBSET Msgs
           /\ Cardinality(ToSet(batch)) \in Nat
           /\ Cardinality(ToSet(batch)) <= Len(batch)
           /\ Len(batch) \in Nat /\ BatchSize \in Nat \ {0} /\ Len(batch) <= BatchSize
<1>1. batch \in Seq(Msgs \ Poison) /\ Len(batch) <= BatchSize
  BY DEF TypeOK
<1>2. ToSet(batch) \in SUBSET Msgs /\ Cardinality(ToSet(batch)) <= Len(batch) /\ Len(batch) \in Nat
  BY <1>1, ToSetSize
<1>3. Cardinality(ToSet(batch)) \in Nat
  BY <1>2, Sizes
<1> QED
  BY <1>1, <1>2, <1>3, Bounds

LEMMA ChargeSets ==
    ASSUME NEW t \in Tables
    PROVE  Gone(t) \in SUBSET Msgs /\ Exposed(t) \in SUBSET Msgs /\ Rows[t] \in SUBSET (Msgs \ Poison)
  BY Bounds DEF Gone, Exposed

\* Steps that neither read nor insert, nor end a process.
LEMMA ChargeKept ==
    ASSUME NEW t \in Tables, NEW C \in SUBSET Msgs, Charge(t, C), TypeOK,
           UNCHANGED <<batch, kills, blind>>, rows'[t] = rows[t], drops'[t] = drops[t],
           skipped \subseteq skipped',
           \A m \in Msgs : Behind(m)' => Behind(m) \/ m \in skipped',
           Len(batch) = BatchSize =>
                \A m \in Msgs : m <= committed' \/ m <= queued' => m <= committed \/ m <= queued,
           pc' = "send" /\ t < sending' => pc = "send" /\ t < sending
    PROVE  Charge(t, C)'
<1>1. Gone(t) \in SUBSET Msgs /\ Exposed(t) \in SUBSET Msgs /\ Rows[t] \in SUBSET Msgs
  BY ChargeSets
<1>2. Budget(t)' = Budget(t)
  BY DEF Budget
<1>3. Gone(t)' \subseteq Gone(t)
  BY <1>1 DEF Gone
<1>4. Len(batch') = BatchSize => Cardinality(Exposed(t)' \ C) <= BatchSize - 1
  <2> SUFFICES ASSUME Len(batch) = BatchSize
               PROVE  Cardinality(Exposed(t)' \ C) <= BatchSize - 1
    OBVIOUS
  <2>1. Exposed(t)' \subseteq Exposed(t)
    BY <1>1 DEF Exposed
  <2>2. Exposed(t)' \ C \in SUBSET Msgs /\ Exposed(t) \ C \in SUBSET Msgs
    BY <1>1, <2>1
  <2>3. Exposed(t)' \ C \subseteq Exposed(t) \ C
    BY <2>1
  <2>4. Cardinality(Exposed(t)' \ C) <= Cardinality(Exposed(t) \ C)
    BY <2>2, <2>3, Sizes
  <2>5. Cardinality(Exposed(t) \ C) <= BatchSize - 1
    BY DEF Charge
  <2>6. Cardinality(Exposed(t)' \ C) \in Nat /\ Cardinality(Exposed(t) \ C) \in Nat /\ BatchSize \in Nat
    BY <2>2, Sizes, Bounds
  <2> QED
    BY <2>4, <2>5, <2>6
<1>5. pc' = "send" /\ t < sending' =>
        \A m \in ToSet(batch') \cap Rows[t] : rows'[t][m] > 0 \/ m \in C
  BY DEF Charge
<1>6. Cardinality(C) <= Budget(t)' /\ Gone(t)' \subseteq C
  BY <1>2, <1>3 DEF Charge
<1> QED
  BY <1>4, <1>5, <1>6 DEF Charge

\* A message is numbered from 1 on; the offsets it is compared with.
LEMMA MsgsAreNumbers ==
    ASSUME TypeOK
    PROVE  /\ \A m \in Msgs : m \in Nat /\ m >= 1
           /\ committed \in Nat /\ queued \in Nat /\ position \in Nat /\ msg \in Nat /\ topic \in Nat
           /\ committed <= topic /\ queued <= topic /\ position <= topic /\ msg <= topic
  BY Offsets DEF Msgs

LEMMA ChargeMoves ==
    ASSUME Worker, NEW t \in Tables, NEW C \in SUBSET Msgs, Charge(t, C),
           \/ Done \/ Close \/ Ticked \/ Default \/ FetchError \/ FetchCancelled \/ Commit
           \/ AutoCommit \/ Tick \/ Signal \/ Publish \/ Rebalance \/ Restart
    PROVE  Charge(t, C)'
<1>1. TypeOK /\ Steady
  BY DEF Worker
<1>2. UNCHANGED <<rows, batch, kills, blind, drops, sending>>
  <2>1. CASE Done \/ Close \/ Ticked \/ Default \/ FetchError \/ FetchCancelled \/ Commit
    BY <2>1 DEF Done, Close, Ticked, Default, FetchError, FetchCancelled, Commit, reader, flush, history
  <2>2. CASE AutoCommit \/ Tick \/ Signal \/ Publish \/ Rebalance \/ Restart
    BY <2>2 DEF AutoCommit, Tick, Signal, Publish, Rebalance, Restart, reader, flush, history
  <2> QED
    BY <2>1, <2>2
<1>3. pc' = "send" => pc = "send"
  BY DEF Done, Close, Ticked, Default, FetchError, FetchCancelled, Commit, AutoCommit, Tick, Signal, Publish,
         Rebalance, Restart, Flush, flush, history
<1>4. /\ \A m \in Msgs : m \in Nat /\ m >= 1
      /\ committed \in Nat /\ queued \in Nat /\ position \in Nat /\ msg \in Nat /\ topic \in Nat
      /\ committed <= topic /\ queued <= topic /\ position <= topic /\ msg <= topic
  BY <1>1, MsgsAreNumbers
<1>5. /\ skipped \subseteq skipped'
      /\ \A m \in Msgs : Behind(m)' => Behind(m) \/ m \in skipped'
      /\ Len(batch) = BatchSize =>
           \A m \in Msgs : m <= committed' \/ m <= queued' => m <= committed \/ m <= queued
  <2>1. CASE Done \/ Ticked \/ Default \/ FetchError \/ FetchCancelled \/ Tick \/ Signal \/ Publish
    <3>1. UNCHANGED <<position, committed, queued, msg, skipped>>
      <4>1. CASE Done \/ Ticked \/ Default \/ FetchError \/ FetchCancelled
        BY <4>1 DEF Done, Ticked, Default, FetchError, FetchCancelled, broker, reader
      <4>2. CASE Tick \/ Signal \/ Publish
        BY <4>2 DEF Tick, Signal, Publish, broker, reader
      <4> QED
        BY <2>1, <4>1, <4>2
    <3>2. pc' = "down" <=> pc = "down"
      <4>1. CASE Done \/ Ticked \/ Default \/ FetchError \/ FetchCancelled
        BY <4>1 DEF Done, Ticked, Default, FetchError, FetchCancelled, Flush
      <4>2. CASE Tick \/ Signal \/ Publish
        BY <4>2 DEF Tick, Signal, Publish
      <4> QED
        BY <2>1, <4>1, <4>2
    <3> QED
      BY <3>1, <3>2 DEF Behind, Passed
  <2>2. CASE Commit
    <3>1. /\ pc = "commit" /\ pc' = "select" /\ msg' = 0
          /\ UNCHANGED <<position, committed, skipped>>
          /\ queued' \in {queued, Max({queued, msg})}
      BY <2>2 DEF Commit, broker
    <3>2. Max({queued, msg}) \in {queued, msg}
      <4>1. queued \in Int /\ msg \in Int
        BY <1>4
      <4> QED
        BY <4>1, MaxLemma
    <3>3. Len(batch) # BatchSize
      BY <1>1, <3>1 DEF TypeOK
    <3>4. \A m \in Msgs : Behind(m)' => Behind(m)
      BY <1>4, <3>1, <3>2 DEF Behind
    <3> QED
      BY <3>1, <3>3, <3>4
  <2>3. CASE AutoCommit \/ Close
    <3>1. /\ pc # "down" /\ pc' # "down" /\ committed' \in {committed, queued} /\ queued' = 0
          /\ UNCHANGED <<position, msg, skipped>>
      BY <2>3 DEF AutoCommit, Close, CommitOnLeaving
    <3>2. \A m \in Msgs : m <= committed' \/ m <= queued' => m <= committed \/ m <= queued
      BY <1>4, <3>1
    <3>3. \A m \in Msgs : Behind(m)' => Behind(m)
      BY <3>1, <3>2 DEF Behind
    <3> QED
      BY <3>1, <3>2, <3>3
  <2>4. CASE Rebalance \/ Restart
    <3>1. /\ committed' \in {committed, queued} /\ queued' = 0 /\ msg' = msg
          /\ position' = IF committed' = 0 THEN topic ELSE committed'
          /\ skipped' = IF committed' = 0 THEN skipped \cup (position + 1..topic) ELSE skipped
      BY <2>4 DEF Rebalance, Restart, CommitOnLeaving, TakePosition
    <3>2. /\ pc' # "down"
          /\ pc # "down" \/ (committed' = committed /\ msg = 0)
      BY <1>1, <2>4 DEF Rebalance, Restart, Steady
    <3>3. skipped \subseteq skipped'
      BY <3>1
    <3>4. \A m \in Msgs : m <= committed' \/ m <= queued' => m <= committed \/ m <= queued
      BY <1>4, <3>1
    <3>5. ASSUME NEW m \in Msgs, Behind(m)'
          PROVE  Behind(m) \/ m \in skipped'
      <4>1. m \in Nat /\ m >= 1
        BY <1>4
      <4>2. m <= position' \/ m <= committed' \/ m <= queued' \/ m <= msg'
        BY <3>2, <3>5 DEF Behind
      <4>3. CASE committed' = 0
        <5>1. m <= topic
          BY <1>4, <3>1, <4>1, <4>2, <4>3
        <5>2. m <= position \/ m \in skipped'
          BY <1>4, <3>1, <4>1, <4>3, <5>1
        <5>3. m <= position => Behind(m)
          <6>1. CASE pc = "down"
            <7>1. committed = 0
              BY <3>2, <4>3, <6>1
            <7> QED
              BY <6>1, <7>1 DEF Behind, Passed
          <6>2. CASE pc # "down"
            BY <6>2 DEF Behind
          <6> QED
            BY <6>1, <6>2
        <5> QED
          BY <5>2, <5>3
      <4>4. CASE committed' # 0
        <5>1. m <= committed' \/ m <= msg
          BY <1>4, <3>1, <4>1, <4>2, <4>4
        <5>2. CASE pc = "down"
          <6>1. m <= committed /\ committed > 0
            BY <1>4, <3>2, <4>1, <4>4, <5>1, <5>2
          <6> QED
            BY <5>2, <6>1 DEF Behind, Passed
        <5>3. CASE pc # "down"
          BY <3>1, <5>1, <5>3 DEF Behind
        <5> QED
          BY <5>2, <5>3
      <4> QED
        BY <4>3, <4>4
    <3> QED
      BY <3>3, <3>4, <3>5
  <2> QED
    BY <2>1, <2>2, <2>3, <2>4
<1> QED
  BY <1>1, <1>2, <1>3, <1>5, ChargeKept

LEMMA ChargeFetch ==
    ASSUME Worker, Worker', NEW t \in Tables, NEW C \in SUBSET Msgs, Charge(t, C), Fetch
    PROVE  Charge(t, C)'
<1>1. TypeOK /\ TypeOK'
  BY DEF Worker
<1> DEFINE x == position + 1
<1>2. /\ UNCHANGED <<rows, kills, blind, drops, committed, queued, skipped>>
      /\ position' = x /\ msg' = x /\ pc = "fetch" /\ pc' \in {"commit", "prepare"} /\ position < topic
  BY DEF Fetch, history, broker, Flush
<1>3. /\ \A m \in Msgs : m \in Nat /\ m >= 1
      /\ committed \in Nat /\ queued \in Nat /\ position \in Nat /\ msg \in Nat
  BY <1>1, MsgsAreNumbers
<1>4. batch \in Seq(Msgs \ Poison) /\ Len(batch) # BatchSize
  BY <1>1, <1>2 DEF TypeOK
<1>5. x \in Msgs
  BY <1>1, <1>2, Offsets DEF Msgs
<1>6. /\ x \in Poison => batch' = batch
      /\ x \notin Poison => ToSet(batch') = ToSet(batch) \cup {x} /\ Len(batch') = Len(batch) + 1
  <2>1. CASE x \in Poison
    BY <1>2, <2>1 DEF Fetch
  <2>2. CASE x \notin Poison
    <3>1. batch' = Append(batch, x)
      BY <1>2, <2>2 DEF Fetch
    <3> QED
      BY <1>4, <1>5, <2>2, <3>1, ToSetAppend, AppendProperties
  <2> QED
    BY <2>1, <2>2
<1>7. Gone(t) \in SUBSET Msgs /\ Exposed(t) \in SUBSET Msgs /\ Rows[t] \in SUBSET (Msgs \ Poison)
  BY ChargeSets
<1>8. Gone(t)' \subseteq Gone(t)
  <2> SUFFICES ASSUME NEW m \in Rows[t], Behind(m)', rows[t][m] = 0, m \notin ToSet(batch'), m \notin skipped
               PROVE  Behind(m) /\ m \notin ToSet(batch)
    BY <1>2 DEF Gone
  <2>1. m \in Msgs /\ m \notin Poison /\ m \in Nat
    BY <1>3, <1>7
  <2>2. m # x /\ m \notin ToSet(batch)
    BY <1>6, <2>1
  <2>3. m <= x \/ m <= committed \/ m <= queued
    BY <1>2 DEF Behind
  <2>4. m <= position \/ m <= committed \/ m <= queued
    BY <1>3, <2>1, <2>2, <2>3
  <2> QED
    BY <1>2, <2>2, <2>4 DEF Behind
<1>9. ASSUME Len(batch') = BatchSize
      PROVE  Cardinality(Exposed(t)' \ C) <= BatchSize - 1
  <2>1. x \notin Poison
    BY <1>4, <1>6, <1>9
  <2>2. Exposed(t)' \ C \subseteq ToSet(batch)
    <3> SUFFICES ASSUME NEW m \in Rows[t], m \in ToSet(batch'), m <= committed \/ m <= queued,
                        rows[t][m] = 0, m \notin skipped, m \notin C
                 PROVE  m \in ToSet(batch)
      BY <1>2 DEF Exposed
    <3>1. Behind(m)
      BY <1>2 DEF Behind
    <3>2. m \notin Gone(t)
      BY DEF Charge
    <3> QED
      BY <3>1, <3>2 DEF Gone
  <2>3. /\ ToSet(batch) \in SUBSET Msgs /\ Cardinality(ToSet(batch)) \in Nat
        /\ Cardinality(ToSet(batch)) <= Len(batch) /\ Len(batch) \in Nat /\ BatchSize \in Nat
    BY <1>1, BatchSet
  <2>4. Exposed(t)' \ C \in SUBSET Msgs
    BY <2>2, <2>3
  <2>5. Cardinality(Exposed(t)' \ C) <= Cardinality(ToSet(batch)) /\ Cardinality(Exposed(t)' \ C) \in Nat
    BY <2>2, <2>3, <2>4, Sizes
  <2>6. Len(batch) = BatchSize - 1
    BY <1>6, <1>9, <2>1, <2>3
  <2> QED
    BY <2>3, <2>5, <2>6
<1>10. Budget(t)' = Budget(t)
  BY <1>2 DEF Budget
<1>11. Cardinality(C) <= Budget(t)' /\ Gone(t)' \subseteq C
  BY <1>8, <1>10 DEF Charge
<1> QED
  BY <1>2, <1>9, <1>11 DEF Charge

\* A message may be charged for more.
LEMMA ChargeMore ==
    ASSUME TypeOK, NEW t \in Tables, NEW C \in SUBSET Msgs, NEW D \in SUBSET Msgs, NEW n \in Nat,
           Cardinality(C) <= Budget(t), Cardinality(D) <= n
    PROVE  Cardinality(C \cup D) <= Budget(t) + n /\ Budget(t) \in Nat
<1>1. /\ Cardinality(C) \in Nat /\ Cardinality(D) \in Nat
      /\ Cardinality(C \cup D) <= Cardinality(C) + Cardinality(D)
  BY Sizes
<1>2. Cardinality(C \cup D) \in Nat
  <2>1. C \cup D \in SUBSET Msgs
    OBVIOUS
  <2> QED
    BY <2>1, Sizes
<1>3. BatchSize \in Nat \ {0} /\ kills \in Nat /\ blind \in Nat /\ drops[t] \in Nat
  BY Bounds, Offsets DEF TypeOK
<1>4. (BatchSize - 1) * kills \in Nat /\ BatchSize * drops[t] \in Nat
  <2>1. BatchSize - 1 \in Nat /\ BatchSize \in Nat
    BY <1>3
  <2>2. \A a, b \in Nat : a * b \in Nat
    OBVIOUS
  <2> QED
    BY <1>3, <2>1, <2>2
<1>5. Budget(t) \in Nat
  <2>1. \A a, b, c \in Nat : a + b + c \in Nat
    OBVIOUS
  <2>2. (BatchSize - 1) * kills + blind + BatchSize * drops[t] \in Nat
    BY <1>3, <1>4, <2>1
  <2> QED
    BY <2>2 DEF Budget
<1> QED
  BY <1>1, <1>2, <1>5

\* A process that ends: with an offset committed, the next one goes back to
\* it, and what the batch has from before it is lost; without one, the next
\* begins at the end of the topic and the whole batch is lost.
LEMMA ChargeDie ==
    ASSUME Worker, NEW t \in Tables, NEW C \in SUBSET Msgs, Charge(t, C), Die, pc # "down",
           UNCHANGED <<committed, position, queued, skipped, rows, drops>>
    PROVE  \E E \in SUBSET Msgs : Charge(t, E)'
<1>1. TypeOK
  BY DEF Worker
<1>2. /\ pc' = "down" /\ batch' = << >> /\ kills' = kills + 1
      /\ blind' = IF committed = 0 THEN blind + 1 ELSE blind
  BY DEF Die, Leave
<1>3. /\ \A m \in Msgs : m \in Nat /\ m >= 1
      /\ committed \in Nat /\ queued \in Nat /\ position \in Nat
  BY <1>1, MsgsAreNumbers
<1>4. /\ ToSet(batch) \in SUBSET Msgs /\ Cardinality(ToSet(batch)) \in Nat
      /\ Cardinality(ToSet(batch)) <= Len(batch) /\ Len(batch) \in Nat
      /\ BatchSize \in Nat \ {0} /\ Len(batch) <= BatchSize
  BY <1>1, BatchSet
<1>5. Gone(t) \in SUBSET Msgs /\ Exposed(t) \in SUBSET Msgs /\ Rows[t] \in SUBSET Msgs
  BY ChargeSets
<1>6. Cardinality(C) <= Budget(t) /\ Gone(t) \subseteq C
  BY DEF Charge
<1>7. ToSet(batch') = {} /\ Len(batch') # BatchSize
  BY <1>2, <1>4 DEF ToSet
<1> DEFINE D == IF committed = 0 THEN ToSet(batch) ELSE Exposed(t) \ C
           n == IF committed = 0 THEN BatchSize ELSE BatchSize - 1
<1>8. D \in SUBSET Msgs /\ n \in Nat /\ Cardinality(D) <= n
  <2>1. CASE committed = 0
    BY <1>4, <2>1
  <2>2. CASE committed # 0
    <3>1. Exposed(t) \ C \in SUBSET Msgs
      BY <1>5
    <3>2. Cardinality(Exposed(t) \ C) <= BatchSize - 1
      <4>1. CASE Len(batch) = BatchSize
        BY <4>1 DEF Charge
      <4>2. CASE Len(batch) # BatchSize
        <5>1. Exposed(t) \ C \subseteq ToSet(batch)
          BY DEF Exposed
        <5>2. /\ Cardinality(Exposed(t) \ C) <= Cardinality(ToSet(batch))
              /\ Cardinality(Exposed(t) \ C) \in Nat
          BY <1>4, <3>1, <5>1, Sizes
        <5> QED
          BY <1>4, <4>2, <5>2
      <4> QED
        BY <4>1, <4>2
    <3> QED
      BY <1>4, <2>2, <3>1, <3>2
  <2> QED
    BY <2>1, <2>2
<1>9. Budget(t)' = Budget(t) + n
  <2>1. BatchSize \in Nat \ {0} /\ kills \in Nat /\ blind \in Nat /\ drops[t] \in Nat
    BY <1>1, Bounds, Offsets DEF TypeOK
  <2>2. (BatchSize - 1) * (kills + 1) = (BatchSize - 1) * kills + (BatchSize - 1)
    <3>1. \A a, b \in Nat : a * (b + 1) = a * b + a
      OBVIOUS
    <3>2. BatchSize - 1 \in Nat
      BY <2>1
    <3> QED
      BY <2>1, <3>1, <3>2
  <2>3. (BatchSize - 1) * kills \in Nat /\ BatchSize * drops[t] \in Nat
    <3>1. \A a, b \in Nat : a * b \in Nat
      OBVIOUS
    <3>2. BatchSize - 1 \in Nat
      BY <2>1
    <3> QED
      BY <2>1, <3>1, <3>2
  <2>4. Budget(t)' = (BatchSize - 1) * (kills + 1) + blind' + BatchSize * drops[t]
    BY <1>2 DEF Budget
  <2>5. \A a, b, c, d \in Nat : (a + d) + b + c = (a + b + c) + d /\ (a + d) + (b + 1) + c = (a + b + c) + (d + 1)
    OBVIOUS
  <2>6. BatchSize - 1 \in Nat /\ (BatchSize - 1) + 1 = BatchSize
    BY <2>1
  <2>7. Budget(t) = (BatchSize - 1) * kills + blind + BatchSize * drops[t]
    BY DEF Budget
  <2>8. CASE committed = 0
    <3>1. Budget(t)' = ((BatchSize - 1) * kills + (BatchSize - 1)) + (blind + 1) + BatchSize * drops[t]
      BY <1>2, <2>2, <2>4, <2>8
    <3>2. Budget(t)' = Budget(t) + ((BatchSize - 1) + 1)
      BY <2>1, <2>3, <2>5, <2>6, <2>7, <3>1
    <3> QED
      BY <2>6, <2>8, <3>2
  <2>9. CASE committed # 0
    <3>1. Budget(t)' = ((BatchSize - 1) * kills + (BatchSize - 1)) + blind + BatchSize * drops[t]
      BY <1>2, <2>2, <2>4, <2>9
    <3>2. Budget(t)' = Budget(t) + (BatchSize - 1)
      BY <2>1, <2>3, <2>5, <2>6, <2>7, <3>1
    <3> QED
      BY <2>9, <3>2
  <2> QED
    BY <2>8, <2>9
<1>10. Gone(t)' \subseteq C \cup D
  <2> SUFFICES ASSUME NEW m \in Rows[t], Behind(m)', rows[t][m] = 0, m \notin skipped, m \notin C
               PROVE  m \in D
    BY <1>7 DEF Gone
  <2>1. m \in Msgs /\ m \in Nat /\ m >= 1
    BY <1>3, <1>5
  <2>2. m <= (IF committed > 0 THEN committed ELSE position)
    BY <1>2 DEF Behind, Passed
  <2>3. Behind(m)
    BY <1>3, <2>2 DEF Behind
  <2>4. m \in ToSet(batch)
    BY <1>6, <2>3 DEF Gone
  <2>5. CASE committed # 0
    <3>1. m <= committed
      BY <1>3, <2>2, <2>5
    <3> QED
      BY <2>4, <2>5, <3>1 DEF Exposed
  <2> QED
    BY <2>4, <2>5
<1> HIDE DEF D, n
<1>11. Cardinality(C \cup D) <= Budget(t)'
  BY <1>1, <1>6, <1>8, <1>9, ChargeMore
<1>12. C \cup D \in SUBSET Msgs
  BY <1>8
<1>13. \A E \in SUBSET Msgs : Cardinality(E) <= Budget(t)' /\ Gone(t)' \subseteq E => Charge(t, E)'
  BY <1>2, <1>7 DEF Charge
<1> QED
  BY <1>10, <1>11, <1>12, <1>13

\* A flush is over for table t when each message of the batch with rows for t
\* is inserted or charged.
LEMMA ChargeSettled ==
    ASSUME Worker, NEW t \in Tables, NEW C \in SUBSET Msgs, Charge(t, C),
           NEW E \in SUBSET Msgs, C \subseteq E, Cardinality(E) <= Budget(t)',
           pc \in {"prepare", "send"},
           UNCHANGED <<committed, position, queued, skipped, msg>>,
           FlushReturns \/ (UNCHANGED <<pc, batch>>),
           \A m \in ToSet(batch) \cap Rows[t] : rows'[t][m] > 0 \/ m \in E,
           \A m \in Rows[t] : rows'[t][m] = 0 => rows[t][m] = 0
    PROVE  Charge(t, E)'
<1>1. TypeOK
  BY DEF Worker
<1>2. pc # "down" /\ pc' # "down" /\ (batch' = batch \/ batch' = << >>)
  BY <1>1 DEF FlushReturns, Leave, TypeOK
<1>3. ToSet(batch') \subseteq ToSet(batch)
  BY <1>2 DEF ToSet
<1>4. Gone(t) \subseteq C
  BY DEF Charge
<1>5. Gone(t)' \subseteq E
  <2> SUFFICES ASSUME NEW m \in Rows[t], Behind(m)', rows'[t][m] = 0, m \notin skipped
               PROVE  m \in E
    BY DEF Gone
  <2>1. Behind(m)
    BY <1>2 DEF Behind
  <2>2. CASE m \in ToSet(batch)
    BY <2>2
  <2>3. CASE m \notin ToSet(batch)
    BY <1>4, <2>1, <2>3 DEF Gone
  <2> QED
    BY <2>2, <2>3
<1>6. Cardinality(Exposed(t)' \ E) <= BatchSize - 1
  <2>1. \A m \in Exposed(t)' : m \in ToSet(batch) /\ m \in Rows[t] /\ rows'[t][m] = 0
    BY <1>3 DEF Exposed
  <2>2. Exposed(t)' \ E = {}
    BY <2>1
  <2>3. Cardinality(Exposed(t)' \ E) = 0
    BY <2>2, FS_EmptySet
  <2>4. BatchSize \in Nat \ {0}
    BY Bounds
  <2> QED
    BY <2>3, <2>4
<1>7. \A m \in ToSet(batch') \cap Rows[t] : rows'[t][m] > 0 \/ m \in E
  BY <1>3
<1> QED
  BY <1>5, <1>6, <1>7 DEF Charge

\* An insert that fails is charged with the batch.
LEMMA ChargeFail ==
    ASSUME Worker, NEW t \in Tables, NEW C \in SUBSET Msgs, Charge(t, C),
           pc \in {"prepare", "send"},
           UNCHANGED <<committed, position, queued, skipped, msg, kills, blind>>,
           rows'[t] = rows[t], drops'[t] = drops[t] + 1,
           FlushReturns \/ (UNCHANGED <<pc, batch>>)
    PROVE  \E E \in SUBSET Msgs : Charge(t, E)'
<1>1. TypeOK
  BY DEF Worker
<1>2. /\ ToSet(batch) \in SUBSET Msgs /\ Cardinality(ToSet(batch)) \in Nat
      /\ Cardinality(ToSet(batch)) <= Len(batch) /\ Len(batch) \in Nat
      /\ BatchSize \in Nat \ {0} /\ Len(batch) <= BatchSize
  BY <1>1, BatchSet
<1>3. Cardinality(ToSet(batch)) <= BatchSize
  BY <1>2
<1>4. Cardinality(C) <= Budget(t)
  BY DEF Charge
<1>5. Cardinality(C \cup ToSet(batch)) <= Budget(t) + BatchSize
  BY <1>1, <1>2, <1>3, <1>4, ChargeMore
<1>6. Budget(t)' = Budget(t) + BatchSize
  <2>1. BatchSize \in Nat \ {0} /\ kills \in Nat /\ blind \in Nat /\ drops[t] \in Nat
    BY <1>1, Bounds, Offsets DEF TypeOK
  <2>2. BatchSize * (drops[t] + 1) = BatchSize * drops[t] + BatchSize
    <3>1. \A a, b \in Nat : a * (b + 1) = a * b + a
      OBVIOUS
    <3> QED
      BY <2>1, <3>1
  <2>3. (BatchSize - 1) * kills \in Nat /\ BatchSize * drops[t] \in Nat
    <3>1. \A a, b \in Nat : a * b \in Nat
      OBVIOUS
    <3>2. BatchSize - 1 \in Nat
      BY <2>1
    <3> QED
      BY <2>1, <3>1, <3>2
  <2>4. Budget(t)' = (BatchSize - 1) * kills + blind + BatchSize * (drops[t] + 1)
    BY DEF Budget
  <2>5. \A a, b, c, d \in Nat : a + b + (c + d) = (a + b + c) + d
    OBVIOUS
  <2>6. Budget(t)' = ((BatchSize - 1) * kills + blind + BatchSize * drops[t]) + BatchSize
    BY <2>1, <2>2, <2>3, <2>4, <2>5
  <2> QED
    BY <2>6 DEF Budget
<1>7. Cardinality(C \cup ToSet(batch)) <= Budget(t)'
  BY <1>5, <1>6
<1>8. C \cup ToSet(batch) \in SUBSET Msgs
  BY <1>2
<1>9. ASSUME NEW E \in SUBSET Msgs, E = C \cup ToSet(batch)
      PROVE  Charge(t, E)'
  BY <1>7, <1>9, ChargeSettled
<1> QED
  BY <1>8, <1>9

LEMMA ChargePrepare ==
    ASSUME Worker, Worker', NEW t \in Tables, NEW C \in SUBSET Msgs, Charge(t, C), Prepare
    PROVE  \E E \in SUBSET Msgs : Charge(t, E)'
<1>1. TypeOK /\ Steady /\ pc = "prepare"
  BY DEF Worker, Prepare
<1>2. UNCHANGED <<topic, committed, queued, position, starts, skipped, rows>>
  BY DEF Prepare, broker, reader
<1>3. PICK failed \in SUBSET Tables :
        /\ drops' = [s \in Tables |-> IF 1 \in failed THEN drops[s] + 1 ELSE drops[s]]
        /\ IF 1 \in failed
           THEN FlushReturns /\ UNCHANGED <<kills, blind, msg>>
           ELSE IF \E s \in failed : ToSet(batch) \cap Rows[s] # {}
                THEN Die
                ELSE /\ pc' = "send" /\ nils' = failed
                     /\ UNCHANGED <<after, sending, batch, kills, blind, msg>>
  BY DEF Prepare
<1>4. drops \in [Tables -> Nat]
  BY <1>1 DEF TypeOK
<1>5. CASE 1 \in failed
  <2>1. drops'[t] = drops[t] + 1 /\ FlushReturns /\ UNCHANGED <<kills, blind, msg>>
    BY <1>3, <1>5
  <2> QED
    BY <1>1, <1>2, <2>1, ChargeFail
<1>6. CASE 1 \notin failed
  <2>1. drops' = drops
    BY <1>3, <1>4, <1>6
  <2>2. CASE Die
    BY <1>1, <1>2, <2>1, <2>2, ChargeDie
  <2>3. CASE pc' = "send" /\ UNCHANGED <<after, sending, batch, kills, blind, msg>>
    <3>1. ~(t < sending')
      <4>1. sending' = 1 /\ t \in Nat /\ t # 0
        BY <1>1, <2>3, ConsumerAssumption DEF Steady
      <4> QED
        BY <4>1
    <3>2. \A m \in Msgs : Behind(m)' => Behind(m)
      BY <1>1, <1>2, <2>3 DEF Behind
    <3> QED
      BY <1>1, <1>2, <2>1, <2>3, <3>1, <3>2, ChargeKept
  <2> QED
    BY <1>3, <1>6, <2>2, <2>3
<1> QED
  BY <1>5, <1>6

\* A message of the batch occurs in it.
LEMMA BatchOccurs ==
    ASSUME TypeOK, NEW m \in ToSet(batch)
    PROVE  Occurrences(m) \in Nat /\ Occurrences(m) > 0
<1>1. batch \in Seq(Msgs \ Poison)
  BY DEF TypeOK
<1>2. Len(batch) \in Nat /\ DOMAIN batch = 1..Len(batch)
  BY <1>1, LenProperties
<1> DEFINE At == {i \in DOMAIN batch : batch[i] = m}
<1>3. IsFiniteSet(At)
  <2>1. IsFiniteSet(1..Len(batch))
    BY <1>2, FS_Interval
  <2>2. At \subseteq 1..Len(batch)
    BY <1>2
  <2> QED
    BY <2>1, <2>2, FS_Subset
<1>4. At # {}
  BY DEF ToSet
<1>5. Cardinality(At) \in Nat /\ Cardinality(At) # 0
  BY <1>3, <1>4, FS_CardinalityType, FS_EmptySet
<1> QED
  BY <1>5 DEF Occurrences

LEMMA ChargeSend ==
    ASSUME Worker, Worker', NEW t \in Tables, NEW C \in SUBSET Msgs, Charge(t, C), SendTable
    PROVE  \E E \in SUBSET Msgs : Charge(t, E)'
<1>1. TypeOK /\ pc = "send" /\ sending \in Tables
  BY DEF Worker, SendTable, TypeOK
<1>2. UNCHANGED <<topic, committed, queued, position, starts, skipped>>
  BY DEF SendTable, broker, reader
<1>3. rows \in [Tables -> [Msgs -> Nat]] /\ drops \in [Tables -> Nat] /\ Rows[t] \in SUBSET Msgs
  BY <1>1, ChargeSets DEF TypeOK
<1>4. CASE sending \in nils
  <2>1. Die /\ UNCHANGED <<rows, drops>>
    BY <1>4 DEF SendTable
  <2> QED
    BY <1>1, <1>2, <2>1, ChargeDie
<1>5. CASE sending \notin nils
  <2>1. /\ \/ rows' = Inserted /\ drops' = drops
           \/ rows' = rows /\ drops' = [drops EXCEPT ![sending] = @ + 1]
        /\ UNCHANGED <<kills, blind, msg>>
    BY <1>5 DEF SendTable, Inserted
  <2>2. \/ sending + 1 \in Tables /\ sending' = sending + 1 /\ UNCHANGED <<pc, after, nils, batch>>
        \/ sending + 1 \notin Tables /\ FlushReturns
    BY <1>5 DEF SendTable
  <2>3. \A m \in Msgs : Inserted[t][m] = IF t = sending /\ m \in Rows[t] THEN rows[t][m] + Occurrences(m)
                                                                         ELSE rows[t][m]
    BY <1>1, InsertedType
  <2>4. \A m \in Msgs : rows[t][m] \in Nat /\ Occurrences(m) \in Nat
    BY <1>1, <1>3, OccurrencesType
  <2>5. \A m \in Rows[t] : rows'[t][m] = 0 => rows[t][m] = 0
    BY <1>3, <2>1, <2>3, <2>4
  <2>6. t \in Nat /\ sending \in Nat
    BY <1>1, Bounds
  <2>7. CASE t = sending /\ rows' = Inserted /\ drops' = drops
    <3>1. \A m \in ToSet(batch) \cap Rows[t] : rows'[t][m] > 0
      BY <1>1, <1>3, <2>3, <2>4, <2>7, BatchOccurs
    <3>2. Cardinality(C) <= Budget(t)'
      BY <2>1, <2>7 DEF Charge, Budget
    <3>3. Charge(t, C)'
      BY <1>1, <1>2, <2>1, <2>2, <2>5, <3>1, <3>2, ChargeSettled
    <3> QED
      BY <3>3
  <2>8. CASE t = sending /\ rows' = rows /\ drops' = [drops EXCEPT ![sending] = @ + 1]
    <3>1. rows'[t] = rows[t] /\ drops'[t] = drops[t] + 1
      BY <1>3, <2>8
    <3> QED
      BY <1>1, <1>2, <2>1, <2>2, <3>1, ChargeFail
  <2>9. CASE t # sending
    <3>1. rows'[t] = rows[t] /\ drops'[t] = drops[t]
      <4>1. Inserted[t] = rows[t]
        BY <1>1, <1>3, <2>9 DEF Inserted
      <4> QED
        BY <1>1, <1>3, <2>1, <2>9, <4>1
    <3>2. Budget(t)' = Budget(t)
      BY <2>1, <3>1 DEF Budget
    <3>3. CASE t < sending
      <4>1. \A m \in ToSet(batch) \cap Rows[t] : rows'[t][m] > 0 \/ m \in C
        BY <1>1, <3>1, <3>3 DEF Charge
      <4>2. Cardinality(C) <= Budget(t)'
        BY <3>2 DEF Charge
      <4>3. Charge(t, C)'
        BY <1>1, <1>2, <2>1, <2>2, <2>5, <4>1, <4>2, ChargeSettled
      <4> QED
        BY <4>3
    <3>4. CASE sending < t
      <4>1. sending + 1 \in Tables
        BY <1>1, <3>4, Bounds
      <4>2. sending' = sending + 1 /\ UNCHANGED <<pc, batch>>
        BY <2>2, <4>1
      <4>3. ~(t < sending')
        BY <2>6, <3>4, <4>2
      <4>4. \A m \in Msgs : Behind(m)' => Behind(m)
        BY <1>2, <2>1, <4>2 DEF Behind, Passed
      <4>5. Charge(t, C)'
        BY <1>1, <1>2, <2>1, <3>1, <4>2, <4>3, <4>4, ChargeKept
      <4> QED
        BY <4>5
    <3> QED
      BY <2>6, <2>9, <3>3, <3>4
  <2> QED
    BY <2>1, <2>7, <2>8, <2>9
<1> QED
  BY <1>4, <1>5

LEMMA ChargedStep ==
    ASSUME Worker, Worker', Charged, [Next]_vars
    PROVE  Charged'
<1> SUFFICES ASSUME NEW t \in Tables
             PROVE  \E E \in SUBSET Msgs : Charge(t, E)'
  BY DEF Charged
<1>1. PICK C \in SUBSET Msgs : Charge(t, C)
  BY DEF Charged
<1>2. CASE \/ Done \/ Close \/ Ticked \/ Default \/ FetchError \/ FetchCancelled \/ Commit
           \/ AutoCommit \/ Tick \/ Signal \/ Publish \/ Rebalance \/ Restart
  <2>1. Charge(t, C)'
    BY <1>1, <1>2, ChargeMoves
  <2> QED
    BY <2>1
<1>3. CASE Fetch
  <2>1. Charge(t, C)'
    BY <1>1, <1>3, ChargeFetch
  <2> QED
    BY <2>1
<1>4. CASE Prepare
  BY <1>1, <1>4, ChargePrepare
<1>5. CASE SendTable
  BY <1>1, <1>5, ChargeSend
<1>6. CASE Exit \/ Crash
  <2>1. Die /\ pc # "down" /\ UNCHANGED <<committed, position, queued, skipped, rows, drops>>
    BY <1>6 DEF Exit, Crash, broker, reader
  <2> QED
    BY <1>1, <2>1, ChargeDie
<1>7. CASE UNCHANGED vars
  <2>1. Charge(t, C)'
    BY <1>1, <1>7 DEF vars, broker, reader, flush, history, Charge, Budget, Gone, Exposed, Behind, Passed
  <2> QED
    BY <2>1
<1> QED
  BY <1>2, <1>3, <1>4, <1>5, <1>6, <1>7 DEF Next, Run, Environment

(***************************************************************************)
(* LossBounded: a process that ends loses less than a batch -- a whole     *)
(* batch if no offset was ever committed -- and an insert that fails loses *)
(* at most a batch, for each table.                                        *)
(***************************************************************************)
THEOREM LossesAreBounded == Spec => []LossBounded
<1>1. Init => Worker /\ Charged
  <2> SUFFICES ASSUME Init PROVE Worker /\ Charged
    OBVIOUS
  <2>1. Worker
    BY WorkerInit
  <2>2. ASSUME NEW t \in Tables
        PROVE  Charge(t, {})
    <3>1. Budget(t) \in Nat
      <4>1. Budget(t) = (BatchSize - 1) * 0 + 0 + BatchSize * 0
        BY DEF Init, Budget
      <4>2. BatchSize \in Nat \ {0}
        BY Bounds
      <4> QED
        BY <4>1, <4>2
    <3>2. Gone(t) = {}
      <4>1. \A m \in Rows[t] : m \in Nat /\ m >= 1
        BY Bounds DEF Msgs
      <4>2. \A m \in Rows[t] : ~Behind(m)
        BY <4>1 DEF Init, Behind
      <4> QED
        BY <4>2 DEF Gone
    <3>3. Cardinality({}) = 0 /\ Len(batch) = 0 /\ BatchSize # 0 /\ pc # "send"
      BY Bounds, FS_EmptySet DEF Init
    <3> QED
      BY <3>1, <3>2, <3>3 DEF Charge
  <2>3. {} \in SUBSET Msgs
    OBVIOUS
  <2> QED
    BY <2>1, <2>2, <2>3 DEF Charged
<1>2. Worker /\ Charged /\ [Next]_vars => (Worker /\ Charged)'
  BY WorkerStep, ChargedStep
<1>3. Worker /\ Charged => LossBounded
  <2> SUFFICES ASSUME Worker, Charged, NEW t \in Tables
               PROVE  Cardinality(Lost(t)) <= Budget(t)
    BY DEF LossBounded, Budget
  <2>1. PICK C \in SUBSET Msgs : Charge(t, C)
    BY DEF Charged
  <2>2. TypeOK /\ Rows[t] \in SUBSET Msgs
    BY ChargeSets DEF Worker
  <2>3. Lost(t) \subseteq Gone(t)
    BY DEF Lost, Gone, Behind, Passed
  <2>4. Lost(t) \in SUBSET Msgs /\ Lost(t) \subseteq C
    BY <2>1, <2>2, <2>3 DEF Lost, Charge
  <2>5. Cardinality(Lost(t)) <= Cardinality(C) /\ Cardinality(Lost(t)) \in Nat /\ Cardinality(C) \in Nat
    BY <2>4, Sizes
  <2>6. Cardinality(C) <= Budget(t)
    BY <2>1 DEF Charge
  <2>7. Budget(t) \in Nat
    BY <2>2, <2>5, <2>6, ChargeMore
  <2> QED
    BY <2>5, <2>6, <2>7
<1> QED
  BY <1>1, <1>2, <1>3, PTL DEF Spec

=============================================================================
