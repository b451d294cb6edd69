--------------------------- MODULE ConsumerWorker ---------------------------
(***************************************************************************)
(* A worker of the consumer: AgentWorker (consumer/worker/agent.go) reads  *)
(* bangmod.agent-metrics and inserts batches into the ClickHouse tables    *)
(* agent_metrics, disk_metrics and net_metrics; ProbeWorker (probe.go) is  *)
(* the same loop with one table.                                           *)
(*                                                                         *)
(* The worker is one goroutine.  It meets the broker, the auto-commit      *)
(* goroutine of the Kafka reader, ClickHouse, its ticker, and main.go,     *)
(* which cancels the context on a signal and exits without waiting.        *)
(*                                                                         *)
(* Messages are their positions 1, 2, ... in one partition of the topic.   *)
(***************************************************************************)
EXTENDS Integers, Sequences, FiniteSets, SequencesExt, FiniteSetsExt, Functions

CONSTANTS
    BatchSize,   \* 200 for agent metrics, 100 for probe results
    Tables,      \* 1..3 for agent metrics, 1..1 for probe results, in the
                 \* order flush prepares and sends them
    Rows,        \* [Tables -> sets of messages with rows for that table]
    Poison,      \* messages that do not unmarshal
    MaxMsgs,     \* bound of the model: messages ever published
    MaxStarts,   \* bound of the model: process starts and rebalances
    MaxDrops,    \* bound of the model: inserts that fail, over all tables
    Faults       \* the failures the environment may produce

FaultKinds == {"crash",      \* the process is killed
               "rebalance",  \* the group resumes from the committed offset
               "fetch",      \* FetchMessage fails
               "prepare",    \* PrepareBatch fails
               "send"}       \* Send of a prepared batch fails

Msgs == 1..MaxMsgs

ASSUME ConsumerAssumption ==
    /\ BatchSize \in Nat \ {0}
    /\ {MaxMsgs, MaxDrops} \subseteq Nat /\ MaxStarts \in Nat \ {0}
    /\ Tables \in {1..n : n \in {1, 3}}
    /\ Poison \subseteq Msgs
    /\ Rows \in [Tables -> SUBSET (Msgs \ Poison)] /\ Rows[1] = Msgs \ Poison
    /\ Faults \subseteq FaultKinds

VARIABLES
    topic,       \* messages published so far
    committed,   \* offset committed at the broker; 0 when there is none
    queued,      \* offset the reader will auto-commit; 0 when there is none
    position,    \* the reader goes on behind this message
    msg,         \* the message last fetched
    pc,          \* where Run is; "returned": Run is over, the process is not;
                 \* "down": no process
    after,       \* where flush returns to
    batch,
    nils,        \* tables whose PrepareBatch failed: the batch is nil
    sending,     \* table to be sent next
    ctxDone,     \* the context is cancelled
    tick,        \* a tick waits in ticker.C
    rows,        \* how often each message was inserted, per table
    starts,      \* times the reader took its position from the broker
    kills,       \* processes that ended, by a signal, a panic or a kill
    blind,       \* those of them that ended before any offset was committed
    drops,       \* flushes that did not insert into a table, per table
    skipped      \* messages the reader started behind

broker  == <<topic, committed>>
reader  == <<queued, position, starts, skipped>>
flush   == <<after, nils, sending>>
history == <<rows, kills, blind, drops>>
vars    == <<broker, reader, flush, history, pc, msg, batch, ctxDone, tick>>

----------------------------------------------------------------------------
Init ==
    /\ topic = 0 /\ committed = 0 /\ queued = 0 /\ position = 0 /\ msg = 0
    /\ pc = "select" /\ after = "select"
    /\ batch = << >> /\ nils = {} /\ sending = 1
    /\ ctxDone = FALSE /\ tick = FALSE
    /\ rows = [t \in Tables |-> [m \in Msgs |-> 0]]
    /\ starts = 1 /\ kills = 0 /\ blind = 0
    /\ drops = [t \in Tables |-> 0]
    /\ skipped = {}

----------------------------------------------------------------------------
(* The Kafka reader (segmentio/kafka-go).  Without a committed offset it   *)
(* begins at the end of the topic (StartOffset: LastOffset).               *)

\* Close and a rebalance commit what is queued, if the broker lets them.
CommitOnLeaving == committed' \in {committed, IF queued > 0 THEN queued ELSE committed}

TakePosition ==
    /\ starts < MaxStarts
    /\ starts' = starts + 1
    /\ queued' = 0
    /\ position' = IF committed' = 0 THEN topic ELSE committed'
    /\ skipped' = IF committed' = 0 THEN skipped \cup (position + 1)..topic ELSE skipped

\* The auto-commit goroutine runs once a second.
AutoCommit ==
    /\ pc # "down"
    /\ queued > 0
    /\ committed' = queued
    /\ queued' = 0
    /\ UNCHANGED <<topic, position, starts, skipped, flush, history, pc, msg, batch,
                   ctxDone, tick>>

Rebalance ==
    /\ "rebalance" \in Faults
    /\ pc \notin {"down", "returned"}
    /\ CommitOnLeaving
    /\ TakePosition
    /\ UNCHANGED <<topic, flush, history, pc, msg, batch, ctxDone, tick>>

----------------------------------------------------------------------------
(* Run: the select statement. *)

Flush(return) == pc' = "prepare" /\ after' = return

\* case <-ctx.Done()
Done ==
    /\ pc = "select"
    /\ ctxDone
    /\ IF batch # << >> THEN Flush("close") ELSE pc' = "close" /\ UNCHANGED after
    /\ UNCHANGED <<broker, reader, nils, sending, batch, ctxDone, tick, history, msg>>

\* reader.Close() commits what is queued, if the broker lets it.
Close ==
    /\ pc = "close"
    /\ pc' = "returned"
    /\ CommitOnLeaving
    /\ queued' = 0
    /\ UNCHANGED <<topic, position, starts, skipped, flush, batch, ctxDone, tick, history, msg>>

\* Mutant: a batch of one message is not worth a flush.
TickedTooFew ==
    /\ pc = "select"
    /\ tick
    /\ tick' = FALSE
    /\ IF Len(batch) > 1 THEN Flush("select") ELSE UNCHANGED <<pc, after>>
    /\ UNCHANGED <<broker, reader, nils, sending, batch, ctxDone, history, msg>>

\* case <-ticker.C
Ticked ==
    /\ pc = "select"
    /\ tick
    /\ tick' = FALSE
    /\ IF batch # << >> THEN Flush("select") ELSE UNCHANGED <<pc, after>>
    /\ UNCHANGED <<broker, reader, nils, sending, batch, ctxDone, history, msg>>

\* default: nothing else was ready; FetchMessage blocks from here on.
Default ==
    /\ pc = "select"
    /\ ~ctxDone /\ ~tick
    /\ pc' = "fetch"
    /\ UNCHANGED <<broker, reader, flush, batch, ctxDone, tick, history, msg>>

----------------------------------------------------------------------------
(* Run: the default branch. *)

\* Mutant: a full batch waits for one message more.
FullTooLate(b) == Len(b) > BatchSize

Full(b) == Len(b) >= BatchSize

Fetch ==
    /\ pc = "fetch"
    /\ position < topic
    /\ position' = position + 1 /\ msg' = position + 1
    /\ IF msg' \in Poison
       THEN pc' = "commit" /\ UNCHANGED <<after, batch>>
       ELSE /\ batch' = Append(batch, msg')
            /\ IF Full(batch')
               THEN Flush("commit")
               ELSE pc' = "commit" /\ UNCHANGED after
    /\ UNCHANGED <<broker, queued, starts, skipped, nils, sending, ctxDone, tick, history>>

\* Mutant: Run gives up on the first error.
FetchErrorReturns ==
    /\ pc = "fetch"
    /\ ~ctxDone /\ "fetch" \in Faults
    /\ pc' = "returned"
    /\ UNCHANGED <<broker, reader, flush, batch, ctxDone, tick, history, msg>>

FetchError ==
    /\ pc = "fetch"
    /\ ~ctxDone /\ "fetch" \in Faults
    /\ pc' = "select"
    /\ UNCHANGED <<broker, reader, flush, batch, ctxDone, tick, history, msg>>

\* The context ends FetchMessage: Run returns, without a flush or a Close.
FetchCancelled ==
    /\ pc = "fetch"
    /\ ctxDone
    /\ pc' = "returned"
    /\ UNCHANGED <<broker, reader, flush, batch, ctxDone, tick, history, msg>>

\* CommitMessages queues the offset; it gives up when the context is done.
Commit ==
    /\ pc = "commit"
    /\ pc' = "select"
    /\ \/ queued' = Max({queued, msg})
       \/ ctxDone /\ UNCHANGED queued
    /\ msg' = 0
    /\ UNCHANGED <<broker, position, starts, skipped, flush, batch, ctxDone, tick, history>>

----------------------------------------------------------------------------
(* flush *)

\* An insert fails.
Fails(kind) == kind \in Faults /\ FoldFunction(+, 0, drops) < MaxDrops

\* The locals of flush are gone.
Leave(return) == pc' = return /\ after' = "select" /\ nils' = {} /\ sending' = 1

\* Mutant: the batch is not emptied.
FlushReturnsBatch ==
    /\ Leave(after)
    /\ UNCHANGED batch

\* The batch is emptied when flush returns, but not on the way to Close.
FlushReturns ==
    /\ Leave(after)
    /\ batch' = IF after = "close" THEN batch ELSE << >>

Die ==
    /\ Leave("down")
    /\ batch' = << >> /\ msg' = 0
    /\ kills' = kills + 1
    /\ blind' = IF committed = 0 THEN blind + 1 ELSE blind

\* PrepareBatch for every table.  Only the error of the first one is looked
\* at; rows for a nil batch are a nil dereference.
Prepare ==
    /\ pc = "prepare"
    /\ \E failed \in SUBSET (IF Fails("prepare") THEN Tables ELSE {}) :
        /\ drops' = [t \in Tables |-> IF 1 \in failed THEN drops[t] + 1 ELSE drops[t]]
        /\ IF 1 \in failed
           THEN FlushReturns /\ UNCHANGED <<kills, blind, msg>>
           ELSE IF \E t \in failed : ToSet(batch) \cap Rows[t] # {}
                THEN Die
                ELSE /\ pc' = "send" /\ nils' = failed
                     /\ UNCHANGED <<after, sending, batch, kills, blind, msg>>
    /\ UNCHANGED <<broker, reader, ctxDone, tick, rows>>

Occurrences(m) == Cardinality({i \in DOMAIN batch : batch[i] = m})

\* Send of one table's batch; an error is at most logged, a nil batch panics.
SendTable ==
    /\ pc = "send"
    /\ UNCHANGED <<broker, reader, ctxDone, tick>>
    /\ IF sending \in nils
       THEN Die /\ UNCHANGED <<rows, drops>>
       ELSE /\ \/ /\ rows' = [rows EXCEPT ![sending] = [m \in Msgs |->
                             IF m \in Rows[sending] THEN @[m] + Occurrences(m) ELSE @[m]]]
                  /\ UNCHANGED drops
               \/ /\ Fails("send")
                  /\ drops' = [drops EXCEPT ![sending] = @ + 1]
                  /\ UNCHANGED rows
            /\ IF sending + 1 \in Tables
               THEN sending' = sending + 1 /\ UNCHANGED <<pc, after, nils, batch>>
               ELSE FlushReturns
            /\ UNCHANGED <<kills, blind, msg>>

----------------------------------------------------------------------------
(* The environment. *)

\* A producer stores a batch of messages at once.
Publish ==
    /\ \E n \in (topic + 1)..MaxMsgs : topic' = n
    /\ UNCHANGED <<committed, reader, flush, pc, batch, ctxDone, tick, history, msg>>

\* The ticker drops a tick that nobody took.
Tick ==
    /\ pc \notin {"down", "returned"}
    /\ tick' = TRUE
    /\ UNCHANGED <<broker, reader, flush, pc, batch, ctxDone, history, msg>>

\* main: a signal arrives, cancel() is called ...
Signal ==
    /\ pc # "down"
    /\ starts < MaxStarts
    /\ ctxDone' = TRUE
    /\ UNCHANGED <<broker, reader, flush, pc, batch, tick, history, msg>>

\* ... and main returns, wherever the worker is.
Exit ==
    /\ pc # "down"
    /\ ctxDone
    /\ Die
    /\ UNCHANGED <<broker, reader, ctxDone, tick, rows, drops>>

Crash ==
    /\ "crash" \in Faults
    /\ pc # "down"
    /\ starts < MaxStarts
    /\ Die
    /\ UNCHANGED <<broker, reader, ctxDone, tick, rows, drops>>

Restart ==
    /\ pc = "down"
    /\ UNCHANGED committed
    /\ TakePosition
    /\ pc' = "select"
    /\ ctxDone' = FALSE /\ tick' = FALSE
    /\ UNCHANGED <<topic, flush, batch, history, msg>>

----------------------------------------------------------------------------
Run ==
    \/ Done \/ Close \/ Ticked \/ Default
    \/ Fetch \/ FetchError \/ FetchCancelled \/ Commit
    \/ Prepare \/ SendTable

\* What happens to the worker, apart from messages.
Environment ==
    AutoCommit \/ Rebalance \/ Tick \/ Signal \/ Exit \/ Crash \/ Restart

Next == Run \/ Publish \/ Environment

Spec == Init /\ [][Next]_vars

\* The goroutine is scheduled, ClickHouse answers or fails, the ticker ticks,
\* but not so fast (500 ms, 1 s) that every select finds a tick, and a fetch
\* does not fail forever while there is a message.  Nothing is assumed of
\* whoever publishes.
FairSpec ==
    /\ Spec
    /\ WF_vars(Run) /\ WF_vars(Tick)
    /\ SF_vars(Default) /\ SF_vars(Fetch)

----------------------------------------------------------------------------
(* Properties *)

\* Type invariant.  A batch on its way to a flush is not empty, and one that
\* has reached BatchSize is being flushed.
TypeOK ==
    /\ topic \in 0..MaxMsgs
    /\ committed \in 0..topic /\ queued \in 0..topic
    /\ position \in 0..topic /\ msg \in 0..topic
    /\ pc \in {"select", "fetch", "commit", "prepare", "send", "close", "returned", "down"}
    /\ after \in {"select", "commit", "close"}
    /\ batch \in Seq(Msgs \ Poison)
    /\ Len(batch) = BatchSize => pc \in {"prepare", "send"}
    /\ Len(batch) <= BatchSize
    /\ pc \in {"prepare", "send"} => batch # << >>
    /\ nils \subseteq Tables /\ sending \in Tables
    /\ ctxDone \in BOOLEAN /\ tick \in BOOLEAN
    /\ rows \in [Tables -> [Msgs -> Nat]]
    /\ starts \in 1..MaxStarts /\ kills \in Nat /\ blind \in 0..kills
    /\ drops \in [Tables -> Nat]
    /\ skipped \subseteq 1..topic

\* Messages with rows for t that were read, are in no batch and in no table,
\* and that the reader will not read again.
Passed == IF pc = "down" /\ committed > 0 THEN committed ELSE position
Lost(t) == {m \in Rows[t] : m <= Passed /\ rows[t][m] = 0} \ (ToSet(batch) \cup skipped)

\* Offsets are committed before their messages are inserted, so a process
\* that ends loses what it had read; but never a whole batch, since the offset
\* of the message that fills it is committed after the flush -- unless no
\* offset was ever committed, when the reader begins behind all of it.  An
\* insert that fails loses a batch.
LossBounded ==
    \A t \in Tables :
        Cardinality(Lost(t)) <= (BatchSize - 1) * kills + blind + BatchSize * drops[t]

\* A message is inserted at most once for each time the reader took its
\* position from the broker: only a restart or a rebalance duplicates rows.
OneInsertPerStart == \A t \in Tables : \A m \in Msgs : rows[t][m] <= starts

\* Run reads on: a message that does not unmarshal, an insert that fails and
\* a fetch that fails never block what is published behind them.
NeverStuck ==
    \A m \in Msgs :
        (m <= topic /\ position < m) ~> (position >= m \/ ctxDone \/ pc = "down")

\* A pending tick flushes the batch once another message arrives, if no
\* rebalance comes in between.
TickFlushes ==
    \A m \in Msgs, n \in 1..MaxStarts :
        (m \in ToSet(batch) /\ tick /\ position < topic /\ starts = n)
            ~> (m \notin ToSet(batch) \/ ctxDone \/ starts # n)

\* api/handler/ingest.go:95, "consumer writes to ClickHouse": what a running
\* consumer has read is inserted at some time.
ReadIsInserted ==
    \A m \in Msgs : m \in ToSet(batch) ~> (m \notin ToSet(batch) \/ ctxDone)

============================================================================
