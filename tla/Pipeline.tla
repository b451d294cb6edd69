------------------------------ MODULE Pipeline ------------------------------
(***************************************************************************)
(* The way of a sample as the system is deployed with brokers: agents send *)
(* it until they read an OK, the API publishes it (Ingest), and the        *)
(* consumer's AgentWorker inserts it into ClickHouse (ConsumerWorker).     *)
(* The topic is all the API and the consumer share; nothing flows back, so *)
(* an OK is given before, and whatever, the consumer does.                 *)
(*                                                                         *)
(* Samples have one partition, and every one of them has disks and         *)
(* networks.  A message of the consumer is a position in the partition.    *)
(***************************************************************************)
EXTENDS Ingest

CONSTANTS
    ConsumerBatch,   \* agentBatchSize (200)
    Tables,          \* the tables looked at: 1..3, or agent_metrics only
    MaxStarts,       \* bound of the model: starts of the consumer
    MaxDrops,        \* bound of the model: inserts of the consumer that fail
    ConsumerFaults   \* the failures the consumer may meet

VARIABLES
    committed, queued, position, msg, pc, after, collected, nils, sending,
    ctxDone, tick, inserted, starts, kills, blind, drops, skipped

api      == <<enabled, up, req, rows, kafka, clients, acked, failed, faults, crashed>>
consumer == <<committed, queued, position, msg, pc, after, collected, nils, sending,
              ctxDone, tick, inserted, starts, kills, blind, drops, skipped>>

\* bangmod.agent-metrics, the topic the worker reads.
Log == topic[<<"agent", 0>>]

\* A request publishes one message, and each fault may repeat it.
MaxMsgs == MaxRequests * (1 + MaxFaults)

Worker == INSTANCE ConsumerWorker WITH
    BatchSize <- ConsumerBatch, Rows <- [t \in Tables |-> 1..MaxMsgs], Poison <- {},
    Faults <- ConsumerFaults, topic <- Len(Log), batch <- collected, rows <- inserted

\* The worker's own assumptions, and no probe node.
ASSUME PipelineAssumption ==
    /\ Partitions = 1 /\ MaxUrls = 0 /\ MaxRounds = 0
    /\ ConsumerBatch \in Nat \ {0} /\ MaxStarts \in Nat \ {0} /\ MaxDrops \in Nat
    /\ Tables \in {1..n : n \in {1, 3}}
    /\ ConsumerFaults \subseteq Worker!FaultKinds

PipelineInit == Init /\ enabled /\ Worker!Init

----------------------------------------------------------------------------
Api == Next /\ UNCHANGED consumer

WorkerRun == UNCHANGED api /\ Worker!Run

WorkerMeets == UNCHANGED api /\ Worker!Environment

PipelineNext == Api \/ WorkerRun \/ WorkerMeets

pipeline == <<api, consumer>>

PipelineSpec == PipelineInit /\ [][PipelineNext]_pipeline

\* The handlers and the goroutine of the producer run, and the consumer does
\* what ConsumerWorker assumes of it.
PipelineFairSpec ==
    /\ PipelineSpec
    /\ WF_pipeline(Producer(<<"agent", 0>>) /\ UNCHANGED consumer)
    /\ WF_pipeline(WorkerRun)
    /\ SF_pipeline(UNCHANGED api /\ Worker!Default)
    /\ SF_pipeline(UNCHANGED api /\ Worker!Fetch)

----------------------------------------------------------------------------
(* Properties *)

Sent == {s \in Samples : Item("agent", s[1], s[2]) \in acked}
Messages(s) == {k \in DOMAIN Log : Log[k].item = Item("agent", s[1], s[2])}
Copies(s, t) == FoldFunctionOnSet(+, 0, inserted[t], Messages(s))

\* A sample that is in no table yet may still get there.
Coming(s) ==
    \/ InMemory(Item("agent", s[1], s[2]))
    \/ \E k \in Messages(s) : k > Worker!Passed \/ k \in Range(collected)

\* What became of a sample that an agent has dropped because of its OK: it
\* has its row in each table, or is on its way, unless the API lost it from
\* memory, the producer dropped it, the consumer lost it with a batch (one
\* for each time it ended and each insert that failed), or began behind it.
EndToEndLoss ==
    \A t \in Tables :
        LET missing == {s \in Sent : Copies(s, t) = 0 /\ ~Coming(s)}
        IN  crashed \/ Cardinality(missing) <=
                           failed + Cardinality(skipped)
                               + (ConsumerBatch - 1) * kills + blind + ConsumerBatch * drops[t]

\* Rows of a sample are due to the agent that sent it again (after a timeout
\* it cannot know whether the API had it), to the broker's acknowledgements
\* that were lost, and to the consumer that began again, and multiply.
EndToEndCopies ==
    \A s \in Samples, t \in Tables :
        Copies(s, t) <= sends[s] * (1 + lostAcks) * starts

\* A sample that was answered with OK is read by the consumer, however few
\* follow it, unless one of the two processes ended or the write failed.
AckedIsRead ==
    \A s \in Samples :
        s \in Sent ~> \/ \E k \in Messages(s) : k <= position
                      \/ crashed \/ failed > 0 \/ ctxDone \/ kills > 0

============================================================================
