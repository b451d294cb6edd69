-------------------------- MODULE MCConsumerWorker --------------------------
(* Values of the constants that a configuration cannot write down. *)
EXTENDS ConsumerWorker

\* agent_metrics, disk_metrics, net_metrics; message 1 reports no disk and
\* message 3 no network interface.
AgentTables == 1..3
AgentRows == [t \in 1..3 |-> CASE t = 1 -> Msgs \ Poison
                               [] t = 2 -> Msgs \ (Poison \cup {1})
                               [] t = 3 -> Msgs \ (Poison \cup {3})]

\* probe_results.
ProbeTables == 1..1
ProbeRows == [t \in 1..1 |-> Msgs \ Poison]

============================================================================
