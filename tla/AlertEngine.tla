----------------------------- MODULE AlertEngine -----------------------------
(***************************************************************************)
(* The alert engine: main.go runs one pass over the enabled rules at every *)
(* tick (alerter/evaluator/evaluator.go), reads the measurements from      *)
(* ClickHouse, and keeps at most one open incident per rule in MariaDB     *)
(* (alerter/storage), notifying when one is opened and when it is closed   *)
(* (alerter/notifier).                                                     *)
(*                                                                         *)
(* The engine is one goroutine; what changes between its steps is the      *)
(* measurements, the rules, and whether the stores and the channels work.  *)
(* A rule reads one column of its target's rows over its last duration_sec *)
(* seconds: its window.                                                    *)
(***************************************************************************)
EXTENDS Integers, FiniteSets, SequencesExt

CONSTANTS
    Rules,
    Configs,     \* what the columns of alert_rules may hold, for every rule
    NoRule,
    Values,      \* the loads and response times that are measured
    Threshold,   \* the threshold of every rule
    MaxWindow,   \* bound of the model: rows of a window
    MaxChanges,  \* bound of the model: changes of measurements and rules
    MaxFaults,   \* bound of the model: failures
    Faults       \* the failures that may happen

FaultKinds == {"crash",    \* the process is killed
               "rules",    \* GetEnabledRules fails
               "query",    \* the query to ClickHouse fails
               "lookup",   \* OpenIncident fails
               "write",    \* CreateIncident or ResolveIncident fails
               "answer",   \* its answer is lost: it is done, or done later
               "stall",    \* MariaDB says nothing more: no call of its
                           \* driver has a deadline
               "send",     \* the channel refuses or times out
               "hang"}     \* a mail server accepts and then says nothing:
                           \* the SMTP exchange has no deadline

\* A row of alert_rules.  condition_type and channel are free text.
HostKinds == {"cpu_high", "memory_high"}
Channels  == {"slack", "discord", "telegram", "email"}
AlertRule ==
    [kind : HostKinds \cup {"probe_down", "probe_slow", "unknown"},
     targeted : BOOLEAN,        \* host_id or target_url is set
     channel : Channels \cup {"unknown"},
     parses : BOOLEAN]          \* channel_config is JSON of the right shape

ASSUME AlertAssumption ==
    /\ NoRule \notin Rules
    /\ Configs \subseteq [Rules -> AlertRule]
    /\ Values \subseteq Nat /\ Threshold \in Nat
    /\ MaxWindow \in Nat /\ MaxChanges \in Nat /\ MaxFaults \in Nat
    /\ Faults \subseteq FaultKinds

VARIABLES
    config,    \* the rules, as they were inserted
    enabled,   \* alert_rules.enabled
    window,    \* the readings a rule's query covers, oldest first
    open,      \* open incidents of each rule
    closed,    \* closed incidents of each rule
    inserts,   \* INSERTs given up on that MariaDB may still carry out
    updates,   \* open incidents that an UPDATE given up on may still close
    belated,   \* history: INSERTs carried out late, less incidents closed since
    alerts,    \* ALERT notifications delivered
    resolved,  \* RESOLVED notifications delivered
    pc, todo,  \* where the pass is, and the rules it has still to evaluate
    rule,      \* the rule under evaluation
    seen,      \* the window it was evaluated on
    planned,   \* history: the rules that were enabled when the pass began
    changes, faults

lost      == <<inserts, updates>>
incidents == <<open, closed, lost, belated>>
notified  == <<alerts, resolved>>
engine    == <<pc, todo, rule, seen, planned>>
world     == <<config, window, enabled, changes>>
vars      == <<incidents, notified, engine, world, faults>>

----------------------------------------------------------------------------
(* What a rule reads. *)

\* The agent's collector: a reading that fails is left at 0.
Collect == Values \cup {0}

\* The probe's checks: an answer below 500 is up, and the time it took is
\* reported whatever came back.  is_up is stored as 0 or 1.
CheckHTTP == {[up |-> IF status \in 1..499 THEN 1 ELSE 0, ms |-> v] :
                 status \in {0, 200, 404, 503}, v \in Values}   \* 0: no answer
CheckTCP  == [up : {0, 1}, ms : Values]
Check     == CheckHTTP \cup CheckTCP

\* The column a rule reads.
Readings(kind) ==
    CASE kind \in HostKinds   -> Collect
      [] kind = "probe_down"  -> {c.up : c \in Check}
      [] kind = "probe_slow"  -> {c.ms : c \in Check}
      [] OTHER                -> {}

Above(w) == FoldSeq(+, 0, w) > Threshold * Len(w)

\* AvgCPU, AvgMemory and ProbeStats, and what evaluate makes of them.
AvgCPU(w)     == Above(w)
AvgMemory(w)  == Above(w)
ProbeDown(w)  == \A i \in DOMAIN w : w[i] = 0
ProbeSlow(w)  == Above(w)

Firing(r, w) ==
    CASE config[r].kind = "cpu_high"    -> AvgCPU(w)
      [] config[r].kind = "memory_high" -> AvgMemory(w)
      [] config[r].kind = "probe_down"  -> ProbeDown(w)
      [] config[r].kind = "probe_slow"  -> ProbeSlow(w)

\* evaluate returns an error for the others, at every pass.
Evaluable(r) == config[r].kind # "unknown" /\ config[r].targeted

\* notifier.New
NewNotifier(r) == config[r].channel \in Channels /\ config[r].parses

----------------------------------------------------------------------------
Zero == [r \in Rules |-> 0]
Inc(f, r) == [f EXCEPT ![r] = @ + 1]
Dec(f, r) == [f EXCEPT ![r] = @ - 1]

Fault(kind) == kind \in Faults /\ faults < MaxFaults /\ faults' = faults + 1

Init ==
    /\ config \in Configs
    /\ enabled = [r \in Rules |-> TRUE]
    /\ window = [r \in Rules |-> <<>>]
    /\ open = Zero /\ closed = Zero /\ alerts = Zero /\ resolved = Zero
    /\ inserts = Zero /\ updates = Zero /\ belated = Zero
    /\ pc = "idle" /\ todo = {} /\ rule = NoRule /\ seen = <<>> /\ planned = {}
    /\ changes = 0 /\ faults = 0

----------------------------------------------------------------------------
(* Evaluator.Run *)

GetEnabledRules == {r \in Rules : enabled[r]}

\* Mutant: the query forgets WHERE enabled = 1.
StartPassAll ==
    /\ pc = "idle"
    /\ todo' = Rules /\ planned' = GetEnabledRules
    /\ pc' = "next"
    /\ UNCHANGED <<incidents, notified, rule, seen, world, faults>>

StartPass ==
    /\ pc = "idle"
    /\ todo' = GetEnabledRules /\ planned' = GetEnabledRules
    /\ pc' = "next"
    /\ UNCHANGED <<incidents, notified, rule, seen, world, faults>>

StartPassError ==
    /\ pc = "idle"
    /\ Fault("rules")
    /\ UNCHANGED <<incidents, notified, engine, world>>

EndPass ==
    /\ pc = "next"
    /\ todo = {}
    /\ pc' = "idle" /\ rule' = NoRule /\ seen' = <<>> /\ planned' = {}
    /\ UNCHANGED <<incidents, notified, todo, world, faults>>

----------------------------------------------------------------------------
(* evaluate *)

NextRule(r) ==
    /\ pc = "next"
    /\ r \in todo
    /\ todo' = todo \ {r}
    /\ UNCHANGED <<incidents, notified, planned, world>>

\* Mutant: the average of no rows passes for one that is not above.
EvaluateNoData(r) ==
    /\ NextRule(r)
    /\ Evaluable(r)
    /\ rule' = r /\ seen' = window[r]
    /\ pc' = "state"
    /\ UNCHANGED faults

Evaluate(r) ==
    /\ NextRule(r)
    /\ Evaluable(r) /\ window[r] # <<>>
    /\ rule' = r /\ seen' = window[r]
    /\ pc' = "state"
    /\ UNCHANGED faults

\* Mutant: the pass ends at the first rule that cannot be evaluated.
SkipEndsPass(r) ==
    /\ NextRule(r)
    /\ \/ ~Evaluable(r) /\ UNCHANGED faults
       \/ Evaluable(r) /\ window[r] = <<>> /\ UNCHANGED faults
       \/ Evaluable(r) /\ Fault("query")
    /\ pc' = "idle"
    /\ UNCHANGED <<rule, seen>>

\* The rule cannot be evaluated, there is no data, or no answer: it is left
\* as it is until the next pass.
Skip(r) ==
    /\ NextRule(r)
    /\ \/ ~Evaluable(r) /\ UNCHANGED faults
       \/ Evaluable(r) /\ window[r] = <<>> /\ UNCHANGED faults
       \/ Evaluable(r) /\ Fault("query")
    /\ UNCHANGED <<pc, rule, seen>>

----------------------------------------------------------------------------
(* handleState *)

\* Mutant: an incident is opened at every pass that finds the rule firing.
OpensTwice == Firing(rule, seen)

Opens == Firing(rule, seen) /\ open[rule] = 0
Closes == ~Firing(rule, seen) /\ open[rule] > 0

\* OpenIncident, then notifier.New.
HandleState ==
    /\ pc = "state"
    /\ pc' = IF ~NewNotifier(rule) THEN "next"
             ELSE IF Opens THEN "create" ELSE IF Closes THEN "resolve" ELSE "next"
    /\ UNCHANGED <<incidents, notified, todo, rule, seen, planned, world, faults>>

LookupError ==
    /\ pc = "state"
    /\ Fault("lookup")
    /\ pc' = "next"
    /\ UNCHANGED <<incidents, notified, todo, rule, seen, planned, world>>

\* An INSERT that the engine gives up on may still be carried out, when the
\* next pass has looked already.
InsertLost == inserts' = Inc(inserts, rule) /\ UNCHANGED <<open, closed, updates, belated>>

\* So may an UPDATE; a second one for the same incident changes nothing.
UpdateLost ==
    /\ \/ updates' = Inc(updates, rule) /\ updates[rule] < open[rule]
       \/ updates' = updates /\ updates[rule] > 0
    /\ UNCHANGED <<open, closed, inserts, belated>>

\* An open incident is closed; no UPDATE can do that again.
CloseOne(r) ==
    /\ open[r] > 0
    /\ open' = Dec(open, r) /\ closed' = Inc(closed, r)
    /\ belated' = IF belated[r] > 0 THEN Dec(belated, r) ELSE belated

\* Mutant: an incident is stored and nobody is told.
CreateSilently ==
    /\ pc = "create"
    /\ \/ open' = Inc(open, rule) /\ pc' = "next" /\ UNCHANGED faults
       \/ Fault("write") /\ UNCHANGED open /\ pc' = "next"
    /\ UNCHANGED <<closed, lost, belated, notified, todo, rule, seen, planned, world>>

CreateIncident ==
    /\ pc = "create"
    /\ \/ /\ open' = Inc(open, rule) /\ UNCHANGED <<closed, lost, belated>>
          /\ \/ pc' = "alert" /\ UNCHANGED faults
             \/ pc' = "next" /\ Fault("answer")
       \/ InsertLost /\ pc' = "next" /\ Fault("answer")
       \/ UNCHANGED incidents /\ pc' = "next" /\ Fault("write")
    /\ UNCHANGED <<notified, todo, rule, seen, planned, world>>

\* The incident that was found is closed; at "again" it already is, and the
\* UPDATE, which asks for no more than its id, succeeds.
Close ==
    \/ /\ pc = "resolve" /\ CloseOne(rule) /\ UNCHANGED inserts
       /\ \/ updates' = updates /\ updates[rule] < open[rule]
          \/ updates' = Dec(updates, rule) /\ updates[rule] > 0
    \/ pc = "again" /\ UNCHANGED incidents

\* Mutant: the notification does not wait for the incident to be closed.
ResolveBlindly ==
    /\ pc \in {"resolve", "again"}
    /\ \/ Close /\ UNCHANGED faults
       \/ Fault("write") /\ UNCHANGED incidents
    /\ pc' = "resolved"
    /\ UNCHANGED <<notified, todo, rule, seen, planned, world>>

ResolveIncident ==
    /\ pc \in {"resolve", "again"}
    /\ \/ /\ Close
          /\ \/ pc' = "resolved" /\ UNCHANGED faults
             \/ pc' = "next" /\ Fault("answer")
       \/ pc = "resolve" /\ UpdateLost /\ pc' = "next" /\ Fault("answer")
       \/ UNCHANGED incidents /\ pc' = "next" /\ Fault("write")
    /\ UNCHANGED <<notified, todo, rule, seen, planned, world>>

\* n.Send, whose error is logged, and that is all: a message is delivered,
\* though its answer may be an error, or it is not.
Send(channel) ==
    /\ pc \in {"alert", "resolved"}
    /\ config[rule].channel = channel
    /\ \/ /\ alerts' = IF pc = "alert" THEN Inc(alerts, rule) ELSE alerts
          /\ resolved' = IF pc = "resolved" THEN Inc(resolved, rule) ELSE resolved
          /\ UNCHANGED faults
       \/ Fault("send") /\ UNCHANGED notified
    /\ pc' = "next"
    /\ UNCHANGED <<incidents, todo, rule, seen, planned, world>>

\* A post to a web hook gives up after 10 seconds, and reports an answer of
\* 300 or more as an error.
SlackSend    == Send("slack")
DiscordSend  == Send("discord")
TelegramSend == Send("telegram")

\* Only the dial of the mail exchange has a limit, and what the server says
\* to the end of the message is dropped with the deferred Close.
EmailSend == Send("email")

Silence(channels) ==
    /\ pc \in {"alert", "resolved"}
    /\ config[rule].channel \in channels
    /\ Fault("hang")
    /\ pc' = "hung"
    /\ UNCHANGED <<incidents, notified, todo, rule, seen, planned, world>>

\* Mutant: the clients of the web hooks have no timeout.
HangAnywhere == Silence(Channels)

Hang == Silence({"email"})

\* MariaDB does not answer, to GetEnabledRules, OpenIncident or a write, which
\* it may still carry out.
Stall ==
    /\ \/ pc \in {"idle", "state", "create", "resolve", "again"} /\ UNCHANGED incidents
       \/ pc = "create" /\ InsertLost
       \/ pc = "resolve" /\ UpdateLost
    /\ Fault("stall")
    /\ pc' = "stalled"
    /\ UNCHANGED <<notified, todo, rule, seen, planned, world>>

----------------------------------------------------------------------------
(* The environment. *)

Crash ==
    /\ pc # "down"
    /\ Fault("crash")
    /\ pc' = "down" /\ todo' = {}
    /\ rule' = NoRule /\ seen' = <<>> /\ planned' = {}
    /\ UNCHANGED <<incidents, notified, world>>

Restart ==
    /\ pc = "down"
    /\ pc' = "idle"
    /\ UNCHANGED <<incidents, notified, todo, rule, seen, planned, world, faults>>

\* MariaDB carries out an INSERT that the engine has given up on.
LateInsert ==
    /\ \E r \in Rules :
         /\ inserts[r] > 0 /\ inserts' = Dec(inserts, r)
         /\ open' = Inc(open, r) /\ belated' = Inc(belated, r)
    /\ UNCHANGED <<closed, updates, notified, engine, world, faults>>

\* It carries out such an UPDATE, maybe of the incident just found.
LateUpdate ==
    /\ \E r \in Rules :
         /\ updates[r] > 0 /\ updates' = Dec(updates, r)
         /\ CloseOne(r)
         /\ \/ UNCHANGED pc /\ (pc = "resolve" /\ rule = r => open[r] > 1)
            \/ pc = "resolve" /\ rule = r /\ pc' = "again"
    /\ UNCHANGED <<inserts, notified, todo, rule, seen, planned, world, faults>>

LateWrite == LateInsert \/ LateUpdate

Changing ==
    /\ changes < MaxChanges
    /\ changes' = changes + 1
    /\ UNCHANGED <<config, incidents, notified, engine, faults>>

\* A row arrives; in a full window it takes the place of the oldest.
Measure ==
    /\ Changing
    /\ \E r \in Rules : \E v \in Readings(config[r].kind) :
         LET w == Append(window[r], v)
         IN window' = [window EXCEPT ![r] = IF Len(w) > MaxWindow THEN Tail(w) ELSE w]
    /\ UNCHANGED enabled

\* The oldest row of a window is older than duration_sec.
Age ==
    /\ Changing
    /\ \E r \in Rules : window[r] # <<>> /\ window' = [window EXCEPT ![r] = Tail(@)]
    /\ UNCHANGED enabled

Toggle ==
    /\ Changing
    /\ \E r \in Rules : enabled' = [enabled EXCEPT ![r] = ~@]
    /\ UNCHANGED window

Pass ==
    \/ StartPass \/ EndPass \/ HandleState
    \/ CreateIncident \/ ResolveIncident
    \/ SlackSend \/ DiscordSend \/ TelegramSend \/ EmailSend
    \/ \E r \in Rules : Evaluate(r) \/ Skip(r)

Next ==
    \/ Pass \/ StartPassError \/ LookupError \/ Hang \/ Stall
    \/ Crash \/ Restart \/ LateWrite \/ Measure \/ Age \/ Toggle

Spec == Init /\ [][Next]_vars

\* The ticker starts passes, and calls return unless a mail server or MariaDB
\* keeps silent: the web hooks' clients and ClickHouse's driver give up.
\* Nothing starts the process again when it has died, and a write that was
\* given up on need not be carried out.
FairSpec == Spec /\ WF_vars(Pass)

----------------------------------------------------------------------------
(* Properties *)

\* Type invariant.
TypeOK ==
    /\ config \in Configs
    /\ enabled \in [Rules -> BOOLEAN]
    /\ \A r \in Rules : /\ window[r] \in Seq(Readings(config[r].kind))
                        /\ Len(window[r]) <= MaxWindow
    /\ open \in [Rules -> Nat] /\ closed \in [Rules -> Nat]
    /\ inserts \in [Rules -> Nat] /\ updates \in [Rules -> Nat]
    /\ \A r \in Rules : updates[r] <= open[r]
    /\ belated \in [Rules -> Nat]
    /\ alerts \in [Rules -> Nat] /\ resolved \in [Rules -> Nat]
    /\ pc \in {"idle", "next", "state", "create", "alert", "resolve", "again",
               "resolved", "hung", "stalled", "down"}
    /\ todo \subseteq Rules /\ planned \subseteq Rules
    /\ rule \in Rules \cup {NoRule}
    /\ pc \in {"state", "create", "alert", "resolve", "again", "resolved", "hung"} =>
           rule \in Rules /\ seen \in Seq(Readings(config[rule].kind)) \ {<<>>}
    /\ pc \in {"idle", "down"} => todo = {} /\ planned = {}
    /\ changes \in 0..MaxChanges /\ faults \in 0..MaxFaults

\* A rule never has two open incidents, although nothing in the schema
\* forbids it and a write whose answer was lost is not known to the engine:
\* except that an INSERT carried out late may come after the next pass has
\* looked.  Each adds one at most, until an incident is closed.
OneOpenIncident == \A r \in Rules : open[r] <= 1 + belated[r]

\* Notifications follow incidents: never two alerts for one incident, and no
\* RESOLVED for one that is still open.
NotifiedOnce ==
    \A r \in Rules : alerts[r] <= open[r] + closed[r] /\ resolved[r] <= closed[r]

\* Nobody is told of an incident only if a call failed or the process died:
\* every incident beyond the alerts delivered has cost a fault.  (One is
\* enough, since a failed Send is not repeated: the next pass finds the
\* incident open.)
SilentOnlyByFault ==
    \A r \in Rules :
        open[r] + closed[r] - alerts[r] <= faults + IF pc = "alert" /\ rule = r THEN 1 ELSE 0

\* One reading says the condition holds; one says it does not.
Bad(r, v)  == IF config[r].kind = "probe_down" THEN v = 0 ELSE v > Threshold
SomeBad(r)  == \E i \in DOMAIN seen : Bad(r, seen[i])
SomeGood(r) == \E i \in DOMAIN seen : ~Bad(r, seen[i])

\* An incident is opened only on a reading that is beyond the threshold, and
\* closed only on one that is not: an empty window, a failed query or a
\* disabled rule neither opens nor resolves anything.  (A reading of 0 that
\* stands for a failed one counts, and so does the short time of a refused
\* check; what MariaDB does late was decided on earlier readings.)
ActsOnEvidence ==
    [][LateWrite \/ \A r \in Rules :
         /\ open'[r] > open[r] => rule = r /\ SomeBad(r)
         /\ closed'[r] > closed[r] => rule = r /\ SomeGood(r)]_vars

\* A rule that was disabled before a pass began is left alone by it: its
\* incident is neither opened nor closed and nobody is notified, so an
\* incident that is open when its rule is disabled stays open.
QuietOnceDisabled ==
    [][LateWrite \/ \A r \in Rules :
         <<open[r], closed[r], alerts[r], resolved[r]>>' #
             <<open[r], closed[r], alerts[r], resolved[r]>> => r \in planned]_vars

\* What a rule that can be evaluated and notified about shows.
Shows(r, firing) ==
    /\ enabled[r] /\ Evaluable(r) /\ NewNotifier(r)
    /\ window[r] # <<>> /\ Firing(r, window[r]) = firing

\* A condition that lasts opens an incident, and one that is over for long
\* enough closes it, whatever failed before and whatever is wrong with other
\* rules, unless the process is down, or MariaDB or a mail server keeps
\* silent: the other channels give up after 10 seconds.
IncidentFollows ==
    \A r \in Rules, firing \in BOOLEAN :
        Shows(r, firing)
            ~> \/ (open[r] > 0) = firing \/ ~Shows(r, firing)
               \/ pc \in {"down", "stalled"}
               \/ (pc = "hung" /\ config[rule].channel = "email")

============================================================================
