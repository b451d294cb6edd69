------------------------------- MODULE Agent -------------------------------
(***************************************************************************)
(* The monitoring agent (agent/main.go) with its disk buffer               *)
(* (agent/wal/wal.go) and its HTTP or gRPC sender (agent/sender).          *)
(*                                                                         *)
(* Every tick runs `collect': take a sample, drain the WAL file and replay *)
(* what it held, send the fresh sample, and append to the file whatever    *)
(* could not be sent.  The agent is one goroutine: its interleavings are   *)
(* with the network, the API, the disk and the kernel that may kill it.    *)
(*                                                                         *)
(* A sample is its sequence number, which is also its age; a line of the   *)
(* WAL file is the sample it encodes.  Lines that do not decode are        *)
(* skipped by Drain, so `file' keeps the decodable ones and `tail' says in *)
(* what shape a short write left the end of the file.                      *)
(***************************************************************************)
EXTENDS Integers, Sequences, FiniteSets, SequencesExt

CONSTANTS
    MaxSamples,   \* bound of the model: number of samples ever collected
    MaxEntries,   \* wal.maxEntries (2000 in the code)
    LongSamples,  \* samples whose JSON line exceeds bufio.MaxScanTokenSize
    Faults        \* the failures the environment may produce

FaultKinds == {"mkdir",     \* wal.New fails: the process runs without a WAL
               "crash",     \* the process is killed
               "append",    \* Append writes nothing
               "torn",      \* Append writes part of the line (disk full)
               "open",      \* Drain cannot open or read the file
               "truncate"}  \* os.Truncate fails; its error is ignored

ASSUME AgentAssumption ==
    /\ MaxSamples \in Nat
    /\ MaxEntries \in Nat \ {0}
    /\ LongSamples \subseteq 1..MaxSamples
    /\ Faults \subseteq FaultKinds

Samples == 1..MaxSamples

VARIABLES
    pc,            \* where `collect' is; "down" when no process runs
    hasWAL,        \* w # nil: wal.New succeeded in this process
    clock,         \* samples collected so far; the fresh one while in a cycle
    file,          \* decodable lines of agent-wal.jsonl, in file order
    tail,          \* "closed": ends in a newline; "open": the last line is
                   \* whole but unterminated; "torn": it ends in a fragment
    tooLong,       \* the file has a line the scanner refuses
    untruncated,   \* history: a truncation failed at some time
    undrained,     \* history: Drain returned an error at some time
    replay,        \* `entries' still to be replayed, in memory
    api,           \* "up": a request is answered 200/Ok; "down": it is not
    acked,         \* samples whose Send returned nil
    lastReplayed   \* the sample last acknowledged by a replay

process == <<pc, hasWAL, clock, replay, lastReplayed>>
disk    == <<file, tail, tooLong>>
history == <<untruncated, undrained>>
vars    == <<process, disk, history, acked, api>>

InCycle == pc \in {"drain", "replay", "rebuffer", "send", "buffer"}

\* Samples the agent holds in its buffer, on disk or drained into memory.
Buffered == ToSet(file) \cup ToSet(replay)

----------------------------------------------------------------------------
(* The process starts: main, wal.New. *)

WALOutcomes == IF "mkdir" \in Faults THEN BOOLEAN ELSE {TRUE}

Init ==
    /\ pc = "idle"
    /\ hasWAL \in WALOutcomes
    /\ clock = 0
    /\ file = << >> /\ tail = "closed" /\ tooLong = FALSE
    /\ untruncated = FALSE /\ undrained = FALSE
    /\ replay = << >>
    /\ api = "up"
    /\ acked = {}
    /\ lastReplayed = 0

----------------------------------------------------------------------------
(* The sender: what a call of Send returns to the agent.  A request that   *)
(* timed out may still be stored: what the API then holds is the subject   *)
(* of Ingest.                                                              *)

\* The API takes the request in and its answer arrives in time: nil.
SendOk(s) ==
    /\ api = "up"
    /\ acked' = acked \cup {s}

\* Send returns an error: refused, unreachable, non-2xx, or timed out.
SendError == api = "down" /\ UNCHANGED acked

----------------------------------------------------------------------------
(* wal.Append: one line `<json>\n' added at the end of the file.  A line   *)
(* written after an unterminated one becomes part of it, and the two do    *)
(* not decode; fragments, or lines, glued together may pass the scanner's  *)
(* limit although none of them does.  `whole': all of the JSON was         *)
(* written; `ended': the newline was too.                                  *)

AppendLine(s, whole, ended) ==
    /\ file' = CASE tail = "closed" /\ whole -> Append(file, s)
                 [] tail = "open"            -> Front(file)
                 [] OTHER                    -> file
    /\ tail' = CASE ended                              -> "closed"
                 [] ~ended /\ whole /\ tail = "closed" -> "open"
                 [] OTHER                              -> "torn"
    /\ tooLong' \in CASE s \in LongSamples /\ whole              -> {TRUE}
                      [] s \in LongSamples \/ tail # "closed"  -> {tooLong, TRUE}
                      [] OTHER                                -> {tooLong}

AppendWAL(s) ==
    \/ AppendLine(s, TRUE, TRUE)
    \/ "torn" \in Faults /\ \E whole \in BOOLEAN : AppendLine(s, whole, FALSE)
    \/ "append" \in Faults /\ UNCHANGED disk

\* Mutant: the oldest entries are kept.
KeepOldest(entries) ==
    IF Len(entries) > MaxEntries THEN SubSeq(entries, 1, MaxEntries) ELSE entries

\* Drain keeps the newest maxEntries of the decoded entries.
Newest(entries) ==
    IF Len(entries) > MaxEntries
    THEN SubSeq(entries, Len(entries) - MaxEntries + 1, Len(entries))
    ELSE entries

----------------------------------------------------------------------------
(* collect *)

Collect ==
    /\ pc = "idle"
    /\ clock < MaxSamples
    /\ clock' = clock + 1
    /\ pc' = IF hasWAL THEN "drain" ELSE "send"
    /\ UNCHANGED <<hasWAL, replay, lastReplayed, disk, history, acked, api>>

\* Mutant: the truncation is forgotten.
DrainLeavesFile ==
    /\ pc = "drain"
    /\ ~tooLong
    /\ replay' = Newest(file)
    /\ pc' = IF file = << >> THEN "send" ELSE "replay"
    /\ UNCHANGED <<hasWAL, clock, lastReplayed, disk, history, acked, api>>

\* Drain returns its entries and truncates the file.
Drain ==
    /\ pc = "drain"
    /\ ~tooLong
    /\ replay' = Newest(file)
    /\ pc' = IF file = << >> THEN "send" ELSE "replay"
    /\ \/ file' = << >> /\ tail' = "closed" /\ UNCHANGED untruncated
       \/ "truncate" \in Faults /\ untruncated' = TRUE /\ UNCHANGED <<file, tail>>
    /\ UNCHANGED <<hasWAL, clock, lastReplayed, tooLong, undrained, acked, api>>

\* Drain returns an error, which the replay takes for an empty buffer.
DrainError ==
    /\ pc = "drain"
    /\ tooLong \/ "open" \in Faults
    /\ pc' = "send"
    /\ undrained' = TRUE
    /\ UNCHANGED <<hasWAL, clock, replay, lastReplayed, disk, untruncated, acked, api>>

\* Mutants: the newest entry first; no end of the loop.
ReplayNewestFirst ==
    /\ pc = "replay"
    /\ SendOk(Last(replay))
    /\ lastReplayed' = Last(replay)
    /\ replay' = Front(replay)
    /\ pc' = IF Len(replay) = 1 THEN "send" ELSE "replay"
    /\ UNCHANGED <<hasWAL, clock, disk, history, api>>

ReplayWithoutEnd ==
    /\ pc = "replay"
    /\ SendOk(Head(replay))
    /\ lastReplayed' = Head(replay)
    /\ replay' = Tail(replay)
    /\ UNCHANGED <<pc, hasWAL, clock, disk, history, api>>

\* Mutant: the replay returns after the first entry it sent.
ReplayReturnsEarly ==
    /\ pc = "replay"
    /\ SendOk(Head(replay))
    /\ lastReplayed' = Head(replay)
    /\ replay' = << >>
    /\ pc' = "send"
    /\ UNCHANGED <<hasWAL, clock, disk, history, api>>

Replay ==
    /\ pc = "replay"
    /\ SendOk(Head(replay))
    /\ lastReplayed' = Head(replay)
    /\ replay' = Tail(replay)
    /\ pc' = IF Len(replay) = 1 THEN "send" ELSE "replay"
    /\ UNCHANGED <<hasWAL, clock, disk, history, api>>

ReplayError ==
    /\ pc = "replay"
    /\ SendError
    /\ pc' = "rebuffer"
    /\ UNCHANGED <<hasWAL, clock, replay, lastReplayed, disk, history, api>>

\* Mutant: the entry that failed is dropped like the others.
RebufferNothing ==
    /\ pc = "rebuffer"
    /\ replay' = << >>
    /\ pc' = "send"
    /\ UNCHANGED <<hasWAL, clock, lastReplayed, disk, history, acked, api>>

\* The entry that failed is appended again; the entries behind it are not.
Rebuffer ==
    /\ pc = "rebuffer"
    /\ AppendWAL(Head(replay))
    /\ replay' = << >>
    /\ pc' = "send"
    /\ UNCHANGED <<hasWAL, clock, lastReplayed, history, acked, api>>

\* Mutant: the early return only on an error is lost, so that a sample is
\* buffered although it was sent.
SendFreshFallsThrough ==
    /\ pc = "send"
    /\ SendOk(clock)
    /\ pc' = IF hasWAL THEN "buffer" ELSE "idle"
    /\ UNCHANGED <<hasWAL, clock, replay, lastReplayed, disk, history, api>>

SendFresh ==
    /\ pc = "send"
    /\ SendOk(clock)
    /\ pc' = "idle"
    /\ UNCHANGED <<hasWAL, clock, replay, lastReplayed, disk, history, api>>

SendFreshError ==
    /\ pc = "send"
    /\ SendError
    /\ pc' = IF hasWAL THEN "buffer" ELSE "idle"
    /\ UNCHANGED <<hasWAL, clock, replay, lastReplayed, disk, history, api>>

Buffer ==
    /\ pc = "buffer"
    /\ AppendWAL(clock)
    /\ pc' = "idle"
    /\ UNCHANGED <<hasWAL, clock, replay, lastReplayed, history, acked, api>>

----------------------------------------------------------------------------
(* The environment. *)

Crash ==
    /\ "crash" \in Faults
    /\ pc # "down"
    /\ pc' = "down"
    /\ replay' = << >>
    /\ UNCHANGED <<hasWAL, clock, lastReplayed, disk, history, acked, api>>

Restart ==
    /\ pc = "down"
    /\ pc' = "idle"
    /\ hasWAL' \in WALOutcomes
    /\ UNCHANGED <<clock, replay, lastReplayed, disk, history, acked, api>>

Outage ==
    /\ api' = IF api = "up" THEN "down" ELSE "up"
    /\ UNCHANGED <<process, disk, history, acked>>

----------------------------------------------------------------------------
Cycle ==
    \/ Collect \/ Drain \/ DrainError
    \/ Replay \/ ReplayError \/ Rebuffer
    \/ SendFresh \/ SendFreshError \/ Buffer

Next == Cycle \/ Crash \/ Restart \/ Outage

Spec == Init /\ [][Next]_vars

\* The ticker keeps calling collect, and every call in it returns: Send has
\* a 10 s timeout.  Nothing is assumed of the network or the API.
FairSpec == Spec /\ WF_vars(Cycle)

----------------------------------------------------------------------------
(* Properties *)

\* Type invariant.  The replay loop runs exactly while entries remain.
TypeOK ==
    /\ pc \in {"idle", "drain", "replay", "rebuffer", "send", "buffer", "down"}
    /\ hasWAL \in BOOLEAN
    /\ clock \in 0..MaxSamples
    /\ file \in Seq(Samples)
    /\ tail \in {"closed", "open", "torn"}
    /\ tooLong \in BOOLEAN /\ untruncated \in BOOLEAN /\ undrained \in BOOLEAN
    /\ replay \in Seq(Samples)
    /\ replay # << >> <=> pc \in {"replay", "rebuffer"}
    /\ api \in {"up", "down"}
    /\ acked \subseteq Samples
    /\ lastReplayed \in 0..MaxSamples

\* Samples the agent still has to send: buffered, or the fresh one.
Held == Buffered \cup IF InCycle THEN {clock} ELSE {}

\* A sample whose Send returned nil is never sent again, whatever crashes,
\* disk errors and torn lines happen between Send, Append and Drain: Drain
\* empties the file before the first entry is replayed.
AckedNeverHeld == ~untruncated => acked \cap Held = {}

\* An outage of any length leaves at most two samples on disk, the oldest
\* and the newest one, because a failed replay puts back only the entry that
\* failed: whatever is killed, torn or not appended, maxEntries is out of
\* reach as long as no Drain and no truncation fails.
OutageKeepsTwo == ~untruncated /\ ~undrained => Len(file) <= 2

\* Buffered samples are acknowledged in the order they were collected in,
\* over all replays and restarts (wal.go: "replayed in order").
ReplayedInOrder ==
    [][Replay /\ ~untruncated => lastReplayed < lastReplayed']_vars

\* While the process lives and appends succeed, the oldest buffered sample
\* leaves the buffer only by being acknowledged.  A truncation that fails
\* duplicates samples, but loses none as long as the file, which grows by two
\* lines a cycle, was never longer than maxEntries: when a drain has cut off
\* the first copy of a sample, a replay that fails drops the second one.
NeverCut == 2 * clock <= MaxEntries \/ (~untruncated /\ Len(file) <= MaxEntries)

OldestIsKept ==
    [][ Faults \cap {"crash", "append", "torn"} = {} /\ NeverCut =>
        \A s \in Buffered \ Buffered' :
            (\A r \in Buffered : s <= r) => s \in acked' ]_vars

\* When the file has outgrown maxEntries (it could not be opened for a
\* while), a drain drops a sample only if maxEntries newer ones are kept.
OverflowDropsOldest ==
    [][ pc = "drain" /\ ~untruncated =>
        \A s \in Buffered \ Buffered' :
            Cardinality({r \in Buffered' : s < r}) >= MaxEntries ]_vars

\* A sample on disk is delivered once the API answers, provided the agent
\* ticks once more and the API stays up.
ReplayedAfterOutage ==
    \A s \in Samples :
        (s \in ToSet(file) /\ clock < MaxSamples) ~> (s \in acked \/ api = "down")

\* The agent implements best-effort delivery: a sample taken is held, then
\* acknowledged once or lost, and never both.  (A truncation that fails
\* breaks this promise: what was replayed is replayed again.)
Promise == INSTANCE BestEffortDelivery
           WITH taken <- clock, held <- Held, delivered <- acked

DeliversOnce == Promise!Spec

\* What wal.go:2-4 says the buffer is for: no sample is lost in an outage,
\* that is, every collected one was delivered or is still held.
NoLossDuringOutage == \A s \in 1..clock : s \in acked \cup Held

============================================================================
