---------------------------- MODULE AgentProofs ----------------------------
(***************************************************************************)
(* Proofs about the agent, for every number of samples, every buffer size  *)
(* and every set of faults.  TypeOK and Coupled are inductive together;    *)
(* Ordered is inductive relative to them and gives the safety properties.  *)
(***************************************************************************)
EXTENDS Agent, FiniteSetTheorems, SequenceTheorems, TLAPS

Ascending(q) == \A i, j \in 1..Len(q) : i < j => q[i] < q[j]

\* The fresh sample exists within a cycle, and an unterminated line is there.
Coupled ==
    /\ InCycle => clock \in Samples
    /\ tail = "open" => file # << >>
    /\ untruncated => "truncate" \in Faults

\* Everything buffered is younger than what was replayed and, within a cycle,
\* older than the fresh sample; it lies in one place, in order, and none of it
\* was acknowledged.
InOrder ==
    /\ Ascending(file) /\ Ascending(replay)
    /\ replay # << >> => file = << >>
    /\ lastReplayed <= clock
    /\ InCycle => lastReplayed < clock
    /\ \A s \in Buffered : lastReplayed < s /\ s <= clock /\ (InCycle => s < clock)
    /\ \A s \in acked : s <= clock
    /\ acked \cap Held = {}

Ordered == ~untruncated => InOrder

\* What the file can hold at each point of a cycle.
Short ==
    ~untruncated /\ ~undrained =>
    /\ pc \in {"replay", "rebuffer"} => Len(file) = 0
    /\ (pc = "send" /\ hasWAL) \/ pc = "buffer" => Len(file) <= 1
    /\ Len(file) <= 2

----------------------------------------------------------------------------
(* Lemmas about sequences of samples. *)

\* Dropping the last line of a file.
LEMMA FrontLemma ==
    ASSUME NEW q \in Seq(Samples), q # << >>
    PROVE  /\ Front(q) \in Seq(Samples)
           /\ Len(Front(q)) = Len(q) - 1
           /\ ToSet(Front(q)) \subseteq ToSet(q)
           /\ Ascending(q) => Ascending(Front(q))
<1>1. Len(q) \in Nat \ {0} /\ DOMAIN q = 1..Len(q)
  BY EmptySeq, LenProperties
<1>2. \A i \in 1..(Len(q) - 1) : q[i] \in Samples
  BY <1>1, ElementOfSeq, SMT
<1>3. /\ Front(q) \in Seq(Samples)
      /\ Len(Front(q)) = Len(q) - 1
      /\ \A i \in 1..(Len(q) - 1) : Front(q)[i] = q[i]
  BY <1>1, <1>2, SubSeqProperties, SMT DEF Front
<1>4. DOMAIN Front(q) = 1..(Len(q) - 1)
  BY <1>3, LenProperties
<1> QED
  BY <1>1, <1>3, <1>4, SMT DEF ToSet, Ascending

\* Taking the head off the entries to replay.
LEMMA TailLemma ==
    ASSUME NEW q \in Seq(Samples), q # << >>
    PROVE  /\ Head(q) \in Samples /\ Head(q) \in ToSet(q)
           /\ Tail(q) \in Seq(Samples)
           /\ Len(Tail(q)) = Len(q) - 1
           /\ Tail(q) = << >> <=> Len(q) = 1
           /\ ToSet(q) = {Head(q)} \cup ToSet(Tail(q))
           /\ Ascending(q) => /\ Ascending(Tail(q))
                              /\ \A s \in ToSet(Tail(q)) : Head(q) < s
<1>1. Len(q) \in Nat \ {0} /\ DOMAIN q = 1..Len(q)
  BY EmptySeq, LenProperties
<1>2. /\ Head(q) \in Samples
      /\ Tail(q) \in Seq(Samples)
      /\ Len(Tail(q)) = Len(q) - 1
      /\ \A i \in 1..Len(Tail(q)) : Tail(q)[i] = q[i + 1]
  BY HeadTailProperties
<1>3. DOMAIN Tail(q) = 1..(Len(q) - 1)
  BY <1>2, LenProperties
<1>4. Head(q) = q[1]
  OBVIOUS
<1>5. Tail(q) = << >> <=> Len(q) = 1
  BY <1>1, <1>2, EmptySeq, SMT
<1>6. ToSet(q) = {Head(q)} \cup ToSet(Tail(q))
  <2>1. \A i \in 1..Len(q) : i = 1 \/ (i - 1 \in 1..(Len(q) - 1) /\ q[i] = Tail(q)[i - 1])
    BY <1>1, <1>2, SMT
  <2>2. \A i \in 1..(Len(q) - 1) : i + 1 \in 1..Len(q) /\ Tail(q)[i] = q[i + 1]
    BY <1>1, <1>2, SMT
  <2>3. ASSUME NEW s \in ToSet(q) PROVE s \in {Head(q)} \cup ToSet(Tail(q))
    <3>1. PICK i \in 1..Len(q) : s = q[i]
      BY <1>1 DEF ToSet
    <3> QED
      BY <1>3, <1>4, <2>1, <3>1 DEF ToSet
  <2>4. ASSUME NEW s \in ToSet(Tail(q)) PROVE s \in ToSet(q)
    <3>1. PICK i \in 1..(Len(q) - 1) : s = Tail(q)[i]
      BY <1>3 DEF ToSet
    <3> QED
      BY <1>1, <2>2, <3>1 DEF ToSet
  <2>5. Head(q) \in ToSet(q)
    BY <1>1, <1>4, SMT DEF ToSet
  <2> QED
    BY <2>3, <2>4, <2>5
<1>7. ASSUME Ascending(q)
      PROVE  Ascending(Tail(q)) /\ \A s \in ToSet(Tail(q)) : Head(q) < s
  BY <1>1, <1>2, <1>3, <1>4, <1>7, SMT DEF ToSet, Ascending
<1> QED
  BY <1>1, <1>2, <1>4, <1>5, <1>6, <1>7

\* Appending a line.
LEMMA AppendLemma ==
    ASSUME NEW q \in Seq(Samples), NEW s \in Samples
    PROVE  /\ Append(q, s) \in Seq(Samples) /\ Append(q, s) # << >>
           /\ Len(Append(q, s)) = Len(q) + 1
           /\ ToSet(Append(q, s)) = ToSet(q) \cup {s}
           /\ Ascending(q) /\ (\A r \in ToSet(q) : r < s) => Ascending(Append(q, s))
<1>1. Len(q) \in Nat /\ DOMAIN q = 1..Len(q)
  BY LenProperties
<1>2. /\ Append(q, s) \in Seq(Samples) /\ Append(q, s) # << >>
      /\ Len(Append(q, s)) = Len(q) + 1
      /\ \A i \in 1..Len(q) : Append(q, s)[i] = q[i]
      /\ Append(q, s)[Len(q) + 1] = s
  BY AppendProperties
<1>3. DOMAIN Append(q, s) = 1..(Len(q) + 1)
  BY <1>2, LenProperties
<1>4. 1..(Len(q) + 1) = (1..Len(q)) \cup {Len(q) + 1}
  BY <1>1, SMT
<1>5. ToSet(Append(q, s)) = ToSet(q) \cup {s}
  <2>1. ASSUME NEW r \in ToSet(Append(q, s)) PROVE r \in ToSet(q) \cup {s}
    <3>1. PICK i \in (1..Len(q)) \cup {Len(q) + 1} : r = Append(q, s)[i]
      BY <1>3, <1>4 DEF ToSet
    <3> QED
      BY <1>1, <1>2, <3>1 DEF ToSet
  <2>2. ASSUME NEW r \in ToSet(q) PROVE r \in ToSet(Append(q, s))
    <3>1. PICK i \in 1..Len(q) : r = q[i]
      BY <1>1 DEF ToSet
    <3> QED
      BY <1>2, <1>3, <1>4, <3>1 DEF ToSet
  <2>3. s \in ToSet(Append(q, s))
    BY <1>2, <1>3, <1>4 DEF ToSet
  <2> QED
    BY <2>1, <2>2, <2>3
<1>6. ASSUME Ascending(q), \A r \in ToSet(q) : r < s
      PROVE  Ascending(Append(q, s))
  <2>1. \A i \in 1..Len(q) : q[i] < s
    BY <1>1, <1>6 DEF ToSet
  <2> QED
    BY <1>1, <1>2, <1>4, <1>6, <2>1, SMT DEF Ascending
<1> QED
  BY <1>2, <1>5, <1>6

\* Keeping the newest entries.
LEMMA NewestLemma ==
    ASSUME NEW q \in Seq(Samples), MaxEntries \in Nat \ {0}
    PROVE  /\ Newest(q) \in Seq(Samples)
           /\ Newest(q) = << >> <=> q = << >>
           /\ ToSet(Newest(q)) \subseteq ToSet(q)
           /\ Ascending(q) => Ascending(Newest(q))
<1>1. Len(q) \in Nat /\ DOMAIN q = 1..Len(q) /\ (q = << >> <=> Len(q) = 0)
  BY LenProperties, EmptySeq
<1>2. CASE Len(q) > MaxEntries
  <2> DEFINE n == Len(q) - MaxEntries
  <2>1. /\ n \in Nat /\ n + 1 \in Int
        /\ \A i \in (n + 1)..Len(q) : i \in 1..Len(q)
    BY <1>1, <1>2, SMT
  <2>2. \A i \in (n + 1)..Len(q) : q[i] \in Samples
    BY <2>1, ElementOfSeq
  <2>3. Newest(q) = SubSeq(q, n + 1, Len(q))
    BY <1>2 DEF Newest
  <2>4. /\ Newest(q) \in Seq(Samples)
        /\ Len(Newest(q)) = IF n + 1 <= Len(q) THEN Len(q) - (n + 1) + 1 ELSE 0
        /\ \A i \in 1..(Len(q) - (n + 1) + 1) : Newest(q)[i] = q[(n + 1) + i - 1]
    <3> HIDE DEF n
    <3>1. n + 1 \in Int /\ Len(q) \in Int
      BY <1>1, <2>1
    <3> QED
      BY <2>2, <2>3, <3>1, SubSeqProperties
  <2>5. /\ Len(Newest(q)) = MaxEntries
        /\ \A i \in 1..MaxEntries : i + n \in 1..Len(q) /\ Newest(q)[i] = q[i + n]
    BY <1>1, <1>2, <2>1, <2>4, SMT DEF n
  <2>6. DOMAIN Newest(q) = 1..MaxEntries
    BY <2>4, <2>5, LenProperties
  <2>7. Newest(q) # << >> /\ q # << >>
    BY <1>1, <1>2, <2>5, EmptySeq, SMT
  <2>8. ASSUME NEW s \in ToSet(Newest(q)) PROVE s \in ToSet(q)
    <3>1. PICK i \in 1..MaxEntries : s = Newest(q)[i]
      BY <2>6 DEF ToSet
    <3>2. i + n \in 1..Len(q) /\ s = q[i + n]
      BY <2>5, <3>1
    <3> QED
      BY <1>1, <3>2, Zenon DEF ToSet
  <2>9. ASSUME Ascending(q) PROVE Ascending(Newest(q))
    <3> SUFFICES ASSUME NEW i \in 1..MaxEntries, NEW j \in 1..MaxEntries, i < j
                 PROVE  Newest(q)[i] < Newest(q)[j]
      BY <2>5 DEF Ascending
    <3>1. i + n \in 1..Len(q) /\ j + n \in 1..Len(q) /\ i + n < j + n
      BY <2>1, <2>5, SMT
    <3> HIDE DEF n
    <3>2. q[i + n] < q[j + n]
      BY <2>9, <3>1 DEF Ascending
    <3> QED
      BY <2>5, <3>2
  <2> QED
    BY <2>4, <2>7, <2>8, <2>9
<1>3. CASE ~(Len(q) > MaxEntries)
  BY <1>3 DEF Newest
<1> QED
  BY <1>2, <1>3

\* The empty file and the empty list of entries.
LEMMA EmptyLemma ==
    /\ << >> \in Seq(Samples) /\ Len(<< >>) = 0
    /\ ToSet(<< >>) = {} /\ Ascending(<< >>)
  BY EmptySeq, SMT DEF ToSet, Ascending

----------------------------------------------------------------------------
(* wal.Append adds at most its own line, at the end. *)

LEMMA AppendWALLemma ==
    ASSUME TypeOK, Coupled, NEW s \in Samples, AppendWAL(s)
    PROVE  /\ file' \in Seq(Samples)
           /\ tail' \in {"closed", "open", "torn"}
           /\ tail' = "open" => file' # << >>
           /\ tooLong' \in BOOLEAN
           /\ Len(file') <= Len(file) + 1
           /\ ToSet(file') \subseteq ToSet(file) \cup {s}
           /\ Ascending(file) /\ (\A r \in ToSet(file) : r < s) => Ascending(file')
<1> DEFINE Shape == \/ file' = file
                    \/ file' = Append(file, s)
                    \/ file # << >> /\ file' = Front(file)
<1>1. /\ Shape
      /\ tail' \in {"closed", "open", "torn"}
      /\ tail' = "open" => file' = Append(file, s) \/ (file' = file /\ file # << >>)
      /\ tooLong' \in BOOLEAN
  <2>1. CASE UNCHANGED disk
    BY <2>1 DEF disk, history, TypeOK, Coupled
  <2>2. CASE \E whole, ended \in BOOLEAN : (whole \/ ~ended) /\ AppendLine(s, whole, ended)
    <3>1. PICK whole \in BOOLEAN, ended \in BOOLEAN :
              (whole \/ ~ended) /\ AppendLine(s, whole, ended)
      BY <2>2
    <3>2. Shape
      BY <3>1 DEF AppendLine, TypeOK, Coupled
    <3>3. /\ tail' \in {"closed", "open", "torn"}
          /\ tail' = "open" => file' = Append(file, s)
      BY <3>1 DEF AppendLine, TypeOK
    <3>4. tooLong' \in BOOLEAN
      BY <3>1 DEF AppendLine, TypeOK
    <3> QED
      BY <3>2, <3>3, <3>4
  <2> QED
    BY <2>1, <2>2 DEF AppendWAL
<1>2. file \in Seq(Samples) /\ Len(file) \in Nat
  BY LenProperties DEF TypeOK
<1>3. CASE file' = file
  BY <1>1, <1>2, <1>3, AppendLemma
<1>4. CASE file' = Append(file, s)
  BY <1>1, <1>2, <1>4, AppendLemma
<1>5. CASE file # << >> /\ file' = Front(file)
  BY <1>1, <1>2, <1>5, FrontLemma, AppendLemma, FrontLemma
<1> QED
  BY <1>1, <1>3, <1>4, <1>5

----------------------------------------------------------------------------
(* Type correctness. *)

LEMMA TypeInductive ==
    ASSUME TypeOK, Coupled, [Next]_vars
    PROVE  TypeOK' /\ Coupled'
<1> USE DEF TypeOK, Coupled, InCycle
<1>0. MaxEntries \in Nat \ {0} /\ Samples \subseteq 0..MaxSamples
  BY AgentAssumption, SMT DEF Samples
<1>1. CASE Collect
  BY <1>1, AgentAssumption, SMT DEF Collect, disk, history, Samples
<1>2. CASE Drain
  <2>1. /\ Newest(file) \in Seq(Samples)
        /\ Newest(file) = << >> <=> file = << >>
    BY <1>0, NewestLemma
  <2>2. /\ file' \in Seq(Samples) /\ tail' \in {"closed", "open", "torn"}
        /\ untruncated' \in BOOLEAN
        /\ tail' = "open" => file' # << >>
        /\ untruncated' => "truncate" \in Faults
    <3>1. CASE file' = << >> /\ tail' = "closed" /\ UNCHANGED untruncated
      BY <3>1, EmptyLemma
    <3>2. CASE "truncate" \in Faults /\ untruncated' = TRUE /\ UNCHANGED <<file, tail>>
      BY <3>2
    <3> QED
      BY <1>2, <3>1, <3>2 DEF Drain
  <2>3. UNCHANGED <<hasWAL, clock, lastReplayed, tooLong, undrained, api, acked>>
    BY <1>2 DEF Drain
  <2>4. /\ pc = "drain" /\ replay' = Newest(file)
        /\ pc' = IF file = << >> THEN "send" ELSE "replay"
    BY <1>2 DEF Drain
  <2> QED
    BY <2>1, <2>2, <2>3, <2>4
<1>3. CASE DrainError
  BY <1>3 DEF DrainError, disk, history
<1>4. CASE Replay
  <2>1. /\ Head(replay) \in Samples /\ Tail(replay) \in Seq(Samples)
        /\ Tail(replay) = << >> <=> Len(replay) = 1
    BY <1>4, TailLemma DEF Replay
  <2>2. acked' \subseteq Samples
    BY <1>4, <2>1 DEF Replay, SendOk
  <2> QED
    BY <1>0, <1>4, <2>1, <2>2 DEF Replay, disk, history
<1>5. CASE ReplayError
  BY <1>5 DEF ReplayError, SendError, disk, history
<1>6. CASE Rebuffer
  <2>1. Head(replay) \in Samples
    BY <1>6, TailLemma DEF Rebuffer
  <2> QED
    BY <1>6, <2>1, AppendWALLemma, EmptyLemma DEF Rebuffer, history
<1>7. CASE SendFresh
  BY <1>7 DEF SendFresh, SendOk, disk, history
<1>8. CASE SendFreshError
  BY <1>8 DEF SendFreshError, SendError, disk, history
<1>9. CASE Buffer
  BY <1>9, AppendWALLemma DEF Buffer, history
<1>10. CASE Crash
  BY <1>10, EmptyLemma DEF Crash, disk, history
<1>11. CASE Restart
  BY <1>11 DEF Restart, WALOutcomes, disk, history
<1>12. CASE Outage
  BY <1>12 DEF Outage, process, disk, history
<1>13. CASE UNCHANGED vars
  BY <1>13 DEF vars, process, disk, history
<1> QED
  BY <1>1, <1>2, <1>3, <1>4, <1>5, <1>6, <1>7, <1>8, <1>9, <1>10, <1>11,
     <1>12, <1>13 DEF Next, Cycle

LEMMA InitLemma == Init => TypeOK /\ Coupled
<1> SUFFICES ASSUME Init PROVE TypeOK /\ Coupled
  OBVIOUS
<1>1. 0 \in 0..MaxSamples
  BY AgentAssumption
<1>2. hasWAL \in BOOLEAN
  BY Zenon DEF Init, WALOutcomes
<1> QED
  BY <1>1, <1>2, EmptyLemma DEF Init, TypeOK, Coupled, InCycle

\* Every variable keeps its type, and entries remain to be replayed exactly
\* while the replay loop runs.
THEOREM TypeCorrect == Spec => []TypeOK
<1>1. Init => TypeOK /\ Coupled
  BY InitLemma
<1>2. TypeOK /\ Coupled /\ [Next]_vars => (TypeOK /\ Coupled)'
  BY TypeInductive
<1> QED
  BY <1>1, <1>2, PTL DEF Spec

----------------------------------------------------------------------------
(* Order and uniqueness of what is buffered. *)

\* What the steps below use of the types.
LEMMA TypeFacts ==
    ASSUME TypeOK
    PROVE  /\ clock \in Nat /\ lastReplayed \in Nat /\ Samples \subseteq Nat
           /\ file \in Seq(Samples) /\ replay \in Seq(Samples)
           /\ pc \in {"replay", "rebuffer"} <=> replay # << >>
           /\ ToSet(file) \subseteq Nat /\ ToSet(replay) \subseteq Nat /\ acked \subseteq Nat
           /\ MaxEntries \in Nat \ {0}
<1>1. Samples \subseteq Nat
  BY AgentAssumption, SMT DEF Samples
<1>2. \A q \in Seq(Samples) : ToSet(q) \subseteq Samples
  BY ElementOfSeq, LenProperties DEF ToSet
<1>3. clock \in Nat /\ lastReplayed \in Nat /\ MaxEntries \in Nat \ {0}
  BY AgentAssumption, SMT DEF TypeOK
<1>4. /\ file \in Seq(Samples) /\ replay \in Seq(Samples) /\ acked \subseteq Samples
      /\ pc \in {"replay", "rebuffer"} <=> replay # << >>
  BY DEF TypeOK
<1> QED
  BY <1>1, <1>2, <1>3, <1>4

\* A truncation or a Drain that failed is never forgotten.
LEMMA HistoryStays ==
    ASSUME [Next]_vars
    PROVE  (untruncated => untruncated') /\ (undrained => undrained')
  BY DEF Next, Cycle, Collect, Drain, DrainError, Replay, ReplayError, Rebuffer,
         SendFresh, SendFreshError, Buffer, Crash, Restart, Outage, vars, history

LEMMA OrderedInductive ==
    ASSUME TypeOK, Coupled, InOrder, [Next]_vars, ~untruncated'
    PROVE  InOrder'
<1> USE DEF InOrder, Held, Buffered, InCycle
<1>0. /\ clock \in Nat /\ lastReplayed \in Nat /\ Samples \subseteq Nat
      /\ file \in Seq(Samples) /\ replay \in Seq(Samples)
      /\ pc \in {"replay", "rebuffer"} <=> replay # << >>
      /\ ToSet(file) \subseteq Nat /\ ToSet(replay) \subseteq Nat /\ acked \subseteq Nat
      /\ MaxEntries \in Nat \ {0}
  BY TypeFacts
<1>1. CASE Collect
  BY <1>0, <1>1, SMT DEF Collect, disk, history
<1>2. CASE Drain
  <2>1. /\ ToSet(Newest(file)) \subseteq ToSet(file) /\ Ascending(Newest(file))
    BY <1>0, NewestLemma
  <2> QED
    BY <1>0, <1>2, <2>1, EmptyLemma, SMT DEF Drain, history
<1>3. CASE DrainError
  BY <1>0, <1>3, SMT DEF DrainError, disk, history
<1>4. CASE Replay
  <2>1. /\ Head(replay) \in Nat
        /\ ToSet(replay) = {Head(replay)} \cup ToSet(Tail(replay))
        /\ Ascending(Tail(replay)) /\ \A s \in ToSet(Tail(replay)) : Head(replay) < s
    BY <1>0, <1>4, TailLemma DEF Replay
  <2>2. file = << >>
    BY <1>0, <1>4 DEF Replay
  <2> QED
    BY <1>0, <1>4, <2>1, <2>2, EmptyLemma, SMT DEF Replay, SendOk, disk, history
<1>5. CASE ReplayError
  BY <1>0, <1>5, SMT DEF ReplayError, SendError, disk, history
<1>6. CASE Rebuffer
  <2>1. /\ Head(replay) \in Samples /\ Head(replay) \in ToSet(replay)
    BY <1>0, <1>6, TailLemma DEF Rebuffer
  <2>2. file = << >>
    BY <1>0, <1>6 DEF Rebuffer
  <2>3. ToSet(file') \subseteq {Head(replay)} /\ Ascending(file')
    BY <1>6, <2>1, <2>2, AppendWALLemma, EmptyLemma DEF Rebuffer
  <2> QED
    BY <1>0, <1>6, <2>1, <2>3, EmptyLemma, SMT DEF Rebuffer, history
<1>7. CASE SendFresh
  BY <1>0, <1>7, SMT DEF SendFresh, SendOk, disk, history
<1>8. CASE SendFreshError
  BY <1>0, <1>8, SMT DEF SendFreshError, SendError, disk, history
<1>9. CASE Buffer
  <2>1. clock \in Samples
    BY <1>9 DEF Buffer, Coupled
  <2>2. ToSet(file') \subseteq ToSet(file) \cup {clock} /\ Ascending(file')
    BY <1>0, <1>9, <2>1, AppendWALLemma DEF Buffer
  <2> QED
    BY <1>0, <1>9, <2>1, <2>2, SMT DEF Buffer, history
<1>10. CASE Crash
  BY <1>0, <1>10, EmptyLemma, SMT DEF Crash, disk, history
<1>11. CASE Restart
  BY <1>0, <1>11, SMT DEF Restart, disk, history
<1>12. CASE Outage
  BY <1>12 DEF Outage, process, disk, history
<1>13. CASE UNCHANGED vars
  BY <1>13 DEF vars, process, disk, history
<1> QED
  BY <1>1, <1>2, <1>3, <1>4, <1>5, <1>6, <1>7, <1>8, <1>9, <1>10, <1>11,
     <1>12, <1>13 DEF Next, Cycle

LEMMA OrderedInvariant == Spec => [](TypeOK /\ Coupled /\ Ordered)
<1>1. Init => TypeOK /\ Coupled
  BY InitLemma
<1>2. Init => Ordered
  BY EmptyLemma, SMT DEF Init, Ordered, InOrder, Held, Buffered, InCycle
<1>3. TypeOK /\ Coupled /\ Ordered /\ [Next]_vars => (TypeOK /\ Coupled /\ Ordered)'
  <2> SUFFICES ASSUME TypeOK, Coupled, Ordered, [Next]_vars
               PROVE  TypeOK' /\ Coupled' /\ Ordered'
    OBVIOUS
  <2>1. ~untruncated' => ~untruncated
    BY HistoryStays
  <2> QED
    BY <2>1, TypeInductive, OrderedInductive DEF Ordered
<1> QED
  BY <1>1, <1>2, <1>3, PTL DEF Spec

\* A sample whose Send returned nil is not held any more, whatever crashes
\* and disk errors happen: it is never sent again.
THEOREM NeverResent == Spec => []AckedNeverHeld
<1>1. Ordered => AckedNeverHeld
  BY DEF Ordered, InOrder, AckedNeverHeld
<1> QED
  BY <1>1, OrderedInvariant, PTL

\* Replays acknowledge samples in the order they were collected in, over all
\* outages and restarts.
THEOREM ReplayOrder == Spec => ReplayedInOrder
<1>1. TypeOK /\ Ordered /\ [Next]_vars =>
          [Replay /\ ~untruncated => lastReplayed < lastReplayed']_vars
  <2> SUFFICES ASSUME TypeOK, Ordered, Replay, ~untruncated
               PROVE  lastReplayed < lastReplayed'
    OBVIOUS
  <2>1. Head(replay) \in ToSet(replay)
    BY TailLemma DEF TypeOK, Replay
  <2> QED
    BY <2>1 DEF Replay, Ordered, InOrder, Buffered
<1> QED
  BY <1>1, OrderedInvariant, PTL DEF Spec, ReplayedInOrder

\* The agent implements best-effort delivery as long as the file can be
\* truncated: every step takes, delivers or loses samples that are held.
THEOREM Refinement == "truncate" \notin Faults => (Spec => DeliversOnce)
<1> SUFFICES ASSUME "truncate" \notin Faults PROVE Spec => DeliversOnce
  OBVIOUS
<1> USE DEF Promise!Take, Promise!Deliver, Promise!Lose
<1>1. Init => Promise!Init
  BY EmptyLemma DEF Init, Promise!Init, Held, Buffered, InCycle
<1>2. ASSUME TypeOK, Coupled, InOrder, [Next]_vars
      PROVE  [Promise!Take \/ Promise!Deliver \/ Promise!Lose]_<<clock, Held, acked>>
  <2> DEFINE Loses == Held' \subseteq Held /\ UNCHANGED <<clock, acked>>
  <2>0. Loses => Promise!Lose
    <3> SUFFICES ASSUME Loses PROVE Promise!Lose
      OBVIOUS
    <3>1. Held' = Held \ (Held \ Held') /\ Held \ Held' \in SUBSET Held
      OBVIOUS
    <3> QED
      BY <3>1
  <2>t. /\ clock \in Nat /\ Samples \subseteq Nat /\ MaxEntries \in Nat \ {0}
        /\ file \in Seq(Samples) /\ replay \in Seq(Samples)
        /\ pc \in {"replay", "rebuffer"} <=> replay # << >>
        /\ ToSet(file) \subseteq Nat /\ ToSet(replay) \subseteq Nat
    BY <1>2, TypeFacts
  <2> USE DEF Held, Buffered, InCycle
  <2>1. CASE Collect
    <3>1. clock \in Nat /\ clock < MaxSamples /\ clock + 1 = clock'
      BY <2>1, <2>t DEF Collect
    <3>2. Held' = Held \cup {clock + 1}
      BY <2>1, <3>1 DEF Collect, disk, history
    <3> QED
      BY <2>1, <3>1, <3>2 DEF Collect, history
  <2>2. CASE Drain
    <3>1. ToSet(Newest(file)) \subseteq ToSet(file)
      BY <2>t, NewestLemma
    <3>2. Loses
      BY <2>2, <3>1, EmptyLemma DEF Drain, history
    <3> QED
      BY <2>0, <3>2
  <2>3. CASE DrainError
    BY <2>3 DEF DrainError, disk, history
  <2>4. CASE Replay
    <3>1. /\ Head(replay) \in Held
          /\ Held' = Held \ {Head(replay)}
      <4>1. /\ Head(replay) \in Nat
            /\ ToSet(replay) = {Head(replay)} \cup ToSet(Tail(replay))
            /\ \A s \in ToSet(Tail(replay)) : Head(replay) < s
            /\ Head(replay) < clock
        BY <1>2, <2>4, <2>t, TailLemma DEF InOrder, Replay
      <4>2. file = << >> /\ file' = << >>
        BY <1>2, <2>4, <2>t DEF InOrder, Replay, disk, history
      <4>3. pc \in {"replay"} /\ pc' \in {"replay", "send"} /\ clock' = clock /\ replay' = Tail(replay)
        BY <2>4 DEF Replay
      <4>4. Head(replay) \notin ToSet(Tail(replay)) /\ Head(replay) # clock
        BY <4>1, <2>t, SMT
      <4> QED
        BY <4>1, <4>2, <4>3, <4>4, EmptyLemma
    <3>2. acked' = acked \cup {Head(replay)} /\ clock' = clock
      BY <2>4 DEF Replay, SendOk
    <3> QED
      BY <3>1, <3>2
  <2>5. CASE ReplayError
    BY <2>5 DEF ReplayError, SendError, disk, history
  <2>6. CASE Rebuffer
    <3>1. /\ Head(replay) \in Samples /\ Head(replay) \in ToSet(replay)
      BY <2>6, <2>t, TailLemma DEF Rebuffer
    <3>2. ToSet(file') \subseteq ToSet(file) \cup {Head(replay)}
      BY <1>2, <2>6, <3>1, AppendWALLemma DEF Rebuffer
    <3>3. Loses
      BY <2>6, <3>1, <3>2, EmptyLemma DEF Rebuffer, history
    <3> QED
      BY <2>0, <3>3
  <2>7. CASE SendFresh
    <3>1. clock \in Held /\ clock \notin Buffered
      BY <1>2, <2>7, <2>t, SMT DEF SendFresh, InOrder
    <3>2. Held' = Held \ {clock} /\ acked' = acked \cup {clock} /\ clock' = clock
      BY <2>7, <3>1 DEF SendFresh, SendOk, disk, history
    <3> QED
      BY <3>1, <3>2
  <2>8. CASE SendFreshError
    <3>1. Loses
      BY <2>8 DEF SendFreshError, SendError, disk, history
    <3> QED
      BY <2>0, <3>1
  <2>9. CASE Buffer
    <3>1. ToSet(file') \subseteq ToSet(file) \cup {clock}
      BY <1>2, <2>9, AppendWALLemma DEF Buffer, Coupled
    <3>2. Loses
      BY <2>9, <3>1 DEF Buffer, history
    <3> QED
      BY <2>0, <3>2
  <2>10. CASE Crash
    <3>1. Loses
      BY <2>10, EmptyLemma DEF Crash, disk, history
    <3> QED
      BY <2>0, <3>1
  <2>11. CASE Restart \/ Outage \/ UNCHANGED vars
    BY <2>11 DEF Restart, Outage, vars, process, disk, history
  <2> QED
    BY <1>2, <2>1, <2>2, <2>3, <2>4, <2>5, <2>6, <2>7, <2>8, <2>9, <2>10, <2>11
       DEF Next, Cycle
<1>3. TypeOK /\ Coupled /\ Ordered /\ [Next]_vars =>
          [Promise!Take \/ Promise!Deliver \/ Promise!Lose]_<<clock, Held, acked>>
  BY <1>2 DEF Ordered, Coupled
<1> QED
  BY <1>1, <1>3, OrderedInvariant, PTL DEF Spec, DeliversOnce, Promise!Spec

----------------------------------------------------------------------------
(* How long the file gets. *)

LEMMA ShortInductive ==
    ASSUME TypeOK, Coupled, Short, [Next]_vars,
           ~untruncated', ~undrained'
    PROVE  Short'
<1> USE DEF Short
<1>0. Len(file) \in Nat /\ ~untruncated /\ ~undrained
  BY TypeFacts, LenProperties, HistoryStays
<1>1. CASE Collect
  BY <1>0, <1>1 DEF Collect, disk, history
<1>2. CASE Drain
  BY <1>0, <1>2, EmptyLemma DEF Drain
<1>3. CASE DrainError
  BY <1>0, <1>3 DEF DrainError
<1>4. CASE Replay
  BY <1>0, <1>4 DEF Replay, disk, history
<1>5. CASE ReplayError
  BY <1>0, <1>5 DEF ReplayError, disk, history
<1>6. CASE Rebuffer
  <2>1. replay \in Seq(Samples) /\ replay # << >>
    BY <1>6, TypeFacts DEF Rebuffer
  <2>2. Head(replay) \in Samples
    BY <2>1, TailLemma
  <2>3. Len(file') <= Len(file) + 1 /\ file' \in Seq(Samples)
    BY <1>6, <2>2, AppendWALLemma DEF Rebuffer
  <2>4. Len(file') \in Nat
    BY <2>3, LenProperties
  <2> QED
    BY <1>0, <1>6, <2>3, <2>4 DEF Rebuffer
<1>7. CASE SendFresh
  BY <1>0, <1>7 DEF SendFresh, disk, history
<1>8. CASE SendFreshError
  BY <1>0, <1>8 DEF SendFreshError, disk, history
<1>9. CASE Buffer
  <2>1. Len(file') <= Len(file) + 1 /\ file' \in Seq(Samples)
    BY <1>9, AppendWALLemma DEF Buffer, Coupled, InCycle
  <2>2. Len(file') \in Nat
    BY <2>1, LenProperties
  <2> QED
    BY <1>0, <1>9, <2>1, <2>2 DEF Buffer
<1>10. CASE Crash \/ Restart
  BY <1>0, <1>10 DEF Crash, Restart, disk, history
<1>11. CASE Outage \/ UNCHANGED vars
  BY <1>11 DEF Outage, vars, process, disk, history
<1> QED
  BY <1>1, <1>2, <1>3, <1>4, <1>5, <1>6, <1>7, <1>8, <1>9, <1>10, <1>11
     DEF Next, Cycle

\* However long an outage lasts, and whatever is killed, torn or lost by it,
\* the file never holds more than two samples while it can be read and
\* truncated.
THEOREM FileStaysShort == Spec => []OutageKeepsTwo
<1>1. Init => TypeOK /\ Coupled /\ Short
  BY InitLemma, EmptyLemma DEF Init, Short
<1>2. TypeOK /\ Coupled /\ Short /\ [Next]_vars => (TypeOK /\ Coupled /\ Short)'
  <2> SUFFICES ASSUME TypeOK, Coupled, Short, [Next]_vars
               PROVE  TypeOK' /\ Coupled' /\ Short'
    OBVIOUS
  <2>1. Short'
    BY ShortInductive DEF Short
  <2> QED
    BY <2>1, TypeInductive
<1>3. Short => OutageKeepsTwo
  BY DEF Short, OutageKeepsTwo
<1> QED
  BY <1>1, <1>2, <1>3, PTL DEF Spec

----------------------------------------------------------------------------
(***************************************************************************)
(* The oldest buffered sample.  A truncation that fails leaves copies of   *)
(* what is replayed in the file, so neither is in order any more, and a    *)
(* replay that fails drops what is behind its first entry.  What survives  *)
(* is that the FIRST copies of the samples are in order, and that the      *)
(* entries to be replayed are the end of the file.                         *)
(***************************************************************************)

Healthy == Faults \cap {"crash", "append", "torn"} = {}

\* A sample behind a younger one was acknowledged, or is before it as well.
FirstInOrder(q, A) ==
    \A i, j \in 1..Len(q) :
        i < j => q[i] <= q[j] \/ q[j] \in A \/ \E k \in 1..Len(q) : k < i /\ q[k] = q[j]

\* A cycle appends at most two lines.
Lines == Len(file) + (CASE pc \in {"drain", "replay", "rebuffer"} -> 2
                        [] pc \in {"send", "buffer"} -> 1
                        [] OTHER -> 0)

EndOfFile ==
    \E p \in 1..Len(file) :
        /\ Len(replay) = Len(file) - p + 1
        /\ \A i \in 1..Len(replay) : replay[i] = file[p + i - 1]

CopiesInOrder ==
    /\ FirstInOrder(file, acked) /\ FirstInOrder(replay, acked)
    /\ \A s \in Buffered : s <= clock
    /\ pc \in {"replay", "rebuffer"} /\ file # << >> => EndOfFile

Copied ==
    /\ pc # "down" /\ tail = "closed"
    /\ Lines <= 2 * clock
    /\ 2 * clock <= MaxEntries => CopiesInOrder

LEMMA FirstGrows ==
    ASSUME NEW q, NEW A, NEW B, A \subseteq B, FirstInOrder(q, A)
    PROVE  FirstInOrder(q, B)
  BY DEF FirstInOrder

LEMMA FirstEmpty ==
    ASSUME NEW A
    PROVE  FirstInOrder(<< >>, A)
  BY EmptySeq, SMT DEF FirstInOrder

LEMMA FirstTail ==
    ASSUME NEW q \in Seq(Samples), q # << >>, NEW A, FirstInOrder(q, A)
    PROVE  FirstInOrder(Tail(q), A \cup {Head(q)})
<1>1. Len(q) \in Nat \ {0}
  BY EmptySeq, LenProperties
<1>2. /\ Len(Tail(q)) = Len(q) - 1
      /\ \A i \in 1..Len(Tail(q)) : Tail(q)[i] = q[i + 1]
  BY HeadTailProperties
<1>3. Head(q) = q[1]
  OBVIOUS
<1> DEFINE q1 == Tail(q)
<1> HIDE DEF q1
<1> SUFFICES ASSUME NEW i \in 1..Len(q1), NEW j \in 1..Len(q1), i < j,
                    ~(q1[i] <= q1[j]), q1[j] \notin A \cup {Head(q)}
             PROVE  \E k \in 1..Len(q1) : k < i /\ q1[k] = q1[j]
  BY DEF FirstInOrder, q1
<1>4. Len(q1) = Len(q) - 1 /\ \A h \in 1..Len(q1) : q1[h] = q[h + 1]
  BY <1>2 DEF q1
<1>5. i + 1 \in 1..Len(q) /\ j + 1 \in 1..Len(q) /\ i + 1 < j + 1
  BY <1>1, <1>4
<1>6. q1[i] = q[i + 1] /\ q1[j] = q[j + 1]
  BY <1>4
<1>7. PICK k \in 1..Len(q) : k < i + 1 /\ q[k] = q[j + 1]
  BY <1>5, <1>6 DEF FirstInOrder
<1>8. k # 1
  BY <1>3, <1>6, <1>7
<1>9. k - 1 \in 1..Len(q1) /\ k - 1 < i /\ (k - 1) + 1 = k
  BY <1>1, <1>4, <1>7, <1>8
<1>10. q1[k - 1] = q1[j]
  BY <1>4, <1>6, <1>7, <1>9
<1> QED
  BY <1>9, <1>10

LEMMA FirstAppend ==
    ASSUME NEW q \in Seq(Samples), NEW s \in Samples, NEW A, FirstInOrder(q, A),
           \A i \in 1..Len(q) : q[i] <= s \/ s \in A \/ \E k \in 1..Len(q) : k < i /\ q[k] = s
    PROVE  FirstInOrder(Append(q, s), A)
<1>1. Len(q) \in Nat
  BY LenProperties
<1>2. /\ Len(Append(q, s)) = Len(q) + 1
      /\ \A i \in 1..Len(q) : Append(q, s)[i] = q[i]
      /\ Append(q, s)[Len(q) + 1] = s
  BY AppendProperties
<1> DEFINE q1 == Append(q, s)
<1> HIDE DEF q1
<1> SUFFICES ASSUME NEW i \in 1..(Len(q) + 1), NEW j \in 1..(Len(q) + 1), i < j,
                    ~(q1[i] <= q1[j]), q1[j] \notin A
             PROVE  \E k \in 1..(Len(q) + 1) : k < i /\ q1[k] = q1[j]
  BY <1>2 DEF FirstInOrder, q1
<1>3. i \in 1..Len(q) /\ q1[i] = q[i]
  BY <1>1, <1>2 DEF q1
<1>4. ASSUME NEW k \in 1..Len(q), k < i, q[k] = q1[j]
      PROVE  \E h \in 1..(Len(q) + 1) : h < i /\ q1[h] = q1[j]
  <2>1. k \in 1..(Len(q) + 1) /\ q1[k] = q[k]
    BY <1>1, <1>2 DEF q1
  <2> QED
    BY <1>4, <2>1
<1>5. \E k \in 1..Len(q) : k < i /\ q[k] = q1[j]
  <2>1. CASE j = Len(q) + 1
    <3>1. q1[j] = s
      BY <1>2, <2>1 DEF q1
    <3> QED
      BY <1>3, <3>1
  <2>2. CASE j # Len(q) + 1
    <3>1. j \in 1..Len(q)
      BY <1>1, <2>2
    <3>2. q1[j] = q[j]
      BY <1>2, <3>1 DEF q1
    <3> QED
      BY <1>3, <3>1, <3>2 DEF FirstInOrder
  <2> QED
    BY <2>1, <2>2
<1> QED
  BY <1>4, <1>5

\* Without a fault an append adds the line, at the end of a closed file.
LEMMA HealthyAppend ==
    ASSUME TypeOK, Healthy, tail = "closed", NEW s \in Samples, AppendWAL(s)
    PROVE  file' = Append(file, s) /\ tail' = "closed"
<1>1. AppendLine(s, TRUE, TRUE)
  BY DEF AppendWAL, Healthy
<1> QED
  BY <1>1 DEF AppendLine

\* The steps that leave the file alone or empty it.
LEMMA CopiedReads ==
    ASSUME TypeOK, Healthy, Copied,
           \/ Collect \/ Drain \/ DrainError \/ Replay \/ ReplayError \/ SendFresh \/ SendFreshError
    PROVE  Copied'
<1>1. /\ clock \in Nat /\ file \in Seq(Samples) /\ replay \in Seq(Samples) /\ MaxEntries \in Nat
      /\ pc \in {"replay", "rebuffer"} <=> replay # << >>
      /\ Samples \subseteq Nat
  BY TypeFacts
<1>2. Len(file) \in Nat /\ Len(replay) \in Nat /\ (file = << >> => Len(file) = 0)
  BY <1>1, LenProperties, EmptySeq
<1>3. Lines <= 2 * clock /\ tail = "closed" /\ (2 * clock <= MaxEntries => CopiesInOrder)
  BY DEF Copied
<1>4. CASE Collect
  <2>1. /\ pc = "idle" /\ pc' \in {"drain", "send"} /\ clock' = clock + 1
        /\ UNCHANGED <<file, tail, replay, acked>>
    BY <1>4 DEF Collect, disk, history
  <2>2. Lines' <= 2 * clock'
    BY <1>1, <1>2, <1>3, <2>1 DEF Lines
  <2>3. ASSUME 2 * clock' <= MaxEntries PROVE CopiesInOrder'
    <3>1. 2 * clock <= MaxEntries
      BY <1>1, <2>1, <2>3
    <3>2. FirstInOrder(file, acked) /\ FirstInOrder(replay, acked) /\ \A s \in Buffered : s <= clock
      BY <1>3, <3>1 DEF CopiesInOrder
    <3>3. (FirstInOrder(file, acked) /\ FirstInOrder(replay, acked))'
      BY <2>1, <3>2
    <3>4. \A s \in Buffered : s \in Nat
      BY TypeFacts DEF Buffered
    <3>5. Buffered' = Buffered
      BY <2>1 DEF Buffered
    <3>6. \A s \in Buffered' : s <= clock'
      BY <1>1, <2>1, <3>2, <3>4, <3>5
    <3> QED
      BY <2>1, <3>3, <3>6 DEF CopiesInOrder
  <2> QED
    BY <1>3, <2>1, <2>2, <2>3 DEF Copied
<1>5. CASE Drain
  <2>1. /\ pc = "drain" /\ pc' = (IF file = << >> THEN "send" ELSE "replay") /\ clock' = clock
        /\ replay' = Newest(file) /\ acked' = acked
        /\ (file' = << >> /\ tail' = "closed") \/ UNCHANGED <<file, tail>>
    BY <1>5 DEF Drain, history
  <2>2. Len(file) + 2 <= 2 * clock
    BY <1>3, <2>1 DEF Lines
  <2>3. Len(file') \in Nat /\ Len(file') <= Len(file)
    BY <1>2, <2>1, EmptyLemma
  <2>4. Lines' <= 2 * clock'
    BY <1>1, <1>2, <2>1, <2>2, <2>3 DEF Lines
  <2>5. ASSUME 2 * clock' <= MaxEntries PROVE CopiesInOrder'
    <3>1. CopiesInOrder
      BY <1>3, <2>1, <2>5
    <3>2. replay' = file
      <4>1. ~(Len(file) > MaxEntries)
        BY <1>1, <1>2, <2>1, <2>2, <2>5
      <4> QED
        BY <2>1, <4>1 DEF Newest
    <3>3. FirstInOrder(file, acked)
      BY <3>1 DEF CopiesInOrder
    <3>4. (FirstInOrder(file, acked) /\ FirstInOrder(replay, acked))'
      <4>1. FirstInOrder(<< >>, acked)
        BY FirstEmpty
      <4> QED
        BY <2>1, <3>2, <3>3, <4>1
    <3>5. Buffered' \subseteq Buffered
      BY <2>1, <3>2, EmptyLemma DEF Buffered
    <3>6. \A s \in Buffered' : s <= clock'
      BY <2>1, <3>1, <3>5 DEF CopiesInOrder
    <3>7. ASSUME pc' = "replay", file' # << >> PROVE EndOfFile'
      <4>1. file' = file /\ Len(file) # 0
        BY <1>1, <2>1, <3>7, EmptySeq
      <4>2. 1 \in 1..Len(file) /\ Len(file) = Len(file) - 1 + 1
            /\ \A i \in 1..Len(file) : 1 + i - 1 = i
        BY <1>2, <4>1
      <4> QED
        BY <3>2, <4>1, <4>2 DEF EndOfFile
    <3> QED
      BY <2>1, <3>4, <3>6, <3>7 DEF CopiesInOrder
  <2> QED
    BY <1>3, <2>1, <2>4, <2>5 DEF Copied
<1>6. CASE DrainError \/ ReplayError \/ SendFreshError
  <2>1. /\ UNCHANGED <<clock, file, tail, replay, acked>>
        /\ \/ pc = "drain" /\ pc' = "send"
           \/ pc = "replay" /\ pc' = "rebuffer"
           \/ pc = "send" /\ pc' \in {"buffer", "idle"}
    BY <1>6 DEF DrainError, ReplayError, SendFreshError, SendError, disk, history
  <2>2. Lines' \in Nat /\ Lines \in Nat /\ Lines' <= Lines
    BY <1>2, <2>1 DEF Lines
  <2>3. CopiesInOrder => CopiesInOrder'
    BY <2>1 DEF CopiesInOrder, Buffered, EndOfFile
  <2>4. Lines' <= 2 * clock'
    BY <1>1, <1>3, <2>1, <2>2
  <2> QED
    BY <1>3, <2>1, <2>3, <2>4 DEF Copied
<1>7. CASE SendFresh
  <2>1. /\ UNCHANGED <<clock, file, tail, replay>> /\ pc = "send" /\ pc' = "idle"
        /\ acked' = acked \cup {clock}
    BY <1>7 DEF SendFresh, SendOk, disk, history
  <2>2. Lines' <= 2 * clock'
    BY <1>1, <1>2, <1>3, <2>1 DEF Lines
  <2>3. ASSUME CopiesInOrder PROVE CopiesInOrder'
    <3>1. FirstInOrder(file, acked') /\ FirstInOrder(replay, acked')
      <4>1. acked \subseteq acked'
        BY <2>1
      <4> QED
        BY <2>3, <4>1, FirstGrows DEF CopiesInOrder
    <3>2. (FirstInOrder(file, acked) /\ FirstInOrder(replay, acked))'
      BY <2>1, <3>1
    <3> QED
      BY <2>1, <2>3, <3>2 DEF CopiesInOrder, Buffered
  <2> QED
    BY <1>3, <2>1, <2>2, <2>3 DEF Copied
<1>8. CASE Replay
  <2>1. /\ UNCHANGED <<clock, file, tail>> /\ pc = "replay"
        /\ pc' = IF Len(replay) = 1 THEN "send" ELSE "replay"
        /\ replay' = Tail(replay) /\ acked' = acked \cup {Head(replay)}
    BY <1>8 DEF Replay, SendOk, disk, history
  <2>2. Lines' <= 2 * clock'
    BY <1>1, <1>2, <1>3, <2>1 DEF Lines
  <2>3. /\ ToSet(replay) = {Head(replay)} \cup ToSet(Tail(replay))
        /\ Len(Tail(replay)) = Len(replay) - 1 /\ replay # << >>
    BY <1>1, <2>1, TailLemma
  <2>4. ASSUME CopiesInOrder PROVE CopiesInOrder'
    <3>1. FirstInOrder(file, acked') /\ FirstInOrder(Tail(replay), acked')
      <4>1. acked \subseteq acked'
        BY <2>1
      <4>2. FirstInOrder(file, acked')
        BY <2>4, <4>1, FirstGrows DEF CopiesInOrder
      <4>3. FirstInOrder(Tail(replay), acked \cup {Head(replay)})
        BY <1>1, <2>3, <2>4, FirstTail DEF CopiesInOrder
      <4> QED
        BY <2>1, <4>2, <4>3
    <3>2. (FirstInOrder(file, acked) /\ FirstInOrder(replay, acked))'
      BY <2>1, <3>1
    <3>3. \A s \in Buffered' : s <= clock'
      BY <2>1, <2>3, <2>4 DEF CopiesInOrder, Buffered
    <3>4. ASSUME pc' = "replay", file # << >> PROVE EndOfFile'
      <4>1. PICK p \in 1..Len(file) :
              /\ Len(replay) = Len(file) - p + 1
              /\ \A i \in 1..Len(replay) : replay[i] = file[p + i - 1]
        BY <2>1, <2>4, <3>4 DEF CopiesInOrder, EndOfFile
      <4>2. Len(replay) # 1 /\ Len(replay) # 0
        BY <1>1, <2>1, <2>3, <3>4, EmptySeq
      <4>3. p + 1 \in 1..Len(file) /\ Len(Tail(replay)) = Len(file) - (p + 1) + 1
        BY <1>2, <2>3, <4>1, <4>2
      <4>4. \A i \in 1..Len(Tail(replay)) : Tail(replay)[i] = file[(p + 1) + i - 1]
        <5> TAKE i \in 1..Len(Tail(replay))
        <5>1. Tail(replay)[i] = replay[i + 1]
          BY <1>1, <2>3, HeadTailProperties
        <5>2. i + 1 \in 1..Len(replay) /\ p + (i + 1) - 1 = (p + 1) + i - 1
          BY <1>2, <2>3
        <5>3. replay[i + 1] = file[p + (i + 1) - 1]
          BY <4>1, <5>2
        <5> QED
          BY <5>1, <5>2, <5>3
      <4> QED
        BY <2>1, <4>3, <4>4 DEF EndOfFile
    <3> QED
      BY <2>1, <3>2, <3>3, <3>4 DEF CopiesInOrder
  <2> QED
    BY <1>3, <2>1, <2>2, <2>4 DEF Copied
<1> QED
  BY <1>4, <1>5, <1>6, <1>7, <1>8

\* The steps that append.
LEMMA CopiedAppends ==
    ASSUME TypeOK, Coupled, Healthy, Copied, Rebuffer \/ Buffer
    PROVE  Copied'
<1>1. /\ clock \in Nat /\ file \in Seq(Samples) /\ replay \in Seq(Samples) /\ MaxEntries \in Nat
      /\ pc \in {"replay", "rebuffer"} <=> replay # << >>
      /\ Samples \subseteq Nat
  BY TypeFacts
<1>2. Len(file) \in Nat /\ Len(replay) \in Nat /\ (file = << >> => Len(file) = 0)
  BY <1>1, LenProperties, EmptySeq
<1>3. Lines <= 2 * clock /\ tail = "closed" /\ (2 * clock <= MaxEntries => CopiesInOrder)
  BY DEF Copied
<1>4. PICK s \in Samples : s = IF pc = "rebuffer" THEN Head(replay) ELSE clock
  <2>1. pc = "rebuffer" => Head(replay) \in Samples
    BY <1>1, TailLemma
  <2>2. pc # "rebuffer" => clock \in Samples
    BY DEF Rebuffer, Buffer, Coupled, InCycle
  <2> QED
    BY <2>1, <2>2
<1>5. /\ UNCHANGED <<clock, acked>> /\ AppendWAL(s)
      /\ replay' = << >>
      /\ (pc = "rebuffer" /\ pc' = "send") \/ (pc = "buffer" /\ pc' = "idle")
  BY <1>1, <1>4 DEF Rebuffer, Buffer, history
<1>6. file' = Append(file, s) /\ tail' = "closed"
  BY <1>3, <1>5, HealthyAppend
<1>7. Len(Append(file, s)) = Len(file) + 1 /\ ToSet(Append(file, s)) = ToSet(file) \cup {s}
  BY <1>1, AppendLemma
<1>8. Lines' <= 2 * clock'
  <2>1. Len(file') = Len(file) + 1 /\ clock' = clock
    BY <1>5, <1>6, <1>7
  <2>2. Lines \in Nat /\ Lines' \in Nat /\ Lines' <= Lines
    <3>1. CASE pc = "rebuffer" /\ pc' = "send"
      BY <1>2, <2>1, <3>1 DEF Lines
    <3>2. CASE pc = "buffer" /\ pc' = "idle"
      BY <1>2, <2>1, <3>2 DEF Lines
    <3> QED
      BY <1>5, <3>1, <3>2
  <2> QED
    BY <1>1, <1>3, <2>1, <2>2
<1>9. ASSUME CopiesInOrder PROVE CopiesInOrder'
  <2>1. s <= clock
    <3>1. pc = "rebuffer" => s \in ToSet(replay)
      BY <1>1, <1>4, TailLemma
    <3> QED
      BY <1>1, <1>4, <1>9, <3>1 DEF CopiesInOrder, Buffered
  <2>2. \A r \in Buffered' : r <= clock'
    <3>1. Buffered' = ToSet(file) \cup {s}
      BY <1>5, <1>6, <1>7, EmptyLemma DEF Buffered
    <3> QED
      BY <1>5, <1>9, <2>1, <3>1 DEF CopiesInOrder, Buffered
  <2>3. \A i \in 1..Len(file) : file[i] \in ToSet(file) /\ file[i] \in Nat
    <3>1. DOMAIN file = 1..Len(file) /\ \A i \in 1..Len(file) : file[i] \in Samples
      BY <1>1, LenProperties, ElementOfSeq
    <3> QED
      BY <1>1, <3>1 DEF ToSet
  <2>4. \A i \in 1..Len(file) :
          file[i] <= s \/ s \in acked \/ \E k \in 1..Len(file) : k < i /\ file[k] = s
    <3>1. CASE pc # "rebuffer"
      BY <1>4, <1>9, <2>3, <3>1 DEF CopiesInOrder, Buffered
    <3>2. CASE pc = "rebuffer"
      <4> SUFFICES ASSUME NEW i \in 1..Len(file), ~(file[i] <= s), s \notin acked
                   PROVE  \E k \in 1..Len(file) : k < i /\ file[k] = s
        OBVIOUS
      <4>1. file # << >>
        BY <1>2
      <4>2. PICK p \in 1..Len(file) :
              /\ Len(replay) = Len(file) - p + 1
              /\ \A h \in 1..Len(replay) : replay[h] = file[p + h - 1]
        BY <1>9, <3>2, <4>1 DEF CopiesInOrder, EndOfFile
      <4>3. 1 \in 1..Len(replay) /\ p + 1 - 1 = p
        BY <1>2, <4>2
      <4>4. s = file[p]
        BY <1>4, <3>2, <4>2, <4>3
      <4>5. CASE p < i
        BY <4>4, <4>5
      <4>6. CASE p = i
        BY <2>3, <4>4, <4>6
      <4>7. CASE i < p
        BY <1>9, <4>4, <4>7 DEF CopiesInOrder, FirstInOrder
      <4> QED
        BY <1>2, <4>5, <4>6, <4>7
    <3> QED
      BY <3>1, <3>2
  <2>5. FirstInOrder(Append(file, s), acked) /\ FirstInOrder(<< >>, acked)
    BY <1>1, <1>9, <2>4, FirstAppend, FirstEmpty DEF CopiesInOrder
  <2>6. (FirstInOrder(file, acked) /\ FirstInOrder(replay, acked))'
    BY <1>5, <1>6, <2>5
  <2> QED
    BY <1>5, <2>2, <2>6 DEF CopiesInOrder
<1> QED
  BY <1>3, <1>5, <1>6, <1>8, <1>9 DEF Copied

LEMMA CopiedInductive ==
    ASSUME TypeOK, Coupled, Healthy, Copied, [Next]_vars
    PROVE  Copied'
<1>1. CASE Collect \/ Drain \/ DrainError \/ Replay \/ ReplayError \/ SendFresh \/ SendFreshError
  BY <1>1, CopiedReads
<1>2. CASE Rebuffer \/ Buffer
  BY <1>2, CopiedAppends
<1>3. CASE Crash \/ Restart
  BY <1>3 DEF Crash, Restart, Healthy, Copied
<1>4. CASE Outage \/ UNCHANGED vars
  <2>1. UNCHANGED <<pc, clock, file, tail, replay, acked>>
    BY <1>4 DEF Outage, vars, process, disk, history
  <2> QED
    BY <2>1 DEF Copied, CopiesInOrder, Lines, Buffered, EndOfFile, FirstInOrder
<1> QED
  BY <1>1, <1>2, <1>3, <1>4 DEF Next, Cycle

LEMMA OldestStays ==
    ASSUME TypeOK, Coupled, Ordered, Healthy, Copied, NeverCut, [Next]_vars,
           NEW s \in Buffered \ Buffered', \A r \in Buffered : s <= r
    PROVE  s \in acked'
<1>1. /\ clock \in Nat /\ file \in Seq(Samples) /\ replay \in Seq(Samples) /\ MaxEntries \in Nat
      /\ pc \in {"replay", "rebuffer"} <=> replay # << >>
      /\ Samples \subseteq Nat /\ ToSet(file) \subseteq Nat /\ ToSet(replay) \subseteq Nat
  BY TypeFacts
<1>2. Len(file) \in Nat /\ Len(replay) \in Nat
  BY <1>1, LenProperties
<1>3. CASE Drain
  <2>1. pc = "drain" /\ replay = << >> /\ replay' = Newest(file)
    BY <1>1, <1>3 DEF Drain
  <2>2. ~(Len(file) > MaxEntries)
    <3>1. Len(file) + 2 <= 2 * clock
      BY <2>1 DEF Copied, Lines
    <3> QED
      BY <1>1, <1>2, <3>1 DEF NeverCut
  <2>3. Buffered \subseteq Buffered'
    BY <2>1, <2>2, EmptyLemma DEF Buffered, Newest
  <2> QED
    BY <2>3
<1>4. CASE Replay
  <2>1. /\ ToSet(replay) = {Head(replay)} \cup ToSet(Tail(replay))
    BY <1>1, <1>4, TailLemma DEF Replay
  <2>2. Buffered \ Buffered' \subseteq {Head(replay)}
    BY <1>4, <2>1 DEF Replay, disk, history, Buffered
  <2> QED
    BY <1>4, <2>2 DEF Replay, SendOk
<1>5. CASE Rebuffer
  <2> DEFINE h == Head(replay)
  <2>1. pc = "rebuffer" /\ replay # << >> /\ AppendWAL(h) /\ acked' = acked
    BY <1>1, <1>5 DEF Rebuffer, history
  <2>2. /\ h \in Samples /\ h \in ToSet(replay) /\ ToSet(replay) = {h} \cup ToSet(Tail(replay))
        /\ Ascending(replay) => \A r \in ToSet(Tail(replay)) : h < r
    BY <1>1, <2>1, TailLemma
  <2>3. ToSet(file') = ToSet(file) \cup {h}
    <3>1. file' = Append(file, h)
      BY <2>1, <2>2, HealthyAppend DEF Copied
    <3> QED
      BY <1>1, <2>2, <3>1, AppendLemma
  <2>4. s \in ToSet(Tail(replay)) /\ s # h /\ s \in ToSet(replay)
    BY <2>2, <2>3 DEF Buffered
  <2>5. s <= h /\ h \in Nat /\ s \in Nat
    BY <1>1, <2>2, <2>4 DEF Buffered
  <2>6. CASE 2 * clock <= MaxEntries
    <3>1. PICK j \in 1..Len(replay) : replay[j] = s
      BY <1>1, <2>4, LenProperties DEF ToSet
    <3>2. replay[1] = h
      OBVIOUS
    <3>3. 1 \in 1..Len(replay) /\ 1 < j
      <4>1. j # 1
        BY <2>4, <3>1, <3>2
      <4> QED
        BY <1>2, <3>1, <4>1
    <3>4. FirstInOrder(replay, acked)
      BY <2>6 DEF Copied, CopiesInOrder
    <3>5. h <= s \/ s \in acked
      BY <3>1, <3>2, <3>3, <3>4 DEF FirstInOrder
    <3> QED
      BY <2>1, <2>4, <2>5, <3>5
  <2>7. CASE ~untruncated
    <3>1. Ascending(replay)
      BY <2>7 DEF Ordered, InOrder
    <3>2. h < s
      BY <2>2, <2>4, <3>1
    <3> QED
      BY <2>5, <3>2
  <2> QED
    BY <2>6, <2>7 DEF NeverCut
<1>6. CASE Buffer
  <2>1. clock \in Samples /\ AppendWAL(clock) /\ replay' = replay
    BY <1>6 DEF Buffer, Coupled, InCycle
  <2>2. file' = Append(file, clock)
    BY <2>1, HealthyAppend DEF Copied
  <2>3. Buffered \subseteq Buffered'
    BY <1>1, <2>1, <2>2, AppendLemma DEF Buffered
  <2> QED
    BY <2>3
<1>7. CASE Crash
  BY <1>7 DEF Crash, Healthy
<1>8. CASE Collect \/ DrainError \/ ReplayError \/ SendFresh \/ SendFreshError \/ Restart
           \/ Outage \/ UNCHANGED vars
  <2>1. file' = file /\ replay' = replay
    BY <1>8 DEF Collect, DrainError, ReplayError, SendFresh, SendFreshError, Restart, Outage,
                vars, process, disk
  <2> QED
    BY <2>1 DEF Buffered
<1> QED
  BY <1>3, <1>4, <1>5, <1>6, <1>7, <1>8 DEF Next, Cycle

\* While the process lives and appends succeed, the oldest buffered sample
\* leaves the buffer only by being acknowledged, however many truncations
\* fail, as long as the file was never cut to maxEntries.
THEOREM OldestSurvives == Spec => OldestIsKept
<1>1. CASE Healthy
  <2>1. Init => Copied
    BY FirstEmpty, EmptyLemma DEF Init, Copied, CopiesInOrder, Lines, Buffered
  <2>2. TypeOK /\ Coupled /\ Copied /\ [Next]_vars => Copied'
    BY <1>1, CopiedInductive
  <2>3. TypeOK /\ Coupled /\ Ordered /\ Copied /\ [Next]_vars =>
          [Faults \cap {"crash", "append", "torn"} = {} /\ NeverCut =>
             \A s \in Buffered \ Buffered' : (\A r \in Buffered : s <= r) => s \in acked']_vars
    BY <1>1, OldestStays
  <2> QED
    BY <2>1, <2>2, <2>3, OrderedInvariant, PTL DEF Spec, OldestIsKept
<1>2. CASE ~Healthy
  <2>1. [Next]_vars =>
          [Faults \cap {"crash", "append", "torn"} = {} /\ NeverCut =>
             \A s \in Buffered \ Buffered' : (\A r \in Buffered : s <= r) => s \in acked']_vars
    BY <1>2 DEF Healthy
  <2> QED
    BY <2>1, PTL DEF Spec, OldestIsKept
<1> QED
  BY <1>1, <1>2

\* As many samples as lines, when they are in order.
LEMMA AscendingSize ==
    ASSUME NEW q \in Seq(Samples), Ascending(q)
    PROVE  IsFiniteSet(ToSet(q)) /\ Cardinality(ToSet(q)) = Len(q)
<1>1. Len(q) \in Nat /\ DOMAIN q = 1..Len(q) /\ q \in [1..Len(q) -> Samples]
  BY LenProperties
<1>2. ToSet(q) = {q[i] : i \in 1..Len(q)}
  BY <1>1 DEF ToSet
<1>3. q \in Surjection(1..Len(q), ToSet(q))
  <2>1. q \in [1..Len(q) -> ToSet(q)]
    BY <1>1, <1>2
  <2> QED
    BY <1>2, <2>1 DEF Surjection
<1>4. IsFiniteSet(1..Len(q)) /\ Cardinality(1..Len(q)) = Len(q)
  <2>1. 1 \in Int /\ Len(q) \in Int /\ (1 > Len(q) => Len(q) = 0) /\ Len(q) - 1 + 1 = Len(q)
    BY <1>1
  <2>2. /\ IsFiniteSet(1..Len(q))
        /\ Cardinality(1..Len(q)) = IF 1 > Len(q) THEN 0 ELSE Len(q) - 1 + 1
    BY <2>1, FS_Interval
  <2> QED
    BY <2>1, <2>2
<1>5. q \in Injection(1..Len(q), ToSet(q))
  <2>1. \A i, j \in 1..Len(q) : q[i] = q[j] => i = j
    <3>1. Samples \subseteq Int
      BY AgentAssumption DEF Samples
    <3>2. \A i \in 1..Len(q) : q[i] \in Int
      BY <1>1, <3>1
    <3> QED
      BY <1>1, <3>2 DEF Ascending
  <2>2. q \in [1..Len(q) -> ToSet(q)]
    BY <1>1, <1>2
  <2> QED
    BY <1>1, <2>1, <2>2 DEF Injection, IsInjective
<1> QED
  BY <1>3, <1>4, <1>5, FS_Surjection

\* What a drain of a file in order drops is older than all it keeps.
LEMMA NewestKeepsNewest ==
    ASSUME NEW q \in Seq(Samples), MaxEntries \in Nat \ {0}, Ascending(q),
           NEW s \in ToSet(q) \ ToSet(Newest(q))
    PROVE  Len(Newest(q)) = MaxEntries /\ \A r \in ToSet(Newest(q)) : s < r
<1>1. Len(q) \in Nat /\ DOMAIN q = 1..Len(q)
  BY LenProperties
<1>2. Len(q) > MaxEntries
  BY DEF Newest
<1> DEFINE n == Len(q) - MaxEntries
<1>3. n \in Nat /\ n + 1 \in Int /\ \A i \in (n + 1)..Len(q) : i \in 1..Len(q)
  BY <1>1, <1>2
<1>4. Newest(q) = SubSeq(q, n + 1, Len(q))
  BY <1>2 DEF Newest
<1>5. /\ Newest(q) \in Seq(Samples)
      /\ Len(Newest(q)) = IF n + 1 <= Len(q) THEN Len(q) - (n + 1) + 1 ELSE 0
      /\ \A i \in 1..(Len(q) - (n + 1) + 1) : Newest(q)[i] = q[(n + 1) + i - 1]
  <2>1. \A i \in (n + 1)..Len(q) : q[i] \in Samples
    BY <1>3, ElementOfSeq
  <2> HIDE DEF n
  <2>2. n + 1 \in Int /\ Len(q) \in Int
    BY <1>1, <1>3
  <2> QED
    BY <1>4, <2>1, <2>2, SubSeqProperties
<1>6. /\ Len(Newest(q)) = MaxEntries
      /\ \A i \in 1..MaxEntries : i + n \in 1..Len(q) /\ Newest(q)[i] = q[i + n]
  BY <1>1, <1>2, <1>3, <1>5, SMT DEF n
<1>7. DOMAIN Newest(q) = 1..MaxEntries
  BY <1>5, <1>6, LenProperties
<1>8. PICK j \in 1..Len(q) : s = q[j]
  BY <1>1 DEF ToSet
<1>9. j <= n
  <2> SUFFICES ASSUME n < j PROVE FALSE
    BY <1>3
  <2>1. j - n \in 1..MaxEntries /\ (j - n) + n = j
    BY <1>1, <1>2, <1>3
  <2>2. Newest(q)[j - n] = s
    <3>1. Newest(q)[j - n] = q[(j - n) + n]
      BY <1>6, <2>1
    <3> QED
      BY <1>8, <2>1, <3>1
  <2>3. s \in ToSet(Newest(q))
    BY <1>7, <2>1, <2>2 DEF ToSet
  <2> QED
    BY <2>3
<1>10. ASSUME NEW r \in ToSet(Newest(q)) PROVE s < r
  <2>1. PICK i \in 1..MaxEntries : r = Newest(q)[i]
    BY <1>7 DEF ToSet
  <2>2. i + n \in 1..Len(q) /\ r = q[i + n] /\ j < i + n
    BY <1>3, <1>6, <1>9, <2>1
  <2> QED
    BY <1>8, <2>2 DEF Ascending
<1> QED
  BY <1>6, <1>10

\* When the file has outgrown maxEntries, a drain drops a sample only if
\* maxEntries newer ones are kept.
THEOREM OverflowIsOldest == Spec => OverflowDropsOldest
<1>1. ASSUME TypeOK, Coupled, Ordered, [Next]_vars, pc = "drain", ~untruncated,
             NEW s \in Buffered \ Buffered'
      PROVE  Cardinality({r \in Buffered' : s < r}) >= MaxEntries
  <2>1. /\ file \in Seq(Samples) /\ replay \in Seq(Samples) /\ MaxEntries \in Nat \ {0}
        /\ replay = << >>
    BY <1>1, TypeFacts
  <2>2. CASE Drain
    <3>1. Ascending(file)
      BY <1>1 DEF Ordered, InOrder
    <3>2. replay' = Newest(file) /\ (file' = << >> \/ file' = file)
      BY <2>2 DEF Drain
    <3>3. ToSet(Newest(file)) \subseteq ToSet(file) /\ Newest(file) \in Seq(Samples) /\ Ascending(Newest(file))
      BY <2>1, <3>1, NewestLemma
    <3>4. s \in ToSet(file) \ ToSet(Newest(file)) /\ Buffered' = ToSet(Newest(file))
      <4>1. Buffered = ToSet(file) /\ Buffered' = ToSet(file') \cup ToSet(Newest(file))
        BY <2>1, <3>2, EmptyLemma DEF Buffered
      <4>2. file' # file
        BY <1>1, <4>1
      <4> QED
        BY <1>1, <3>2, <4>1, <4>2, EmptyLemma
    <3>5. Len(Newest(file)) = MaxEntries /\ \A r \in ToSet(Newest(file)) : s < r
      BY <2>1, <3>1, <3>4, NewestKeepsNewest
    <3>6. Cardinality(ToSet(Newest(file))) = MaxEntries
      BY <3>3, <3>5, AscendingSize
    <3>7. {r \in Buffered' : s < r} = ToSet(Newest(file))
      BY <3>4, <3>5
    <3>8. Cardinality({r \in Buffered' : s < r}) = MaxEntries
      BY <3>6, <3>7
    <3> QED
      BY <2>1, <3>8
  <2>3. CASE ~Drain
    <3>1. file' = file
      BY <1>1, <2>3 DEF Next, Cycle, Collect, DrainError, Replay, ReplayError, Rebuffer, SendFresh,
             SendFreshError, Buffer, Crash, Restart, Outage, vars, process, disk, history
    <3>2. Buffered \subseteq Buffered'
      BY <2>1, <3>1, EmptyLemma DEF Buffered
    <3> QED
      BY <1>1, <3>2
  <2> QED
    BY <2>2, <2>3
<1>2. TypeOK /\ Coupled /\ Ordered /\ [Next]_vars =>
        [pc = "drain" /\ ~untruncated =>
           \A s \in Buffered \ Buffered' : Cardinality({r \in Buffered' : s < r}) >= MaxEntries]_vars
  BY <1>1
<1> QED
  BY <1>2, OrderedInvariant, PTL DEF Spec, OverflowDropsOldest

============================================================================
