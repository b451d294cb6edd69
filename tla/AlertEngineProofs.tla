-------------------------- MODULE AlertEngineProofs --------------------------
(***************************************************************************)
(* Proofs about the alert engine, for every set of rules, whatever their   *)
(* rows hold, every threshold and window and every set of failures.        *)
(* Sound is inductive together with TypeOK: it says what the engine knows  *)
(* at each place of evaluate and handleState.  The safety properties and   *)
(* the action property about disabled rules follow from it.                *)
(***************************************************************************)
EXTENDS AlertEngine, SumLemmas, SequenceTheorems, TLAPS

Evaluating ==
    pc \in {"state", "create", "alert", "resolve", "again", "resolved", "hung"}

\* What was looked up is still so when it is acted upon, unless an INSERT was
\* carried out in between.
Fresh ==
    /\ \A r \in Rules : open[r] <= 1 + belated[r]
    /\ pc = "create" => open[rule] <= belated[rule]

\* A notification that is still to be sent has not been counted.
Owed ==
    /\ pc = "alert" => alerts[rule] < open[rule] + closed[rule]
    /\ pc \in {"again", "resolved"} => resolved[rule] < closed[rule]

\* Every rule that is or will be evaluated in this pass was enabled when it
\* began.
Planned == todo \subseteq planned /\ (Evaluating => rule \in planned)

Sound ==
    /\ window \in [Rules -> Seq(Nat)]
    /\ Fresh /\ Owed /\ NotifiedOnce /\ Planned

----------------------------------------------------------------------------
(* Counters, windows and failures. *)

\* A failure counts.
LEMMA FaultLemma ==
    ASSUME faults \in 0..MaxFaults, (\E kind : Fault(kind)) \/ UNCHANGED faults
    PROVE  faults' \in 0..MaxFaults /\ faults' >= faults
  BY AlertAssumption DEF Fault

\* Counting one up or down.
LEMMA CounterLemma ==
    ASSUME NEW f \in [Rules -> Nat], NEW r \in Rules
    PROVE  /\ Inc(f, r) \in [Rules -> Nat]
           /\ \A q \in Rules : Inc(f, r)[q] = IF q = r THEN f[q] + 1 ELSE f[q]
           /\ f[r] > 0 => Dec(f, r) \in [Rules -> Nat]
           /\ \A q \in Rules : Dec(f, r)[q] = IF q = r THEN f[q] - 1 ELSE f[q]
  BY DEF Inc, Dec

\* Whatever a rule reads is a natural number.
LEMMA ReadingsLemma ==
    ASSUME TypeOK, NEW r \in Rules
    PROVE  Readings(config[r].kind) \subseteq Nat
<1>1. config \in [Rules -> AlertRule] /\ Values \subseteq Nat
  BY AlertAssumption DEF TypeOK
<1>2. config[r].kind \in HostKinds \cup {"probe_down", "probe_slow", "unknown"}
  BY <1>1 DEF AlertRule
<1>3. Collect \subseteq Nat
  BY <1>1 DEF Collect
<1>4. \A c \in Check : c.up \in Nat /\ c.ms \in Nat
  <2>1. ASSUME NEW c \in CheckTCP
        PROVE  c.up \in Nat /\ c.ms \in Nat
    <3>1. c.up \in {0, 1} /\ c.ms \in Values
      BY <2>1 DEF CheckTCP
    <3>2. {0, 1} \subseteq Nat
      OBVIOUS
    <3> QED
      BY <1>1, <3>1, <3>2, Zenon
  <2>2. ASSUME NEW c \in CheckHTTP
        PROVE  c.up \in Nat /\ c.ms \in Nat
    <3>1. PICK status \in {0, 200, 404, 503}, v \in Values :
              c = [up |-> IF status \in 1..499 THEN 1 ELSE 0, ms |-> v]
      BY <2>2 DEF CheckHTTP
    <3>2. c.up \in {0, 1} /\ c.ms = v
      BY <3>1
    <3> QED
      BY <1>1, <3>2
  <2> QED
    BY <2>1, <2>2 DEF Check
<1> QED
  BY <1>2, <1>3, <1>4 DEF Readings, HostKinds

\* A window loses its oldest row, or takes in one more.
LEMMA WindowLemma ==
    ASSUME NEW S, NEW w \in Seq(S)
    PROVE  /\ w # << >> => Tail(w) \in Seq(S) /\ Len(Tail(w)) = Len(w) - 1
           /\ \A v \in S : Append(w, v) \in Seq(S) /\ Len(Append(w, v)) = Len(w) + 1
                           /\ Append(w, v) # << >>
  BY HeadTailProperties, AppendProperties

----------------------------------------------------------------------------
(* The steps that only move the pass on. *)

\* What a step has to establish that leaves incidents, notifications, windows
\* and rules as they are and does not begin with another rule.
LEMMA MoveLemma ==
    ASSUME TypeOK, Sound, UNCHANGED <<incidents, notified, world>>,
           (\E kind : Fault(kind)) \/ UNCHANGED faults,
           \/ pc' \in {"idle", "down"} /\ todo' = {} /\ planned' = {}
                /\ rule' \in {rule, NoRule}
           \/ pc' \in {"next", "hung", "stalled", pc} /\ (pc' = "hung" => Evaluating)
                /\ UNCHANGED <<todo, rule, seen, planned>>
    PROVE  TypeOK' /\ Sound'
<1>1. faults' \in 0..MaxFaults
  BY FaultLemma DEF TypeOK
<1>2. UNCHANGED <<open, closed, inserts, updates, belated, alerts, resolved, config, window,
                  enabled, changes>>
  BY DEF incidents, lost, notified, world
<1>3. CASE pc' \in {"idle", "down"} /\ todo' = {} /\ planned' = {} /\ rule' \in {rule, NoRule}
  <2>1. Sound'
    BY <1>2, <1>3 DEF Sound, Fresh, Owed, NotifiedOnce, Planned, Evaluating
  <2> QED
    BY <1>1, <1>2, <1>3, <2>1 DEF TypeOK
<1>4. CASE /\ pc' \in {"next", "hung", "stalled", pc} /\ (pc' = "hung" => Evaluating)
           /\ UNCHANGED <<todo, rule, seen, planned>>
  <2>1. Sound'
    BY <1>2, <1>4 DEF Sound, Fresh, Owed, NotifiedOnce, Planned, Evaluating
  <2>2. TypeOK'
    BY <1>1, <1>2, <1>4 DEF TypeOK, Evaluating
  <2> QED
    BY <2>1, <2>2
<1> QED
  BY <1>3, <1>4

----------------------------------------------------------------------------
(* A measurement arrives or is too old, or a rule is switched. *)

LEMMA WorldLemma ==
    ASSUME TypeOK, Sound, Measure \/ Age \/ Toggle
    PROVE  TypeOK' /\ Sound'
<1>1. UNCHANGED <<config, incidents, notified, engine, faults>> /\ changes' \in 0..MaxChanges
  <2>1. Changing
    BY DEF Measure, Age, Toggle
  <2>2. changes \in 0..MaxChanges /\ MaxChanges \in Nat
    BY AlertAssumption DEF TypeOK
  <2> QED
    BY <2>1, <2>2 DEF Changing
<1>2. enabled' \in [Rules -> BOOLEAN]
  BY DEF Measure, Age, Toggle, TypeOK
<1>3. /\ window' \in [Rules -> Seq(Nat)]
      /\ \A r \in Rules : /\ window'[r] \in Seq(Readings(config[r].kind))
                          /\ Len(window'[r]) <= MaxWindow
  <2> DEFINE Typed(r, w) == /\ w \in Seq(Readings(config[r].kind)) /\ w \in Seq(Nat)
                            /\ Len(w) <= MaxWindow
  <2>1. \A r \in Rules : Typed(r, window[r]) /\ Len(window[r]) \in Nat
    BY LenProperties DEF TypeOK, Sound
  <2>2. ASSUME NEW r \in Rules, NEW w, window' = [window EXCEPT ![r] = w], Typed(r, w)
        PROVE  /\ window' \in [Rules -> Seq(Nat)] /\ \A q \in Rules : Typed(q, window'[q])
    BY <2>1, <2>2 DEF Sound
  <2>3. CASE Toggle
    BY <2>1, <2>3 DEF Toggle, Sound
  <2>4. CASE Age
    <3>1. PICK r \in Rules : window[r] # << >> /\ window' = [window EXCEPT ![r] = Tail(@)]
      BY <2>4 DEF Age
    <3>2. Typed(r, Tail(window[r]))
      <4>1. /\ Tail(window[r]) \in Seq(Readings(config[r].kind))
            /\ Len(Tail(window[r])) = Len(window[r]) - 1
        BY <2>1, <3>1, WindowLemma
      <4>2. Tail(window[r]) \in Seq(Nat)
        BY <2>1, <3>1, WindowLemma
      <4> QED
        BY <2>1, <4>1, <4>2, AlertAssumption
    <3>3. window' = [window EXCEPT ![r] = Tail(window[r])]
      BY <3>1 DEF Sound
    <3> QED
      BY <2>2, <3>2, <3>3
  <2>5. CASE Measure
    <3>0. PICK r \in Rules : \E v \in Readings(config[r].kind) :
              window' = [window EXCEPT ![r] = IF Len(Append(window[r], v)) > MaxWindow
                                              THEN Tail(Append(window[r], v))
                                              ELSE Append(window[r], v)]
      BY <2>5 DEF Measure
    <3>1. PICK v \in Readings(config[r].kind) :
              window' = [window EXCEPT ![r] = IF Len(Append(window[r], v)) > MaxWindow
                                              THEN Tail(Append(window[r], v))
                                              ELSE Append(window[r], v)]
      BY <3>0
    <3> DEFINE w == Append(window[r], v)
    <3>2. /\ w \in Seq(Readings(config[r].kind)) /\ w # << >>
          /\ Len(w) = Len(window[r]) + 1
      BY <2>1, WindowLemma
    <3>3. w \in Seq(Nat)
      BY <2>1, ReadingsLemma, WindowLemma
    <3> HIDE DEF w
    <3>4. /\ Tail(w) \in Seq(Readings(config[r].kind))
          /\ Len(Tail(w)) = Len(w) - 1
      BY <3>2, WindowLemma
    <3>5. Tail(w) \in Seq(Nat)
      BY <3>2, <3>3, WindowLemma
    <3>6. Typed(r, IF Len(w) > MaxWindow THEN Tail(w) ELSE w)
      <4>1. Typed(r, window[r]) /\ Len(window[r]) \in Nat /\ MaxWindow \in Nat
        BY <2>1, AlertAssumption
      <4>2. Typed(r, Tail(w))
        BY <3>2, <3>4, <3>5, <4>1
      <4>3. ~(Len(w) > MaxWindow) => Typed(r, w)
        BY <3>2, <3>3, <4>1
      <4> HIDE DEF Typed
      <4>4. CASE Len(w) > MaxWindow
        BY <4>2, <4>4
      <4>5. CASE ~(Len(w) > MaxWindow)
        BY <4>3, <4>5
      <4> QED
        BY <4>4, <4>5
    <3> QED
      BY <2>2, <3>1, <3>6 DEF w
  <2> QED
    BY <2>3, <2>4, <2>5
<1>4. Sound'
  BY <1>1, <1>3
     DEF Sound, Fresh, Owed, NotifiedOnce, Planned, Evaluating, incidents, lost, notified, engine
<1> QED
  BY <1>1, <1>2, <1>3, <1>4 DEF TypeOK, incidents, lost, notified, engine

----------------------------------------------------------------------------
(* What the rows of alert_incidents go through. *)

\* One more incident is open, inserted in time or late.
LEMMA OpenLemma ==
    ASSUME TypeOK, NEW r \in Rules, open' = Inc(open, r)
    PROVE  /\ open' \in [Rules -> Nat]
           /\ open'[r] = open[r] + 1 /\ \A q \in Rules \ {r} : open'[q] = open[q]
           /\ \A q \in Rules : open[q] \in Nat /\ closed[q] \in Nat /\ alerts[q] \in Nat
                              /\ resolved[q] \in Nat /\ belated[q] \in Nat
                              /\ open'[q] >= open[q]
<1>1. /\ open \in [Rules -> Nat] /\ closed \in [Rules -> Nat] /\ belated \in [Rules -> Nat]
      /\ alerts \in [Rules -> Nat] /\ resolved \in [Rules -> Nat]
  BY DEF TypeOK
<1>2. /\ open' \in [Rules -> Nat]
      /\ \A q \in Rules : open'[q] = IF q = r THEN open[q] + 1 ELSE open[q]
  BY <1>1, CounterLemma
<1> QED
  BY <1>1, <1>2

\* One is closed: no notification becomes wrong by it, and one late INSERT
\* less is to be made up for.
LEMMA CloseLemma ==
    ASSUME TypeOK, NEW r \in Rules, CloseOne(r)
    PROVE  /\ open' \in [Rules -> Nat] /\ closed' \in [Rules -> Nat]
           /\ belated' \in [Rules -> Nat]
           /\ open'[r] = open[r] - 1 /\ closed'[r] = closed[r] + 1 /\ open[r] > 0
           /\ belated'[r] = IF belated[r] > 0 THEN belated[r] - 1 ELSE 0
           /\ \A q \in Rules \ {r} :
                  open'[q] = open[q] /\ closed'[q] = closed[q] /\ belated'[q] = belated[q]
           /\ \A q \in Rules : open[q] \in Nat /\ closed[q] \in Nat /\ alerts[q] \in Nat
                              /\ resolved[q] \in Nat /\ belated[q] \in Nat
<1>1. /\ open \in [Rules -> Nat] /\ closed \in [Rules -> Nat] /\ belated \in [Rules -> Nat]
      /\ alerts \in [Rules -> Nat] /\ resolved \in [Rules -> Nat]
  BY DEF TypeOK
<1>2. /\ open[r] > 0 /\ open' = Dec(open, r) /\ closed' = Inc(closed, r)
      /\ belated' = IF belated[r] > 0 THEN Dec(belated, r) ELSE belated
  BY DEF CloseOne
<1>3. CASE belated[r] > 0
  <2>1. /\ open' \in [Rules -> Nat] /\ closed' \in [Rules -> Nat]
        /\ open'[r] = open[r] - 1 /\ closed'[r] = closed[r] + 1
        /\ \A q \in Rules \ {r} : open'[q] = open[q] /\ closed'[q] = closed[q]
    <3>1. /\ open' \in [Rules -> Nat]
          /\ \A q \in Rules : open'[q] = IF q = r THEN open[q] - 1 ELSE open[q]
      BY <1>1, <1>2, CounterLemma
    <3>2. /\ closed' \in [Rules -> Nat]
          /\ \A q \in Rules : closed'[q] = IF q = r THEN closed[q] + 1 ELSE closed[q]
      BY <1>1, <1>2, CounterLemma
    <3> QED
      BY <3>1, <3>2
  <2>2. /\ belated' \in [Rules -> Nat] /\ belated'[r] = belated[r] - 1
        /\ \A q \in Rules \ {r} : belated'[q] = belated[q]
    BY <1>1, <1>2, <1>3, CounterLemma
  <2> QED
    BY <1>1, <1>2, <1>3, <2>1, <2>2
<1>4. CASE ~(belated[r] > 0)
  BY <1>1, <1>2, <1>4, CounterLemma
<1> QED
  BY <1>3, <1>4

\* What closing an incident keeps.
LEMMA CloseKeeps ==
    ASSUME TypeOK, Sound, NEW r \in Rules, CloseOne(r), UNCHANGED notified
    PROVE  /\ NotifiedOnce' /\ resolved[r] < closed'[r]
           /\ \A q \in Rules :
               /\ open'[q] <= 1 + belated'[q]
               /\ open[q] <= belated[q] => open'[q] <= belated'[q]
               /\ open'[q] + closed'[q] = open[q] + closed[q]
               /\ closed'[q] >= closed[q] /\ closed'[q] \in Nat
<1>1. \A q \in Rules : /\ alerts[q] <= open[q] + closed[q] /\ resolved[q] <= closed[q]
                       /\ open[q] <= 1 + belated[q]
  BY DEF Sound, NotifiedOnce, Fresh
<1>2. UNCHANGED <<alerts, resolved>>
  BY DEF notified
<1>3. /\ alerts[r] <= open'[r] + closed'[r] /\ resolved[r] < closed'[r]
      /\ open'[r] <= 1 + belated'[r]
      /\ open[r] <= belated[r] => open'[r] <= belated'[r]
      /\ open'[r] + closed'[r] = open[r] + closed[r]
      /\ closed'[r] >= closed[r] /\ closed'[r] \in Nat /\ resolved[r] <= closed'[r]
  BY <1>1, CloseLemma
<1>4. ASSUME NEW q \in Rules \ {r}
      PROVE  /\ alerts[q] <= open'[q] + closed'[q] /\ resolved[q] <= closed'[q]
             /\ open'[q] <= 1 + belated'[q]
             /\ open[q] <= belated[q] => open'[q] <= belated'[q]
             /\ open'[q] + closed'[q] = open[q] + closed[q]
             /\ closed'[q] >= closed[q] /\ closed'[q] \in Nat
  BY <1>1, CloseLemma
<1> QED
  BY <1>2, <1>3, <1>4 DEF NotifiedOnce

\* A write that the engine gives up on.
LEMMA LostLemma ==
    ASSUME TypeOK, Sound, UNCHANGED <<notified, todo, rule, seen, planned, world>>,
           \/ pc = "create" /\ InsertLost
           \/ pc = "resolve" /\ UpdateLost,
           \E kind : Fault(kind), pc' \in {"next", "stalled"}
    PROVE  TypeOK' /\ Sound'
<1>1. faults' \in 0..MaxFaults
  BY FaultLemma DEF TypeOK
<1>2. /\ UNCHANGED <<open, closed, belated, alerts, resolved, config, window, enabled,
                     changes, todo, rule, seen, planned>>
      /\ rule \in Rules
  BY DEF InsertLost, UpdateLost, notified, world, TypeOK
<1>3. /\ inserts' \in [Rules -> Nat] /\ updates' \in [Rules -> Nat]
      /\ \A r \in Rules : updates'[r] <= open[r]
  <2>1. /\ inserts \in [Rules -> Nat] /\ updates \in [Rules -> Nat] /\ open \in [Rules -> Nat]
        /\ \A r \in Rules : updates[r] <= open[r]
    BY DEF TypeOK
  <2>2. CASE inserts' = Inc(inserts, rule) /\ UNCHANGED updates
    BY <1>2, <2>1, <2>2, CounterLemma
  <2>3. CASE updates' = Inc(updates, rule) /\ updates[rule] < open[rule] /\ UNCHANGED inserts
    <3>1. /\ updates' \in [Rules -> Nat]
          /\ \A q \in Rules : updates'[q] = IF q = rule THEN updates[q] + 1 ELSE updates[q]
      BY <1>2, <2>1, <2>3, CounterLemma
    <3>2. \A q \in Rules : updates[q] \in Nat /\ open[q] \in Nat
      BY <2>1
    <3> QED
      BY <1>2, <2>1, <2>3, <3>1, <3>2
  <2>4. CASE UNCHANGED <<inserts, updates>>
    BY <2>1, <2>4
  <2> QED
    BY <2>2, <2>3, <2>4 DEF InsertLost, UpdateLost
<1>4. Sound'
  BY <1>2 DEF Sound, Fresh, Owed, NotifiedOnce, Planned, Evaluating
<1> QED
  BY <1>1, <1>2, <1>3, <1>4 DEF TypeOK

\* A write that is carried out after that.
LEMMA LateInsertLemma ==
    ASSUME TypeOK, Sound, LateInsert
    PROVE  TypeOK' /\ Sound'
<1>1. PICK r \in Rules : /\ inserts[r] > 0 /\ inserts' = Dec(inserts, r)
                         /\ open' = Inc(open, r) /\ belated' = Inc(belated, r)
  BY DEF LateInsert
<1>2. UNCHANGED <<closed, updates, alerts, resolved, pc, todo, rule, seen, planned, config,
                  window, enabled, changes, faults>>
  BY DEF LateInsert, notified, engine, world
<1>3. /\ inserts' \in [Rules -> Nat] /\ belated' \in [Rules -> Nat]
      /\ belated'[r] = belated[r] + 1 /\ \A q \in Rules \ {r} : belated'[q] = belated[q]
  <2>1. inserts \in [Rules -> Nat] /\ belated \in [Rules -> Nat]
    BY DEF TypeOK
  <2>2. \A q \in Rules : belated'[q] = IF q = r THEN belated[q] + 1 ELSE belated[q]
    BY <1>1, <2>1, CounterLemma
  <2> QED
    BY <1>1, <2>1, <2>2, CounterLemma
<1>4. \A q \in Rules : /\ updates[q] \in Nat /\ updates[q] <= open[q]
                       /\ alerts[q] <= open[q] + closed[q] /\ resolved[q] <= closed[q]
                       /\ open[q] <= 1 + belated[q]
  BY DEF TypeOK, Sound, NotifiedOnce, Fresh
<1>5. \A q \in Rules : /\ updates[q] <= open'[q] /\ alerts[q] <= open'[q] + closed[q]
                       /\ open'[q] <= 1 + belated'[q]
                       /\ open[q] <= belated[q] => open'[q] <= belated'[q]
                       /\ alerts[q] < open[q] + closed[q] => alerts[q] < open'[q] + closed[q]
  <2>1. /\ updates[r] <= open'[r] /\ alerts[r] <= open'[r] + closed[r]
        /\ open'[r] <= 1 + belated'[r]
        /\ open[r] <= belated[r] => open'[r] <= belated'[r]
        /\ alerts[r] < open[r] + closed[r] => alerts[r] < open'[r] + closed[r]
    BY <1>1, <1>3, <1>4, OpenLemma
  <2>2. \A q \in Rules \ {r} : open'[q] = open[q] /\ belated'[q] = belated[q]
    BY <1>1, <1>3, OpenLemma
  <2> QED
    BY <1>4, <2>1, <2>2
<1>6. Sound'
  <2>1. Fresh' /\ Owed' /\ NotifiedOnce'
    <3>1. pc \in {"create", "alert"} => rule \in Rules
      BY DEF TypeOK
    <3>2. Fresh'
      BY <1>2, <1>5, <3>1 DEF Sound, Fresh
    <3>3. Owed'
      BY <1>2, <1>5, <3>1 DEF Sound, Owed
    <3>4. NotifiedOnce'
      BY <1>2, <1>4, <1>5 DEF NotifiedOnce
    <3> QED
      BY <3>2, <3>3, <3>4
  <2> QED
    BY <1>2, <2>1 DEF Sound, Planned, Evaluating
<1>7. open' \in [Rules -> Nat]
  BY <1>1, OpenLemma
<1>8. /\ config' \in Configs /\ enabled' \in [Rules -> BOOLEAN]
      /\ \A q \in Rules : /\ window'[q] \in Seq(Readings(config'[q].kind))
                          /\ Len(window'[q]) <= MaxWindow
  BY <1>2, Zenon DEF TypeOK
<1> QED
  BY <1>2, <1>3, <1>5, <1>6, <1>7, <1>8 DEF TypeOK

LEMMA LateUpdateLemma ==
    ASSUME TypeOK, Sound, LateUpdate
    PROVE  TypeOK' /\ Sound'
<1>1. PICK r \in Rules :
        /\ updates[r] > 0 /\ updates' = Dec(updates, r) /\ CloseOne(r)
        /\ \/ UNCHANGED pc
           \/ pc = "resolve" /\ rule = r /\ pc' = "again"
  BY DEF LateUpdate
<1>2. UNCHANGED <<inserts, alerts, resolved, notified, todo, rule, seen, planned, config,
                  window, enabled, changes, faults>>
  BY DEF LateUpdate, notified, world
<1>3. /\ updates' \in [Rules -> Nat]
      /\ \A q \in Rules : updates'[q] <= open'[q]
  <2>1. \A q \in Rules : updates[q] \in Nat /\ open[q] \in Nat /\ updates[q] <= open[q]
    BY DEF TypeOK
  <2>2. /\ updates' \in [Rules -> Nat]
        /\ \A q \in Rules : updates'[q] = IF q = r THEN updates[q] - 1 ELSE updates[q]
    <3>1. updates \in [Rules -> Nat]
      BY DEF TypeOK
    <3> QED
      BY <1>1, <3>1, CounterLemma
  <2>3. open'[r] = open[r] - 1 /\ \A q \in Rules \ {r} : open'[q] = open[q]
    BY <1>1, CloseLemma
  <2> QED
    BY <2>1, <2>2, <2>3
<1>4. /\ NotifiedOnce' /\ resolved[r] < closed'[r]
      /\ \A q \in Rules :
           /\ open'[q] <= 1 + belated'[q]
           /\ open[q] <= belated[q] => open'[q] <= belated'[q]
           /\ open'[q] + closed'[q] = open[q] + closed[q]
           /\ closed'[q] >= closed[q] /\ closed'[q] \in Nat
  BY <1>1, <1>2, CloseKeeps
<1>5. Owed'
  <2>1. ASSUME pc \in {"alert", "again", "resolved"}
        PROVE  rule \in Rules /\ pc' = pc
    BY <1>1, <2>1 DEF TypeOK
  <2>2. ASSUME pc = "alert"
        PROVE  alerts'[rule'] < open'[rule'] + closed'[rule']
    BY <1>2, <1>4, <2>1, <2>2 DEF Sound, Owed
  <2>3. ASSUME pc \in {"again", "resolved"}
        PROVE  resolved'[rule'] < closed'[rule']
    <3>1. resolved[rule] < closed[rule] /\ rule \in Rules
      BY <2>1, <2>3 DEF Sound, Owed
    <3>2. resolved[rule] \in Nat /\ closed[rule] \in Nat
      BY <3>1 DEF TypeOK
    <3> QED
      BY <1>2, <1>4, <3>1, <3>2
  <2>4. ASSUME pc' = "again", pc = "resolve"
        PROVE  resolved'[rule'] < closed'[rule']
    BY <1>1, <1>2, <1>4, <2>4
  <2> QED
    BY <1>1, <2>2, <2>3, <2>4 DEF Owed
<1>6. Fresh'
  <2>1. pc' = "create" => pc = "create" /\ rule \in Rules
    BY <1>1 DEF TypeOK
  <2> QED
    BY <1>2, <1>4, <2>1 DEF Sound, Fresh
<1>7. Sound'
  BY <1>1, <1>2, <1>4, <1>5, <1>6 DEF Sound, Planned, Evaluating
<1>8. /\ open' \in [Rules -> Nat] /\ closed' \in [Rules -> Nat] /\ belated' \in [Rules -> Nat]
  BY <1>1, CloseLemma
<1> QED
  BY <1>1, <1>2, <1>3, <1>7, <1>8 DEF TypeOK

----------------------------------------------------------------------------
(* The inductive step. *)

LEMMA SoundInductive ==
    ASSUME TypeOK, Sound, [Next]_vars
    PROVE  TypeOK' /\ Sound'
<1> USE DEF incidents, lost, notified, engine, world
<1>0. /\ open \in [Rules -> Nat] /\ closed \in [Rules -> Nat]
      /\ alerts \in [Rules -> Nat] /\ resolved \in [Rules -> Nat]
  BY DEF TypeOK
<1>1. CASE StartPass
  <2>1. /\ todo' = GetEnabledRules /\ planned' = GetEnabledRules /\ pc' = "next"
        /\ GetEnabledRules \subseteq Rules
        /\ UNCHANGED <<incidents, alerts, resolved, config, window, enabled, changes,
                       rule, seen, faults>>
    BY <1>1 DEF StartPass, GetEnabledRules
  <2>2. Sound'
    BY <2>1 DEF Sound, Fresh, Owed, NotifiedOnce, Planned, Evaluating
  <2> QED
    BY <2>1, <2>2 DEF TypeOK
<1>2. CASE StartPassError
  BY <1>2, MoveLemma DEF StartPassError
<1>3. CASE EndPass
  BY <1>3, MoveLemma DEF EndPass
<1>4. ASSUME NEW r \in Rules, Evaluate(r)
      PROVE  TypeOK' /\ Sound'
  <2>1. /\ r \in todo /\ todo' = todo \ {r} /\ rule' = r /\ seen' = window[r]
        /\ window[r] # << >> /\ pc' = "state"
        /\ UNCHANGED <<incidents, alerts, resolved, config, window, enabled, changes,
                       planned, faults>>
    BY <1>4 DEF Evaluate, NextRule
  <2>2. Sound'
    BY <2>1 DEF Sound, Fresh, Owed, NotifiedOnce, Planned, Evaluating
  <2>3. seen' \in Seq(Readings(config'[rule'].kind)) \ {<<>>}
    BY <2>1 DEF TypeOK
  <2> QED
    BY <2>1, <2>2, <2>3 DEF TypeOK
<1>5. ASSUME NEW r \in Rules, Skip(r)
      PROVE  TypeOK' /\ Sound'
  <2>1. /\ pc = "next" /\ todo' = todo \ {r}
        /\ UNCHANGED <<incidents, alerts, resolved, config, window, enabled, changes,
                       planned, pc, rule, seen>>
    BY <1>5 DEF Skip, NextRule
  <2>2. faults' \in 0..MaxFaults
    BY <1>5, FaultLemma DEF Skip, TypeOK
  <2>3. Sound'
    BY <2>1 DEF Sound, Fresh, Owed, NotifiedOnce, Planned, Evaluating
  <2> QED
    BY <2>1, <2>2, <2>3 DEF TypeOK
<1>6. CASE HandleState
  <2>1. /\ pc = "state"
        /\ pc' \in {"next", "create", "resolve"}
        /\ pc' = "create" => open[rule] = 0
        /\ UNCHANGED <<incidents, alerts, resolved, config, window, enabled, changes,
                       todo, rule, seen, planned, faults>>
    BY <1>6 DEF HandleState, Opens, Closes
  <2>2. rule \in Rules /\ belated[rule] \in Nat
    BY <2>1 DEF TypeOK
  <2>3. Sound'
    BY <2>1, <2>2 DEF Sound, Fresh, Owed, NotifiedOnce, Planned, Evaluating
  <2> QED
    BY <2>1, <2>3 DEF TypeOK
<1>7. CASE LookupError
  BY <1>7, MoveLemma DEF LookupError
<1>8. CASE CreateIncident
  <2>1. /\ pc = "create" /\ rule \in Rules /\ open[rule] <= belated[rule]
        /\ UNCHANGED <<alerts, resolved, config, window, enabled, changes, todo,
                       rule, seen, planned>>
    BY <1>8 DEF CreateIncident, TypeOK, Sound, Fresh
  <2>2. faults' \in 0..MaxFaults
    BY <1>8, FaultLemma DEF CreateIncident, TypeOK
  <2>3. CASE /\ open' = Inc(open, rule) /\ UNCHANGED <<closed, lost, belated>>
             /\ pc' \in {"alert", "next"}
    <3>1. /\ open' \in [Rules -> Nat]
          /\ open'[rule] = open[rule] + 1 /\ \A q \in Rules \ {rule} : open'[q] = open[q]
          /\ \A q \in Rules : open[q] \in Nat /\ closed[q] \in Nat /\ alerts[q] \in Nat
                             /\ resolved[q] \in Nat /\ belated[q] \in Nat
                             /\ open'[q] >= open[q]
      BY <2>1, <2>3, OpenLemma
    <3>2. Fresh'
      <4>1. \A q \in Rules : open[q] <= 1 + belated[q]
        BY DEF Sound, Fresh
      <4>2. \A q \in Rules : open'[q] <= 1 + belated[q]
        BY <2>1, <3>1, <4>1
      <4> QED
        BY <2>3, <4>2 DEF Fresh
    <3>3. Owed' /\ NotifiedOnce'
      <4>1. \A q \in Rules : alerts[q] <= open[q] + closed[q] /\ resolved[q] <= closed[q]
        BY DEF Sound, NotifiedOnce
      <4>2. NotifiedOnce'
        BY <2>1, <2>3, <3>1, <4>1 DEF NotifiedOnce
      <4>3. alerts'[rule'] < open'[rule'] + closed'[rule']
        BY <2>1, <2>3, <3>1, <4>1
      <4> QED
        BY <2>3, <4>2, <4>3 DEF Owed
    <3>4. Planned'
      BY <2>1, <2>3 DEF Sound, Planned, Evaluating
    <3>5. \A q \in Rules : updates'[q] <= open'[q]
      <4>1. \A q \in Rules : updates[q] \in Nat /\ updates[q] <= open[q]
        BY DEF TypeOK
      <4> QED
        BY <2>3, <3>1, <4>1
    <3> QED
      BY <2>1, <2>2, <2>3, <3>1, <3>2, <3>3, <3>4, <3>5 DEF TypeOK, Sound
  <2>4. CASE InsertLost /\ pc' = "next" /\ Fault("answer")
    BY <2>1, <2>4, LostLemma
  <2>5. CASE UNCHANGED incidents /\ pc' = "next" /\ Fault("write")
    BY <2>1, <2>5, MoveLemma
  <2> QED
    BY <1>8, <2>3, <2>4, <2>5 DEF CreateIncident
<1>9. CASE ResolveIncident
  <2>1. /\ pc \in {"resolve", "again"} /\ rule \in Rules
        /\ UNCHANGED <<alerts, resolved, config, window, enabled, changes, todo,
                       rule, seen, planned>>
    BY <1>9 DEF ResolveIncident, TypeOK
  <2>2. faults' \in 0..MaxFaults
    BY <1>9, FaultLemma DEF ResolveIncident, TypeOK
  <2>3. CASE /\ pc = "resolve" /\ CloseOne(rule) /\ UNCHANGED inserts
             /\ \/ updates' = updates /\ updates[rule] < open[rule]
                \/ updates' = Dec(updates, rule) /\ updates[rule] > 0
             /\ pc' \in {"resolved", "next"}
    <3>1. /\ open' \in [Rules -> Nat] /\ closed' \in [Rules -> Nat]
          /\ belated' \in [Rules -> Nat]
          /\ open'[rule] = open[rule] - 1 /\ \A q \in Rules \ {rule} : open'[q] = open[q]
      BY <2>1, <2>3, CloseLemma
    <3>2. /\ NotifiedOnce' /\ resolved[rule] < closed'[rule]
          /\ \A q \in Rules : open'[q] <= 1 + belated'[q]
      BY <2>1, <2>3, CloseKeeps
    <3>3. Sound'
      <4>1. Fresh' /\ Owed'
        BY <2>1, <2>3, <3>2 DEF Fresh, Owed
      <4> QED
        BY <2>1, <2>3, <3>2, <4>1 DEF Sound, Planned, Evaluating
    <3>4. updates' \in [Rules -> Nat] /\ \A q \in Rules : updates'[q] <= open'[q]
      <4>1. /\ updates \in [Rules -> Nat]
            /\ \A q \in Rules : updates[q] \in Nat /\ updates[q] <= open[q] /\ open[q] \in Nat
        BY DEF TypeOK
      <4>2. CASE updates' = updates /\ updates[rule] < open[rule]
        BY <2>1, <3>1, <4>1, <4>2
      <4>3. CASE updates' = Dec(updates, rule) /\ updates[rule] > 0
        <5>1. /\ updates' \in [Rules -> Nat]
              /\ \A q \in Rules : updates'[q] = IF q = rule THEN updates[q] - 1 ELSE updates[q]
          BY <2>1, <4>1, <4>3, CounterLemma
        <5> QED
          BY <2>1, <3>1, <4>1, <5>1
      <4> QED
        BY <2>3, <4>2, <4>3
    <3> QED
      BY <2>1, <2>2, <2>3, <3>1, <3>3, <3>4 DEF TypeOK
  <2>4. CASE pc = "again" /\ UNCHANGED incidents /\ pc' \in {"resolved", "next"}
    <3>1. Sound'
      BY <2>1, <2>4 DEF Sound, Fresh, Owed, NotifiedOnce, Planned, Evaluating
    <3> QED
      BY <2>1, <2>2, <2>4, <3>1 DEF TypeOK
  <2>5. CASE pc = "resolve" /\ UpdateLost /\ pc' = "next" /\ Fault("answer")
    BY <2>1, <2>5, LostLemma
  <2>6. CASE UNCHANGED incidents /\ pc' = "next" /\ Fault("write")
    BY <2>1, <2>6, MoveLemma
  <2> QED
    BY <1>9, <2>3, <2>4, <2>5, <2>6 DEF ResolveIncident, Close
<1>10. ASSUME NEW channel, Send(channel)
       PROVE  TypeOK' /\ Sound'
  <2>1. /\ pc \in {"alert", "resolved"} /\ pc' = "next" /\ rule \in Rules
        /\ UNCHANGED <<incidents, config, window, enabled, changes, todo,
                       rule, seen, planned>>
    BY <1>10 DEF Send, TypeOK
  <2>2. CASE /\ alerts' = IF pc = "alert" THEN Inc(alerts, rule) ELSE alerts
             /\ resolved' = IF pc = "resolved" THEN Inc(resolved, rule) ELSE resolved
             /\ UNCHANGED faults
    <3>1. /\ alerts' \in [Rules -> Nat] /\ resolved' \in [Rules -> Nat]
          /\ \A q \in Rules :
              /\ alerts'[q] = IF pc = "alert" /\ q = rule THEN alerts[q] + 1 ELSE alerts[q]
              /\ resolved'[q] = IF pc = "resolved" /\ q = rule THEN resolved[q] + 1
                                ELSE resolved[q]
      BY <1>0, <2>1, <2>2, CounterLemma
    <3>2. Fresh' /\ Planned' /\ Owed'
      BY <2>1 DEF Sound, Fresh, Planned, Owed, Evaluating
    <3>3. NotifiedOnce'
      <4>1. \A q \in Rules :
              /\ open[q] \in Nat /\ closed[q] \in Nat /\ alerts[q] \in Nat /\ resolved[q] \in Nat
              /\ alerts[q] <= open[q] + closed[q] /\ resolved[q] <= closed[q]
        BY <1>0 DEF Sound, NotifiedOnce
      <4>2. /\ pc = "alert" => alerts[rule] < open[rule] + closed[rule]
            /\ pc = "resolved" => resolved[rule] < closed[rule]
        BY DEF Sound, Owed
      <4> SUFFICES ASSUME NEW q \in Rules
                   PROVE  alerts'[q] <= open'[q] + closed'[q] /\ resolved'[q] <= closed'[q]
        BY DEF NotifiedOnce
      <4>3. CASE q = rule
        BY <2>1, <3>1, <4>1, <4>2, <4>3
      <4>4. CASE q # rule
        BY <2>1, <3>1, <4>1, <4>4
      <4> QED
        BY <4>3, <4>4
    <3> QED
      BY <2>1, <2>2, <3>1, <3>2, <3>3 DEF TypeOK, Sound
  <2>3. CASE Fault("send") /\ UNCHANGED notified
    BY <2>1, <2>3, MoveLemma
  <2> QED
    BY <1>10, <2>2, <2>3 DEF Send
<1>11. CASE Hang \/ Stall
  <2>1. CASE Hang
    BY <2>1, MoveLemma DEF Hang, Silence, Evaluating
  <2>2. CASE Stall /\ UNCHANGED incidents
    BY <2>2, MoveLemma DEF Stall
  <2>3. CASE Stall /\ ((pc = "create" /\ InsertLost) \/ (pc = "resolve" /\ UpdateLost))
    BY <2>3, LostLemma DEF Stall
  <2>4. Stall => UNCHANGED incidents \/ (pc = "create" /\ InsertLost) \/ (pc = "resolve" /\ UpdateLost)
    BY Zenon DEF Stall
  <2> QED
    BY <1>11, <2>1, <2>2, <2>3, <2>4, Zenon
<1>12. CASE Crash
  BY <1>12, MoveLemma DEF Crash
<1>13. CASE Restart
  BY <1>13, MoveLemma DEF Restart, TypeOK
<1>14. CASE Measure \/ Age \/ Toggle
  BY <1>14, WorldLemma
<1>15. CASE LateWrite
  BY <1>15, LateInsertLemma, LateUpdateLemma DEF LateWrite
<1>16. CASE UNCHANGED vars
  <2>1. UNCHANGED <<incidents, notified, world, todo, rule, seen, planned, pc, faults>>
    BY <1>16 DEF vars
  <2>2. pc' = "hung" => Evaluating
    BY <2>1 DEF Evaluating
  <2> QED
    BY <2>1, <2>2, MoveLemma
<1> QED
  BY <1>1, <1>2, <1>3, <1>4, <1>5, <1>6, <1>7, <1>8, <1>9, <1>10, <1>11, <1>12, <1>13,
     <1>14, <1>16, <1>15
     DEF Next, Pass, SlackSend, DiscordSend, TelegramSend, EmailSend

LEMMA SoundAlways == Spec => [](TypeOK /\ Sound)
<1>1. Init => TypeOK /\ Sound
  <2> SUFFICES ASSUME Init PROVE TypeOK /\ Sound
    OBVIOUS
  <2>1. /\ \A S : << >> \in Seq(S) /\ Len(<< >>) = 0
    BY EmptySeq
  <2>2. TypeOK
    BY <2>1, AlertAssumption DEF Init, TypeOK, Zero
  <2>3. Sound
    BY <2>1, AlertAssumption
       DEF Init, Sound, Zero, Fresh, Owed, NotifiedOnce, Planned, Evaluating
  <2> QED
    BY <2>2, <2>3
<1>2. TypeOK /\ Sound /\ [Next]_vars => (TypeOK /\ Sound)'
  BY SoundInductive
<1> QED
  BY <1>1, <1>2, PTL DEF Spec

\* Every variable keeps its type; a rule is evaluated only on a window with
\* rows in it, of the column it reads.
THEOREM TypeCorrect == Spec => []TypeOK
  BY SoundAlways, PTL

\* However writes, answers and passes interleave with crashes, a rule has one
\* open incident at the most, and one for each INSERT carried out late.
THEOREM OneIncident == Spec => []OneOpenIncident
<1>1. Sound => OneOpenIncident
  BY DEF Sound, Fresh, OneOpenIncident
<1> QED
  BY <1>1, SoundAlways, PTL

\* Never two alerts for one incident, and no RESOLVED for one that is open.
THEOREM Notifications == Spec => []NotifiedOnce
<1>1. Sound => NotifiedOnce
  BY DEF Sound
<1> QED
  BY <1>1, SoundAlways, PTL

----------------------------------------------------------------------------
(* Silence costs a failure. *)

\* An incident nobody was told of, and is not about to be, has cost a failure.
THEOREM SilenceCosts == Spec => []SilentOnlyByFault
<1> DEFINE Pending(r) == IF pc = "alert" /\ rule = r THEN 1 ELSE 0
           \* Some incidents may still come.
           Paid == \A r \in Rules :
               open[r] + closed[r] + inserts[r] - alerts[r]
                   <= faults + (IF pc = "alert" /\ rule = r THEN 1 ELSE 0)
<1>1. Init => Paid
  BY DEF Init, Zero
<1>2. ASSUME TypeOK, Sound, Paid, [Next]_vars
      PROVE  Paid'
  <2> SUFFICES ASSUME NEW r \in Rules
               PROVE  open'[r] + closed'[r] + inserts'[r] - alerts'[r]
                          <= faults' + (IF pc' = "alert" /\ rule' = r THEN 1 ELSE 0)
    OBVIOUS
  <2> USE DEF incidents, lost, notified, engine, world
  <2>1. open[r] + closed[r] + inserts[r] - alerts[r] <= faults + Pending(r)
    BY <1>2
  <2> HIDE DEF Paid
  <2>2. /\ open[r] \in Nat /\ closed[r] \in Nat /\ alerts[r] \in Nat /\ faults \in Nat
        /\ open \in [Rules -> Nat] /\ closed \in [Rules -> Nat] /\ alerts \in [Rules -> Nat]
        /\ inserts[r] \in Nat /\ inserts \in [Rules -> Nat]
    <3>1. /\ open \in [Rules -> Nat] /\ closed \in [Rules -> Nat]
          /\ alerts \in [Rules -> Nat] /\ inserts \in [Rules -> Nat]
          /\ faults \in 0..MaxFaults
      BY <1>2 DEF TypeOK
    <3> QED
      BY <3>1, AlertAssumption
  <2>3. CASE UNCHANGED <<incidents, notified, faults>> /\ Pending(r)' = Pending(r)
    BY <2>1, <2>2, <2>3
  <2>4. CASE UNCHANGED <<incidents, notified>> /\ faults' = faults + 1
    BY <2>1, <2>2, <2>4
  <2>5. ASSUME NEW q \in Rules, Evaluate(q) \/ Skip(q)
        PROVE  \/ UNCHANGED <<incidents, notified, faults>> /\ Pending(r)' = Pending(r)
               \/ UNCHANGED <<incidents, notified>> /\ faults' = faults + 1
    BY <2>5 DEF Evaluate, Skip, NextRule, Fault
  <2>12. ASSUME InsertLost, rule \in Rules, faults' = faults + 1, UNCHANGED alerts,
                pc # "alert"
         PROVE  open'[r] + closed'[r] + inserts'[r] - alerts'[r] <= faults' + Pending(r)'
    <3>1. UNCHANGED <<open, closed>> /\ inserts'[r] \in {inserts[r], inserts[r] + 1}
      BY <2>2, <2>12, CounterLemma DEF InsertLost
    <3>2. open[r] + closed[r] + inserts[r] - alerts[r] <= faults
      BY <2>1, <2>2, <2>12
    <3>3. open'[r] + closed'[r] + inserts'[r] - alerts'[r] <= faults'
      BY <2>2, <2>12, <3>1, <3>2
    <3> QED
      BY <2>2, <2>12, <3>1, <3>3
  <2>6. CASE CreateIncident
    <3>1. pc = "create" /\ rule \in Rules /\ UNCHANGED <<alerts, rule>>
      BY <1>2, <2>6 DEF CreateIncident, TypeOK
    <3>2. CASE open' = Inc(open, rule) /\ UNCHANGED <<closed, inserts>>
      <4>1. open'[r] = IF r = rule THEN open[r] + 1 ELSE open[r]
        BY <2>2, <3>1, <3>2, CounterLemma
      <4>2. CASE pc' = "alert" /\ UNCHANGED faults
        BY <2>1, <2>2, <3>1, <3>2, <4>1, <4>2
      <4>3. CASE pc' = "next" /\ faults' = faults + 1
        BY <2>1, <2>2, <3>1, <3>2, <4>1, <4>3
      <4> QED
        BY <2>6, <3>1, <3>2, <4>2, <4>3 DEF CreateIncident, Fault, InsertLost
    <3>3. CASE InsertLost /\ faults' = faults + 1
      BY <2>12, <3>1, <3>3
    <3>4. CASE UNCHANGED incidents /\ faults' = faults + 1
      BY <2>4, <3>1, <3>4, <2>6 DEF CreateIncident
    <3> QED
      BY <2>6, <3>2, <3>3, <3>4 DEF CreateIncident, Fault
  <2>13. ASSUME NEW q \in Rules, CloseOne(q), UNCHANGED <<alerts, inserts>>,
                faults' \in {faults, faults + 1},
                UNCHANGED <<pc, rule>> \/ (pc # "alert" /\ pc' # "alert")
         PROVE  open'[r] + closed'[r] + inserts'[r] - alerts'[r] <= faults' + Pending(r)'
    <3>1. open'[r] + closed'[r] = open[r] + closed[r] /\ open'[r] \in Int /\ closed'[r] \in Int
      <4>1. /\ open'[q] = open[q] - 1 /\ closed'[q] = closed[q] + 1
            /\ \A p \in Rules \ {q} : open'[p] = open[p] /\ closed'[p] = closed[p]
        BY <1>2, <2>13, CloseLemma
      <4> QED
        BY <2>2, <4>1
    <3>2. Pending(r)' = Pending(r)
      BY <2>13
    <3>3. Pending(r) \in Nat
      OBVIOUS
    <3> HIDE DEF Pending
    <3> QED
      BY <2>1, <2>2, <2>13, <3>1, <3>2, <3>3
  <2>7. CASE ResolveIncident
    <3>1. /\ pc \in {"resolve", "again"} /\ rule \in Rules
          /\ UNCHANGED <<alerts, rule>> /\ pc' \in {"resolved", "next"}
          /\ faults' \in {faults, faults + 1}
      BY <1>2, <2>7 DEF ResolveIncident, Fault, TypeOK
    <3>2. CASE CloseOne(rule) /\ UNCHANGED inserts
      BY <2>13, <3>1, <3>2
    <3>3. CASE UNCHANGED <<open, closed, inserts>>
      <4>1. Pending(r)' = 0 /\ Pending(r) = 0
        BY <3>1
      <4> QED
        BY <2>1, <2>2, <3>1, <3>3, <4>1
    <3> QED
      BY <2>7, <3>2, <3>3 DEF ResolveIncident, Close, UpdateLost
  <2>14. CASE LateInsert
    <3>1. PICK q \in Rules : inserts' = Dec(inserts, q) /\ inserts[q] > 0 /\ open' = Inc(open, q)
      BY <2>14 DEF LateInsert
    <3>2. open'[r] + inserts'[r] = open[r] + inserts[r] /\ open'[r] \in Int /\ inserts'[r] \in Int
      <4>1. /\ open'[r] = IF r = q THEN open[r] + 1 ELSE open[r]
            /\ inserts'[r] = IF r = q THEN inserts[r] - 1 ELSE inserts[r]
        BY <2>2, <3>1, CounterLemma
      <4> QED
        BY <2>2, <4>1
    <3>3. UNCHANGED <<closed, alerts, faults, pc, rule>>
      BY <2>14 DEF LateInsert
    <3>4. Pending(r)' = Pending(r) /\ Pending(r) \in Nat
      BY <3>3
    <3>5. closed'[r] = closed[r] /\ alerts'[r] = alerts[r] /\ faults' = faults
      BY <3>3
    <3> HIDE DEF Pending
    <3>6. open'[r] + closed'[r] + inserts'[r] - alerts'[r] <= faults' + Pending(r)'
      BY <2>1, <2>2, <3>2, <3>4, <3>5
    <3> QED
      BY <3>6 DEF Pending
  <2>15. CASE LateUpdate
    <3>1. PICK q \in Rules : CloseOne(q) /\ (UNCHANGED pc \/ (pc = "resolve" /\ pc' = "again"))
      BY <2>15 DEF LateUpdate
    <3> QED
      BY <2>13, <2>15, <3>1 DEF LateUpdate
  <2>16. CASE Stall
    <3>1. /\ UNCHANGED <<alerts, rule>> /\ faults' = faults + 1 /\ pc # "alert"
          /\ pc = "create" => rule \in Rules
      BY <1>2, <2>16 DEF Stall, Fault, TypeOK
    <3>2. CASE pc = "create" /\ InsertLost
      BY <2>12, <3>1, <3>2
    <3>3. CASE UNCHANGED <<open, closed, inserts>>
      <4>1. Pending(r)' = 0 /\ Pending(r) = 0
        BY <2>16, <3>1 DEF Stall
      <4> QED
        BY <2>1, <2>2, <3>1, <3>3, <4>1
    <3> QED
      BY <2>16, <3>2, <3>3 DEF Stall, UpdateLost
  <2>8. ASSUME NEW channel, Send(channel)
        PROVE  open'[r] + closed'[r] + inserts'[r] - alerts'[r] <= faults' + Pending(r)'
    <3>1. /\ pc \in {"alert", "resolved"} /\ rule \in Rules /\ pc' = "next"
          /\ UNCHANGED <<open, closed, inserts, rule>>
      BY <1>2, <2>8 DEF Send, TypeOK
    <3>2. CASE alerts' = (IF pc = "alert" THEN Inc(alerts, rule) ELSE alerts) /\ UNCHANGED faults
      BY <2>1, <2>2, <3>1, <3>2, CounterLemma
    <3>3. CASE Fault("send") /\ UNCHANGED notified
      BY <2>1, <2>2, <3>1, <3>3 DEF Fault
    <3> QED
      BY <2>8, <3>2, <3>3 DEF Send
  <2>9. CASE StartPass \/ EndPass \/ HandleState \/ Restart \/ Measure \/ Age \/ Toggle
    BY <2>3, <2>9
       DEF StartPass, EndPass, HandleState, Restart, Measure, Age, Toggle, Changing
  <2>10. CASE StartPassError \/ LookupError \/ Hang \/ Crash
    BY <2>4, <2>10 DEF StartPassError, LookupError, Hang, Silence, Crash, Fault
  <2>11. CASE UNCHANGED vars
    BY <2>3, <2>11 DEF vars
  <2> QED
    BY <1>2, <2>3, <2>4, <2>5, <2>6, <2>7, <2>8, <2>9, <2>10, <2>11, <2>14, <2>15, <2>16
       DEF Next, LateWrite, Pass, SlackSend, DiscordSend, TelegramSend, EmailSend
<1>3. TypeOK /\ Paid => SilentOnlyByFault
  <2> SUFFICES ASSUME TypeOK, Paid, NEW r \in Rules
               PROVE  open[r] + closed[r] - alerts[r]
                          <= faults + (IF pc = "alert" /\ rule = r THEN 1 ELSE 0)
    BY DEF SilentOnlyByFault
  <2>1. /\ open[r] \in Nat /\ closed[r] \in Nat /\ alerts[r] \in Nat /\ inserts[r] \in Nat
        /\ faults \in Nat
    BY AlertAssumption DEF TypeOK
  <2> QED
    BY <2>1
<1> HIDE DEF Paid
<1>4. Init /\ [][Next]_vars /\ [](TypeOK /\ Sound) => []Paid
  BY <1>1, <1>2, PTL
<1> QED
  BY <1>3, <1>4, SoundAlways, PTL DEF Spec

----------------------------------------------------------------------------
(* Disabled rules. *)

\* The engine touches the incidents of a rule, and notifies about them, only
\* if the rule was enabled when the pass began.
THEOREM DisabledRules == Spec => QuietOnceDisabled
<1>1. ASSUME TypeOK, Sound, [Next]_vars
      PROVE  [LateWrite \/ \A r \in Rules :
               <<open[r], closed[r], alerts[r], resolved[r]>>' #
                   <<open[r], closed[r], alerts[r], resolved[r]>> => r \in planned]_vars
  <2> SUFFICES ASSUME ~LateWrite, NEW r \in Rules, r \notin planned
               PROVE  UNCHANGED <<open[r], closed[r], alerts[r], resolved[r]>>
    OBVIOUS
  <2> USE DEF incidents, lost, notified, engine, world
  <2>1. CASE UNCHANGED <<incidents, notified>>
    BY <2>1
  <2>2. ASSUME Evaluating
        PROVE  rule \in Rules /\ rule # r
    BY <1>1, <2>2 DEF TypeOK, Sound, Planned, Evaluating
  <2>3. ASSUME NEW f \in [Rules -> Nat], Evaluating
        PROVE  Inc(f, rule)[r] = f[r] /\ Dec(f, rule)[r] = f[r]
    BY <2>2, <2>3, CounterLemma
  <2>8. InsertLost \/ UpdateLost => UNCHANGED <<open[r], closed[r]>>
    BY DEF InsertLost, UpdateLost
  <2>4. CASE CreateIncident
    BY <1>1, <2>3, <2>4, <2>8 DEF CreateIncident, TypeOK, Evaluating
  <2>5. CASE ResolveIncident
    BY <1>1, <2>3, <2>5, <2>8 DEF ResolveIncident, Close, CloseOne, TypeOK, Evaluating
  <2>9. CASE Stall
    BY <2>8, <2>9 DEF Stall
  <2>6. ASSUME NEW channel, Send(channel)
        PROVE  UNCHANGED <<open[r], closed[r], alerts[r], resolved[r]>>
    BY <1>1, <2>3, <2>6 DEF Send, TypeOK, Evaluating
  <2>7. ASSUME NEW q \in Rules, Evaluate(q) \/ Skip(q)
        PROVE  UNCHANGED <<incidents, notified>>
    BY <2>7 DEF Evaluate, Skip, NextRule
  <2> QED
    BY <1>1, <2>1, <2>4, <2>5, <2>6, <2>7, <2>9
       DEF Next, Pass, SlackSend, DiscordSend, TelegramSend, EmailSend, vars, StartPass,
           StartPassError, EndPass, HandleState, LookupError, Hang, Silence, Crash, Restart,
           Measure, Age, Toggle, Changing
<1> QED
  BY <1>1, SoundAlways, PTL DEF Spec, QuietOnceDisabled

----------------------------------------------------------------------------
(* Evidence. *)

\* What handleState decided is what the window says.
Judged ==
    /\ Evaluating => config[rule].kind # "unknown"
    /\ pc = "create" => Firing(rule, seen)
    /\ pc = "resolve" => ~Firing(rule, seen)

\* An average above the threshold takes a reading above it, and one that is
\* not above takes a reading that is not.
LEMMA AverageLemma ==
    ASSUME NEW w \in Seq(Nat), w # <<>>
    PROVE  /\ Above(w) => \E i \in DOMAIN w : w[i] > Threshold
           /\ ~Above(w) => \E i \in DOMAIN w : ~(w[i] > Threshold)
<1>1. Above(w) <=> Total(w, DOMAIN w) > Threshold * Len(w)
  BY DEF Above, Total, FoldSeq, FoldFunction, FoldFunctionOnSet, MapThenFoldSet
<1>2. /\ DOMAIN w = 1..Len(w) /\ Len(w) \in Nat \ {0}
      /\ \A i \in DOMAIN w : w[i] \in Nat
  BY EmptySeq
<1>3. IsFiniteSet(DOMAIN w) /\ Cardinality(DOMAIN w) = Len(w)
  BY <1>2, FS_Interval
<1>4. Threshold \in Nat /\ Threshold + 1 \in Nat
  BY AlertAssumption
<1>5. ASSUME \A i \in DOMAIN w : ~(w[i] > Threshold)
      PROVE  ~Above(w)
  <2>1. \A i \in DOMAIN w : w[i] \in Nat /\ w[i] <= Threshold
    BY <1>2, <1>4, <1>5
  <2>2. Total(w, DOMAIN w) <= Threshold * Cardinality(DOMAIN w)
    BY <1>3, <1>4, <2>1, SumAtMost
  <2>3. Total(w, DOMAIN w) \in Nat
    <3>1. \A i \in DOMAIN w : w[i] \in Nat /\ 0 <= w[i]
      BY <1>2
    <3> QED
      BY <1>3, <3>1, SumAtLeast
  <2>4. Threshold * Len(w) \in Nat
    BY <1>2, <1>4
  <2> QED
    BY <1>1, <1>3, <2>2, <2>3, <2>4
<1>6. ASSUME \A i \in DOMAIN w : w[i] > Threshold
      PROVE  Above(w)
  <2>1. \A i \in DOMAIN w : w[i] \in Nat /\ Threshold + 1 <= w[i]
    BY <1>2, <1>4, <1>6
  <2>2. /\ Total(w, DOMAIN w) \in Nat
        /\ (Threshold + 1) * Cardinality(DOMAIN w) <= Total(w, DOMAIN w)
    BY <1>3, <1>4, <2>1, SumAtLeast
  <2>3. (Threshold + 1) * Len(w) = Threshold * Len(w) + Len(w) /\ Threshold * Len(w) \in Nat
    BY <1>2, <1>4
  <2> QED
    BY <1>1, <1>2, <1>3, <2>2, <2>3
<1> QED
  BY <1>5, <1>6

\* A rule fires on a reading that is bad, and does not on one that is good.
LEMMA FiringLemma ==
    ASSUME TypeOK, Sound, pc \in {"create", "resolve"}, config[rule].kind # "unknown"
    PROVE  /\ Firing(rule, seen) => SomeBad(rule)
           /\ ~Firing(rule, seen) => SomeGood(rule)
<1>1. rule \in Rules /\ seen \in Seq(Readings(config[rule].kind)) \ {<<>>}
  BY DEF TypeOK
<1>2. seen \in Seq(Nat) /\ seen # <<>>
  BY <1>1, ReadingsLemma
<1>3. config[rule].kind \in {"cpu_high", "memory_high", "probe_down", "probe_slow"}
  BY <1>1, AlertAssumption DEF TypeOK, AlertRule, HostKinds
<1>4. CASE config[rule].kind = "probe_down"
  <2>1. Firing(rule, seen) <=> \A i \in DOMAIN seen : seen[i] = 0
    BY <1>4 DEF Firing, ProbeDown
  <2>2. 1 \in DOMAIN seen
    BY <1>2, EmptySeq
  <2> QED
    BY <1>4, <2>1, <2>2 DEF SomeBad, SomeGood, Bad
<1>5. CASE config[rule].kind # "probe_down"
  <2>1. Firing(rule, seen) <=> Above(seen)
    BY <1>3, <1>5 DEF Firing, AvgCPU, AvgMemory, ProbeSlow
  <2> QED
    BY <1>2, <1>5, <2>1, AverageLemma DEF SomeBad, SomeGood, Bad
<1> QED
  BY <1>4, <1>5

\* What was decided stays decided until it is done.
LEMMA JudgedByNext ==
    ASSUME TypeOK, Sound, Judged, [Next]_vars
    PROVE  Judged'
<1> USE DEF incidents, lost, notified, engine, world
<1>1. ASSUME UNCHANGED <<config, rule, seen>>, pc' \in {"create", "resolve"} => pc' = pc,
             pc' \in {"state", "create", "alert", "resolve", "again", "resolved", "hung"} =>
                 Evaluating
      PROVE  Judged'
  <2>1. Firing(rule, seen)' <=> Firing(rule, seen)
    BY <1>1 DEF Firing, AvgCPU, AvgMemory, ProbeDown, ProbeSlow
  <2> QED
    BY <1>1, <2>1 DEF Judged, Evaluating
<1>2. ASSUME pc' \in {"idle", "next", "stalled", "down"}
      PROVE  Judged'
  BY <1>2 DEF Judged, Evaluating
<1>3. CASE StartPass \/ EndPass \/ Crash \/ Restart \/ LookupError \/ Stall
  BY <1>2, <1>3 DEF StartPass, EndPass, Crash, Restart, LookupError, Stall
<1>4. ASSUME NEW r \in Rules, Evaluate(r)
      PROVE  Judged'
  <2>1. pc' = "state" /\ rule' = r /\ config' = config /\ config[r].kind # "unknown"
    BY <1>4 DEF Evaluate, NextRule, Evaluable
  <2> QED
    BY <2>1 DEF Judged
<1>5. ASSUME NEW r \in Rules, Skip(r)
      PROVE  Judged'
  <2>1. pc = "next" /\ pc' = pc
    BY <1>5 DEF Skip, NextRule
  <2> QED
    BY <1>2, <2>1
<1>6. CASE HandleState
  <2>1. /\ pc = "state" /\ UNCHANGED <<config, rule, seen>>
        /\ pc' \in {"next", "create", "resolve"}
        /\ pc' = "create" => Firing(rule, seen)
        /\ pc' = "resolve" => ~Firing(rule, seen)
    BY <1>6 DEF HandleState, Opens, Closes
  <2>2. Firing(rule, seen)' <=> Firing(rule, seen)
    BY <2>1 DEF Firing, AvgCPU, AvgMemory, ProbeDown, ProbeSlow
  <2> QED
    BY <2>1, <2>2 DEF Judged, Evaluating
<1>7. CASE CreateIncident \/ ResolveIncident
  BY <1>1, <1>7 DEF CreateIncident, ResolveIncident, Evaluating
<1>8. ASSUME NEW channel, Send(channel)
      PROVE  Judged'
  BY <1>2, <1>8 DEF Send
<1>9. CASE Hang
  BY <1>1, <1>9 DEF Hang, Silence, Evaluating
<1>11. CASE LateUpdate
  BY <1>1, <1>11 DEF LateUpdate, Evaluating
<1>10. CASE StartPassError \/ LateInsert \/ Measure \/ Age \/ Toggle \/ UNCHANGED vars
  <2>1. UNCHANGED <<config, rule, seen, pc>>
    BY <1>10 DEF StartPassError, LateInsert, Measure, Age, Toggle, Changing, vars
  <2> QED
    BY <1>1, <2>1 DEF Evaluating
<1> QED
  BY <1>3, <1>4, <1>5, <1>6, <1>7, <1>8, <1>9, <1>10, <1>11
     DEF Next, LateWrite, Pass, SlackSend, DiscordSend, TelegramSend, EmailSend

\* Incidents are opened and closed on readings that say so: a window that is
\* empty, a query that failed and a disabled rule change nothing.
THEOREM EvidenceDecides == Spec => ActsOnEvidence
<1>1. Init => Judged
  BY DEF Init, Judged, Evaluating
<1>2. TypeOK /\ Sound /\ Judged /\ [Next]_vars => Judged'
  BY JudgedByNext
<1>3. ASSUME TypeOK, Sound, Judged, [Next]_vars
      PROVE  [LateWrite \/ \A r \in Rules :
               /\ open'[r] > open[r] => rule = r /\ SomeBad(r)
               /\ closed'[r] > closed[r] => rule = r /\ SomeGood(r)]_vars
  <2> SUFFICES ASSUME ~LateWrite, NEW r \in Rules
               PROVE  /\ open'[r] > open[r] => rule = r /\ SomeBad(r)
                      /\ closed'[r] > closed[r] => rule = r /\ SomeGood(r)
    OBVIOUS
  <2> USE DEF incidents, lost, notified, engine, world
  <2>1. open \in [Rules -> Nat] /\ closed \in [Rules -> Nat]
    BY <1>3 DEF TypeOK
  <2>2. CASE UNCHANGED <<open, closed>>
    BY <2>1, <2>2
  <2>3. CASE CreateIncident
    <3>1. /\ pc = "create" /\ UNCHANGED closed
          /\ open' = open \/ open' = Inc(open, rule)
      BY <2>3 DEF CreateIncident, InsertLost
    <3>2. rule \in Rules /\ SomeBad(rule)
      BY <1>3, <3>1, FiringLemma DEF TypeOK, Judged, Evaluating
    <3>3. open'[r] > open[r] => rule = r
      BY <2>1, <3>1, <3>2, CounterLemma
    <3> QED
      BY <2>1, <3>1, <3>2, <3>3
  <2>4. CASE ResolveIncident
    <3>1. CASE pc = "resolve" /\ CloseOne(rule)
      <4>1. rule \in Rules /\ SomeGood(rule)
        BY <1>3, <3>1, FiringLemma DEF TypeOK, Judged, Evaluating
      <4>2. open' = Dec(open, rule) /\ closed' = Inc(closed, rule)
        BY <3>1 DEF CloseOne
      <4>3. closed'[r] > closed[r] => rule = r
        BY <2>1, <4>1, <4>2, CounterLemma
      <4>4. ~(open'[r] > open[r])
        BY <2>1, <4>1, <4>2, CounterLemma
      <4> QED
        BY <4>1, <4>3, <4>4
    <3>2. CASE UNCHANGED <<open, closed>>
      BY <2>2, <3>2
    <3> QED
      BY <2>4, <3>1, <3>2 DEF ResolveIncident, Close, UpdateLost
  <2>5. ASSUME NEW q \in Rules, Evaluate(q) \/ Skip(q)
        PROVE  UNCHANGED <<open, closed>>
    BY <2>5 DEF Evaluate, Skip, NextRule
  <2>6. CASE Stall
    BY <2>2, <2>6 DEF Stall, InsertLost, UpdateLost
  <2> QED
    BY <1>3, <2>2, <2>3, <2>4, <2>5, <2>6
       DEF Next, Pass, SlackSend, DiscordSend, TelegramSend, EmailSend, Send, vars, StartPass,
           StartPassError, EndPass, HandleState, LookupError, Hang, Silence, Crash, Restart,
           Measure, Age, Toggle, Changing
<1> QED
  BY <1>1, <1>2, <1>3, SoundAlways, PTL DEF Spec, ActsOnEvidence

=============================================================================
