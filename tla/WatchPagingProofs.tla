------------------------- MODULE WatchPagingProofs -------------------------
(***************************************************************************)
(* Proofs about WatchPaging, for any watches, durations, passes, edits and *)
(* restarts.                                                               *)
(***************************************************************************)
EXTENDS WatchPaging, FiniteSetTheorems, TLAPS

-----------------------------------------------------------------------------
(* The inductive invariants.                                               *)

\* An incident of the watch was created, or its creation has failed, or a
\* client wrote ALERTING before either had happened.
Covered(w) == w \in incidents \/ w \in failed \/ w \in claimed

\* What is alerting, in a row or in somebody's copy of it, is covered, but for
\* the evaluation that is on its way to open the incident.
AlertsCovered ==
    /\ active \subseteq incidents
    /\ \A w \in Watches : row[w].st = "alerting" => Covered(w)
    /\ \A p \in Passes : \A c \in todo[p] : c.w.st = "alerting" => Covered(c.id)
    /\ \A p \in Passes :
          /\ /\ pass[p].pc \in {"measured", "transition", "clear", "save"}
             /\ pass[p].w.st = "alerting"
             => Covered(pass[p].id)
          /\ pass[p].pc = "track" => pass[p].id \in incidents

Steps == {"measured", "transition", "notify", "trigger", "track", "clear", "save"}

\* evaluate is in a step for watch w.
In(p, w, pcs) == pass[p].pc \in pcs /\ pass[p].id = w

\* A pass evaluates a watch once, and only the two changes that are
\* significant get to notify.
OncePerPass ==
    \A p \in Passes :
        /\ \A c, d \in todo[p] : c.id = d.id => c = d
        /\ pass[p].pc \in Steps => \A c \in todo[p] : c.id # pass[p].id
        /\ pass[p].pc = "notify" => pass[p].w.st \in {"ok", "alerting"}

Forced == Passes \ {"tick"}

\* ForceCheck's goroutines that run.
Live == {p \in Forced : pass[p] # Idle \/ todo[p] # {}}

\* Those that may still open an incident of w or stop tracking it.
Threat(p, w) ==
    \/ pass[p] = Spawned
    \/ \E c \in todo[p] : c.id = w
    \/ In(p, w, {"measured", "transition", "notify", "trigger", "clear"})

Threats(w) == {p \in Forced : Threat(p, w)}

\* The ticker's pass may open one: nothing is tracked, or it is about to open
\* one or to stop tracking.
Chance(w) ==
    \/ w \notin active /\ ~In("tick", w, {"track"})
    \/ In("tick", w, {"trigger", "clear"})
    \/ In("tick", w, {"transition"}) /\ pass["tick"].new = "ok"
    \/ In("tick", w, {"notify"}) /\ pass["tick"].w.st = "ok"

\* What was opened and what may still be.
Budget(w) ==
    opened[w] + (IF Chance(w) THEN 1 ELSE 0) + Cardinality(Threats(w))
        <= 1 + edits + restarts

FewOpened ==
    /\ Cardinality(Live) <= edits
    /\ \A w \in Watches : Budget(w)

-----------------------------------------------------------------------------
(* The records of a pass.                                                  *)

Late == {"notify", "trigger", "track", "clear", "save"}

LEMMA RecordsAre ==
    /\ Idle.pc = "idle" /\ Spawned.pc = "spawned"
    /\ \A q \in Evaluation : q.pc \in Steps /\ q.id \in Watches /\ q.w \in Watch
    /\ \A q \in Evaluation : q.pc = "measured" => q.value \in {"low", "high", "none"}
    /\ \A q \in Evaluation : q.pc = "transition" => q.new \in States
    /\ \A q \in Evaluation : q.pc \in Late => q = [pc |-> q.pc, id |-> q.id, w |-> q.w]
    /\ \A pc \in Late, id \in Watches, w \in Watch :
          [pc |-> pc, id |-> id, w |-> w] \in Evaluation
BY DEF Idle, Spawned, Evaluation, Steps, Late

LEMMA PassIs ==
    ASSUME TypeOK, NEW p \in Passes, pass[p].pc \in Steps
    PROVE  /\ pass[p] \in Evaluation /\ pass[p].id \in Watches /\ pass[p].w \in Watch
           /\ pass[p] # Idle /\ pass[p] # Spawned
BY RecordsAre DEF TypeOK, Steps

\* The steps that only change pc.
LEMMA PcIs ==
    ASSUME TypeOK, NEW p \in Passes, pass[p].pc \in Late, NEW pc \in Late,
           pass' = [pass EXCEPT ![p].pc = pc]
    PROVE  /\ pass' = [pass EXCEPT ![p] = [pc |-> pc, id |-> pass[p].id, w |-> pass[p].w]]
           /\ pass'[p] \in Evaluation
           /\ pass'[p].pc = pc /\ pass'[p].id = pass[p].id /\ pass'[p].w = pass[p].w
           /\ \A r \in Passes : r # p => pass'[r] = pass[r]
<1>1. pass[p] \in Evaluation /\ pass[p].id \in Watches /\ pass[p].w \in Watch
  BY PassIs DEF Late, Steps
<1>2. pass[p] = [pc |-> pass[p].pc, id |-> pass[p].id, w |-> pass[p].w]
  BY <1>1, RecordsAre
<1>3. [pass[p] EXCEPT !.pc = pc] = [pc |-> pc, id |-> pass[p].id, w |-> pass[p].w]
  BY <1>2
<1>4. pass' = [pass EXCEPT ![p] = [pc |-> pc, id |-> pass[p].id, w |-> pass[p].w]]
  BY <1>3 DEF TypeOK
<1>5. [pc |-> pc, id |-> pass[p].id, w |-> pass[p].w] \in Evaluation
  BY <1>1, RecordsAre
<1> QED
  BY <1>4, <1>5 DEF TypeOK

LEMMA WatchIs ==
    /\ \A w \in Watch : w.st \in States /\ w.dur \in Durations /\ w.on \in BOOLEAN
    /\ \A w \in Watch, st \in States :
          [w EXCEPT !.st = st] \in Watch /\ [w EXCEPT !.st = st].st = st
    /\ NoWatch.st = "none"
BY DEF Watch, NoWatch

LEMMA MeasureIs ==
    ASSUME TypeOK, NEW p \in Passes, NEW c \in todo[p], Measure(p, c)
    PROVE  /\ c \in Copy /\ c.id \in Watches /\ c.w \in Watch
           /\ todo' = [todo EXCEPT ![p] = @ \ {c}]
           /\ pass' = [pass EXCEPT ![p] = pass'[p]]
           /\ pass'[p] \in Evaluation
           /\ pass'[p].pc = "measured" /\ pass'[p].id = c.id /\ pass'[p].w = c.w
           /\ UNCHANGED <<row, shared, metric, incidents, opened, failed, claimed, counters>>
<1>1. c \in Copy /\ c.id \in Watches /\ c.w \in Watch
  BY DEF TypeOK, Copy
<1>2. metric[c.id] \in {"low", "high", "none"}
  BY <1>1 DEF TypeOK
<1>3. [pc |-> "measured", id |-> c.id, w |-> c.w, value |-> metric[c.id]] \in Evaluation
  BY <1>1, <1>2 DEF Evaluation
<1> QED
  BY <1>1, <1>3 DEF Measure, TypeOK

LEMMA EvaluateIs ==
    ASSUME TypeOK, NEW p \in Passes, Evaluate(p)
    PROVE  LET q == pass[p]
               st == NewState(q.value, pendingStart[q.id], q.w.dur)
           IN  /\ q \in Evaluation /\ q.pc = "measured" /\ q.id \in Watches /\ q.w \in Watch
               /\ st \in {"ok", "pending", "alerting", "nodata"}
               /\ pendingStart' \in [Watches -> -1 .. AgeCap]
               /\ pass' = [pass EXCEPT ![p] = pass'[p]]
               /\ pass'[p] \in Evaluation
               /\ pass'[p].id = q.id /\ pass'[p].w = q.w
               /\ \/ pass'[p].pc = "save"
                  \/ pass'[p].pc = "transition" /\ pass'[p].new = st
               /\ opened' = [opened EXCEPT ![q.id] = IF st = "ok" THEN 0 ELSE @]
               /\ UNCHANGED <<row, active, metric, todo, incidents, failed, claimed, counters>>
<1> DEFINE q == pass[p]
           start == pendingStart[q.id]
           st == NewState(q.value, start, q.w.dur)
           q2 == IF st = q.w.st THEN [pc |-> "save", id |-> q.id, w |-> q.w]
                 ELSE [pc |-> "transition", id |-> q.id, w |-> q.w, new |-> st]
<1>1. q.pc = "measured" /\ q \in Evaluation /\ q.id \in Watches /\ q.w \in Watch
  BY PassIs DEF Evaluate, Steps
<1>2. q.value \in {"low", "high", "none"}
  BY <1>1, RecordsAre
<1>3. st \in {"ok", "pending", "alerting", "nodata"}
  BY <1>2 DEF NewState
<1>4. start \in -1 .. AgeCap
  BY <1>1 DEF TypeOK
<1>5. NewStart(q.value, start) \in -1 .. AgeCap
  BY <1>2, <1>4, WatchAssumption DEF NewStart, Started
<1>6. /\ q2 \in Evaluation /\ q2.id = q.id /\ q2.w = q.w
      /\ \/ q2.pc = "save"
         \/ q2.pc = "transition" /\ q2.new = st
  <2> HIDE DEF q, st
  <2> QED
    BY <1>1, <1>3 DEF Evaluation, States
<1>7. /\ pendingStart' = [pendingStart EXCEPT ![q.id] = NewStart(q.value, start)]
      /\ pass' = [pass EXCEPT ![p] = q2]
      /\ opened' = [opened EXCEPT ![q.id] = IF st = "ok" THEN 0 ELSE @]
      /\ UNCHANGED <<row, active, metric, todo, incidents, failed, claimed, counters>>
  BY DEF Evaluate
<1> HIDE DEF q2
<1>8. pass'[p] = q2
  BY <1>7 DEF TypeOK
<1>9. pendingStart' \in [Watches -> -1 .. AgeCap]
  BY <1>1, <1>5, <1>7 DEF TypeOK
<1> QED
  BY <1>1, <1>3, <1>6, <1>7, <1>8, <1>9

LEMMA TransitionIs ==
    ASSUME TypeOK, NEW p \in Passes, Transition(p)
    PROVE  LET q == pass[p]
           IN  /\ q \in Evaluation /\ q.pc = "transition" /\ q.id \in Watches
               /\ q.w \in Watch /\ q.new \in States
               /\ pendingStart' \in [Watches -> -1 .. AgeCap]
               /\ pass' = [pass EXCEPT ![p] = pass'[p]]
               /\ pass'[p] \in Evaluation
               /\ pass'[p].id = q.id /\ pass'[p].w \in Watch /\ pass'[p].w.st = q.new
               /\ pass'[p].pc = IF Significant(q.w.st, q.new) THEN "notify" ELSE "save"
               /\ UNCHANGED <<row, active, metric, todo, incidents, opened, failed,
                              claimed, counters>>
<1> DEFINE q == pass[p]
           w == [q.w EXCEPT !.st = q.new]
           pc == IF Significant(q.w.st, q.new) THEN "notify" ELSE "save"
           q2 == [pc |-> pc, id |-> q.id, w |-> w]
<1>1. q.pc = "transition" /\ q \in Evaluation /\ q.id \in Watches /\ q.w \in Watch
  BY PassIs DEF Transition, Steps
<1>2. q.new \in States
  BY <1>1, RecordsAre
<1>3. w \in Watch /\ w.st = q.new /\ pc \in Late
  BY <1>1, <1>2, WatchIs DEF Late
<1>4. /\ pendingStart' = [pendingStart EXCEPT ![q.id] =
                            IF q.new \in {"ok", "alerting"} THEN -1 ELSE @]
      /\ pass' = [pass EXCEPT ![p] = q2]
      /\ UNCHANGED <<row, active, metric, todo, incidents, opened, failed, claimed, counters>>
  BY DEF Transition
<1> HIDE DEF w, pc
<1>5. q2 \in Evaluation /\ q2.id = q.id /\ q2.w = w /\ q2.pc = pc
  BY <1>1, <1>3, RecordsAre
<1> HIDE DEF q2
<1>6. pass'[p] = q2
  BY <1>4 DEF TypeOK
<1>7. pendingStart' \in [Watches -> -1 .. AgeCap]
  BY <1>1, <1>4, WatchAssumption DEF TypeOK
<1> QED
  BY <1>1, <1>2, <1>3, <1>4, <1>5, <1>6, <1>7 DEF pc

-----------------------------------------------------------------------------
(* TypeOK.                                                                 *)

LEMMA InitTypeOK == Init => TypeOK
<1> SUFFICES ASSUME Init PROVE TypeOK
  OBVIOUS
<1>1. [st : {"nodata"}, dur : Durations, on : {TRUE}] \subseteq Watch
  BY DEF Watch, States
<1>2. row \in [Watches -> Watch \cup {NoWatch}]
  BY <1>1 DEF Init
<1>3. -1 \in -1 .. AgeCap /\ 0 \in 0 .. MaxEdits /\ 0 \in 0 .. MaxTroubles
  BY WatchAssumption
<1> QED
  BY <1>2, <1>3 DEF Init, TypeOK

LEMMA ListedIs ==
    /\ Listed \subseteq Copy
    /\ \A c \in Listed : row[c.id] = c.w
    /\ \A c, d \in Listed : c.id = d.id => c = d
BY DEF Listed, Copy

LEMMA NextTypeOK == TypeOK /\ [Next]_vars => TypeOK'
<1> SUFFICES ASSUME TypeOK, [Next]_vars PROVE TypeOK'
  OBVIOUS
<1>1. ASSUME NEW p \in Passes, BeginPass(p) PROVE TypeOK'
  BY <1>1, ListedIs DEF BeginPass, TypeOK, shared, counters
<1>2. ASSUME NEW p \in Passes, NEW c \in todo[p], Measure(p, c) PROVE TypeOK'
  BY <1>2, MeasureIs DEF TypeOK, shared, counters
<1>3. ASSUME NEW p \in Passes, Evaluate(p) PROVE TypeOK'
  <2>1. opened' \in [Watches -> Nat]
    BY <1>3, EvaluateIs DEF TypeOK
  <2> QED
    BY <1>3, <2>1, EvaluateIs DEF TypeOK, counters
<1>4. ASSUME NEW p \in Passes, Transition(p) PROVE TypeOK'
  BY <1>4, TransitionIs DEF TypeOK, counters
<1>5. ASSUME NEW p \in Passes, Notify(p) PROVE TypeOK'
  BY <1>5, PcIs DEF Notify, Late, TypeOK, shared, counters
<1>6. ASSUME NEW p \in Passes, TriggerIncident(p) PROVE TypeOK'
  <2>1. pass' \in [Passes -> Evaluation \cup {Idle, Spawned}] /\ pass[p].id \in Watches
    BY <1>6, PcIs, PassIs DEF TriggerIncident, Late, Steps, TypeOK
  <2>2. opened' \in [Watches -> Nat]
    BY <1>6, <2>1 DEF TriggerIncident, TypeOK
  <2> QED
    BY <1>6, <2>1, <2>2 DEF TriggerIncident, TypeOK, shared, counters
<1>7. ASSUME NEW p \in Passes, TriggerFails(p) PROVE TypeOK'
  <2>1. faults' \in 0 .. MaxTroubles
    BY <1>7, WatchAssumption DEF TriggerFails, Calm, TypeOK
  <2>2. pass' \in [Passes -> Evaluation \cup {Idle, Spawned}] /\ pass[p].id \in Watches
    BY <1>7, PcIs, PassIs DEF TriggerFails, Late, Steps, TypeOK
  <2> QED
    BY <1>7, <2>1, <2>2 DEF TriggerFails, TypeOK, shared
<1>8. ASSUME NEW p \in Passes, Track(p) PROVE TypeOK'
  <2>1. pass' \in [Passes -> Evaluation \cup {Idle, Spawned}] /\ pass[p].id \in Watches
    BY <1>8, PcIs, PassIs DEF Track, Late, Steps, TypeOK
  <2> QED
    BY <1>8, <2>1 DEF Track, TypeOK, counters
<1>9. ASSUME NEW p \in Passes, SaveWatch(p) PROVE TypeOK'
  BY <1>9, PassIs DEF SaveWatch, Steps, TypeOK, shared, counters
<1>10. ASSUME NEW w \in Watches, SaveBody(w) PROVE TypeOK'
  <2>0. Editing
    BY <1>10 DEF SaveBody
  <2>1. row' \in [Watches -> Watch \cup {NoWatch}]
    <3>1. PICK d \in Durations, b \in BOOLEAN, st \in States :
            row' = [row EXCEPT ![w] = [st |-> st, dur |-> d, on |-> b]]
      BY <1>10, BodyAssumption DEF SaveBody, States
    <3>2. [st |-> st, dur |-> d, on |-> b] \in Watch
      BY DEF Watch
    <3> QED
      BY <3>1, <3>2 DEF TypeOK
  <2>2. edits' \in 0 .. MaxEdits
    BY <2>0, WatchAssumption DEF Editing, TypeOK
  <2> QED
    BY <1>10, <2>1, <2>2 DEF SaveBody, Editing, TypeOK, shared, counters
<1>11. ASSUME NEW w \in Watches, DeleteWatch(w) PROVE TypeOK'
  <2>1. edits' \in 0 .. MaxEdits
    BY <1>11, WatchAssumption DEF DeleteWatch, Editing, TypeOK
  <2> QED
    BY <1>11, <2>1 DEF DeleteWatch, Editing, TypeOK, shared
<1>12. ASSUME NEW w \in Watches, MetricChanges(w) PROVE TypeOK'
  BY <1>12 DEF MetricChanges, Values, TypeOK, shared, counters
<1>13. CASE Tick
  <2>1. pendingStart' \in [Watches -> -1 .. AgeCap]
    BY <1>13, WatchAssumption DEF Tick, Older, TypeOK
  <2> QED
    BY <1>13, <2>1 DEF Tick, TypeOK, counters
<1>14. CASE Restart
  <2>1. restarts' \in 0 .. MaxTroubles /\ pendingStart' \in [Watches -> -1 .. AgeCap]
    BY <1>14, WatchAssumption DEF Restart, Calm, TypeOK
  <2> QED
    BY <1>14, <2>1 DEF Restart, TypeOK
<1>15. CASE UNCHANGED vars
  BY <1>15 DEF vars, TypeOK, shared, counters
<1> QED
  BY <1>1, <1>2, <1>3, <1>4, <1>5, <1>6, <1>7, <1>8, <1>9, <1>10, <1>11, <1>12, <1>13,
     <1>14, <1>15 DEF Next, Work

\* The rows, the shared maps, the copies and the evaluations stay well typed:
\* no pass and no handler saves something that is not a watch.
THEOREM TypeCorrect == Spec => []TypeOK
BY InitTypeOK, NextTypeOK, PTL DEF Spec
-----------------------------------------------------------------------------
(* AlertsCovered.                                                          *)

\* A step of pass p that writes no row.
LEMMA CoveredStep ==
    ASSUME TypeOK, AlertsCovered, NEW p \in Passes,
           \A r \in Passes : r # p => pass'[r] = pass[r],
           \A r \in Passes : todo'[r] \subseteq todo[r],
           row' = row, active' \subseteq incidents', incidents \subseteq incidents',
           \A w \in Watches : Covered(w) => Covered(w)',
           pass'[p].pc \in {"measured", "transition", "clear", "save"}
             /\ pass'[p].w.st = "alerting" => Covered(pass[p].id)',
           pass'[p].pc = "track" => pass'[p].id \in incidents'
    PROVE  AlertsCovered'
<1>1. \A w \in Watches : row'[w].st = "alerting" => Covered(w)'
  BY DEF AlertsCovered
<1>2. \A r \in Passes : \A c \in todo'[r] : c.w.st = "alerting" => Covered(c.id)'
  <2> SUFFICES ASSUME NEW r \in Passes, NEW c \in todo'[r], c.w.st = "alerting"
               PROVE  Covered(c.id)'
    OBVIOUS
  <2>1. c \in todo[r] /\ c.id \in Watches
    BY DEF TypeOK, Copy
  <2> QED
    BY <2>1 DEF AlertsCovered
<1>3. ASSUME NEW r \in Passes
      PROVE  /\ /\ pass'[r].pc \in {"measured", "transition", "clear", "save"}
                /\ pass'[r].w.st = "alerting"
                => Covered(pass[r].id)'
             /\ pass'[r].pc = "track" => pass'[r].id \in incidents'
  <2>1. CASE r = p
    BY <2>1
  <2>2. CASE r # p
    <3>1. pass'[r] = pass[r]
      BY <2>2
    <3>2. pass[r].pc \in Steps => pass[r].id \in Watches
      BY PassIs
    <3> QED
      BY <3>1, <3>2 DEF AlertsCovered, Steps
  <2> QED
    BY <2>1, <2>2
<1> QED
  BY <1>1, <1>2, <1>3 DEF AlertsCovered

LEMMA InitCovered == Init => AlertsCovered
<1> SUFFICES ASSUME Init PROVE AlertsCovered
  OBVIOUS
<1>1. \A w \in Watches : row[w].st = "nodata"
  BY DEF Init
<1> QED
  BY <1>1 DEF Init, AlertsCovered, Idle

LEMMA NextCovered == TypeOK /\ AlertsCovered /\ [Next]_vars => AlertsCovered'
<1> SUFFICES ASSUME TypeOK, AlertsCovered, [Next]_vars PROVE AlertsCovered'
  OBVIOUS
<1>0. active \subseteq incidents
  BY DEF AlertsCovered
<1>1. ASSUME NEW p \in Passes, BeginPass(p) PROVE AlertsCovered'
  <2>1. \A c \in Listed : c.w.st = "alerting" => Covered(c.id)
    BY ListedIs DEF AlertsCovered, Copy
  <2>2. \A r \in Passes : todo'[r] = IF r = p THEN Listed ELSE todo[r]
    BY <1>1 DEF BeginPass, TypeOK
  <2>3. \A r \in Passes : pass'[r] = IF r = p THEN Idle ELSE pass[r]
    BY <1>1 DEF BeginPass, TypeOK
  <2>4. UNCHANGED <<row, active, incidents, failed, claimed>>
    BY <1>1 DEF BeginPass, shared
  <2>5. \A w : Covered(w)' <=> Covered(w)
    BY <2>4 DEF Covered
  <2>6. \A r \in Passes : \A c \in todo'[r] : c.w.st = "alerting" => Covered(c.id)'
    BY <2>1, <2>2, <2>5 DEF AlertsCovered
  <2> QED
    BY <2>3, <2>4, <2>5, <2>6, RecordsAre DEF AlertsCovered
<1>2. ASSUME NEW p \in Passes, NEW c \in todo[p], Measure(p, c) PROVE AlertsCovered'
  <2>1. UNCHANGED <<row, active, incidents, failed, claimed>>
    BY <1>2 DEF Measure, shared
  <2>2. \A w : Covered(w)' <=> Covered(w)
    BY <2>1 DEF Covered
  <2>3. /\ \A r \in Passes : r # p => pass'[r] = pass[r]
        /\ \A r \in Passes : todo'[r] \subseteq todo[r]
    BY <1>2 DEF Measure, TypeOK
  <2>4. pass'[p].pc = "measured" /\ pass'[p].id = c.id /\ pass'[p].w = c.w
    BY <1>2, MeasureIs
  <2>5. c.w.st = "alerting" => Covered(c.id)'
    BY <2>2 DEF AlertsCovered
  <2> QED
    BY <1>0, <2>1, <2>2, <2>3, <2>4, <2>5, CoveredStep
<1>3. ASSUME NEW p \in Passes, Evaluate(p) PROVE AlertsCovered'
  <2>1. UNCHANGED <<row, active, incidents, failed, claimed, todo>>
    BY <1>3 DEF Evaluate
  <2>2. \A w : Covered(w)' <=> Covered(w)
    BY <2>1 DEF Covered
  <2>3. \A r \in Passes : r # p => pass'[r] = pass[r]
    BY <1>3 DEF Evaluate, TypeOK
  <2>4. /\ pass'[p].pc \in {"save", "transition"} /\ pass'[p].id = pass[p].id
        /\ pass'[p].w = pass[p].w /\ pass[p].pc = "measured"
    BY <1>3, EvaluateIs
  <2> QED
    BY <1>0, <2>1, <2>2, <2>3, <2>4, CoveredStep DEF AlertsCovered
<1>4. ASSUME NEW p \in Passes, Transition(p) PROVE AlertsCovered'
  <2>1. UNCHANGED <<row, active, incidents, failed, claimed, todo>>
    BY <1>4 DEF Transition
  <2>2. \A w : Covered(w)' <=> Covered(w)
    BY <2>1 DEF Covered
  <2>3. \A r \in Passes : r # p => pass'[r] = pass[r]
    BY <1>4 DEF Transition, TypeOK
  <2>4. /\ pass[p].pc = "transition"
        /\ pass'[p].id = pass[p].id /\ pass'[p].w.st = pass[p].new
        /\ pass'[p].pc = IF Significant(pass[p].w.st, pass[p].new) THEN "notify" ELSE "save"
    BY <1>4, TransitionIs
  <2>5. pass'[p].pc = "save" /\ pass'[p].w.st = "alerting" => pass[p].w.st = "alerting"
    BY <2>4 DEF Significant
  <2> QED
    BY <1>0, <2>1, <2>2, <2>3, <2>4, <2>5, CoveredStep DEF AlertsCovered
<1>5. ASSUME NEW p \in Passes, Notify(p) PROVE AlertsCovered'
  <2>1. UNCHANGED <<row, active, incidents, failed, claimed, todo>>
    BY <1>5 DEF Notify, shared
  <2>2. \A w : Covered(w)' <=> Covered(w)
    BY <2>1 DEF Covered
  <2>3. PICK pc \in {"trigger", "clear", "save"} :
          /\ pass' = [pass EXCEPT ![p].pc = pc]
          /\ pass[p].w.st = "alerting" /\ pc # "trigger" => pass[p].id \in active
    BY <1>5 DEF Notify
  <2>4. /\ pass'[p].pc = pc /\ pass'[p].id = pass[p].id /\ pass'[p].w = pass[p].w
        /\ \A r \in Passes : r # p => pass'[r] = pass[r]
    BY <1>5, <2>3, PcIs DEF Notify, Late
  <2>5. pass[p].id \in active => Covered(pass[p].id)
    BY <1>0 DEF Covered
  <2> QED
    BY <1>0, <2>1, <2>2, <2>3, <2>4, <2>5, CoveredStep
<1>6. ASSUME NEW p \in Passes, TriggerIncident(p) PROVE AlertsCovered'
  <2>1. /\ UNCHANGED <<row, active, claimed, todo>>
        /\ incidents' = incidents \cup {pass[p].id}
        /\ failed' = failed \ {pass[p].id}
    BY <1>6 DEF TriggerIncident, shared
  <2>2. \A w : Covered(w) => Covered(w)'
    BY <2>1 DEF Covered
  <2>3. /\ pass'[p].pc = "track" /\ pass'[p].id = pass[p].id
        /\ \A r \in Passes : r # p => pass'[r] = pass[r]
    BY <1>6, PcIs DEF TriggerIncident, Late
  <2> QED
    BY <1>0, <2>1, <2>2, <2>3, CoveredStep
<1>7. ASSUME NEW p \in Passes, TriggerFails(p) PROVE AlertsCovered'
  <2>1. /\ UNCHANGED <<row, active, incidents, claimed, todo>>
        /\ failed' = failed \cup {pass[p].id}
    BY <1>7 DEF TriggerFails, shared
  <2>2. \A w : Covered(w) => Covered(w)'
    BY <2>1 DEF Covered
  <2>3. /\ pass'[p].pc = "save" /\ pass'[p].id = pass[p].id
        /\ \A r \in Passes : r # p => pass'[r] = pass[r]
    BY <1>7, PcIs DEF TriggerFails, Late
  <2>4. Covered(pass[p].id)'
    BY <2>1, <2>3 DEF Covered
  <2> QED
    BY <1>0, <2>1, <2>2, <2>3, <2>4, CoveredStep
<1>8. ASSUME NEW p \in Passes, Track(p) PROVE AlertsCovered'
  <2>1. UNCHANGED <<row, incidents, failed, claimed, todo>> /\ pass[p].pc \in {"track", "clear"}
    BY <1>8 DEF Track
  <2>2. \A w : Covered(w)' <=> Covered(w)
    BY <2>1 DEF Covered
  <2>3. /\ pass'[p].pc = "save" /\ pass'[p].id = pass[p].id /\ pass'[p].w = pass[p].w
        /\ \A r \in Passes : r # p => pass'[r] = pass[r]
    BY <1>8, PcIs DEF Track, Late
  <2>4. active' \subseteq incidents'
    BY <1>0, <1>8, <2>1 DEF Track, AlertsCovered
  <2>5. pass[p].w.st = "alerting" => Covered(pass[p].id)
    BY <2>1 DEF AlertsCovered, Covered
  <2> QED
    BY <2>1, <2>2, <2>3, <2>4, <2>5, CoveredStep
<1>9. ASSUME NEW p \in Passes, SaveWatch(p) PROVE AlertsCovered'
  <2>1. UNCHANGED <<active, incidents, failed, claimed, todo>> /\ pass[p].pc = "save"
    BY <1>9 DEF SaveWatch, shared
  <2>2. \A w : Covered(w)' <=> Covered(w)
    BY <2>1 DEF Covered
  <2>3. \A r \in Passes : pass'[r] = IF r = p THEN Idle ELSE pass[r]
    BY <1>9 DEF SaveWatch, TypeOK
  <2>4. \A w \in Watches : row'[w] = IF w = pass[p].id THEN pass[p].w ELSE row[w]
    BY <1>9 DEF SaveWatch, TypeOK
  <2>5. pass[p].w.st = "alerting" => Covered(pass[p].id)
    BY <2>1 DEF AlertsCovered
  <2>6. \A w \in Watches : row'[w].st = "alerting" => Covered(w)'
    BY <2>2, <2>4, <2>5 DEF AlertsCovered
  <2> QED
    BY <2>1, <2>2, <2>3, <2>6, RecordsAre DEF AlertsCovered
<1>10. ASSUME NEW w \in Watches, SaveBody(w) PROVE AlertsCovered'
  <2>1. UNCHANGED <<active, incidents, failed, todo>>
    BY <1>10 DEF SaveBody, Editing, shared
  <2>2. PICK d \in Durations, b \in BOOLEAN, st \in BodyStates :
          /\ row' = [row EXCEPT ![w] = [st |-> st, dur |-> d, on |-> b]]
          /\ claimed' = IF /\ st = "alerting" /\ row[w].st # "alerting"
                           /\ w \notin incidents \cup failed
                        THEN claimed \cup {w} ELSE claimed
    BY <1>10 DEF SaveBody
  <2>3. \A u \in Watches : Covered(u) => Covered(u)'
    BY <2>1, <2>2 DEF Covered
  <2>4. \A r \in Passes : pass'[r] \in {Spawned, pass[r]}
    BY <1>10 DEF SaveBody, TypeOK
  <2>5. /\ \A u \in Watches : u # w => row'[u] = row[u]
        /\ row'[w].st = st
    BY <2>2 DEF TypeOK
  \* a client's own ALERTING is covered by its claim, or was before
  <2>6. st = "alerting" => Covered(w)'
    BY <2>1, <2>2, <2>3 DEF AlertsCovered, Covered
  <2>7. \A u \in Watches : row'[u].st = "alerting" => Covered(u)'
    BY <2>3, <2>5, <2>6 DEF AlertsCovered
  <2>8. \A r \in Passes : \A c \in todo'[r] : c.w.st = "alerting" => Covered(c.id)'
    BY <2>1, <2>3 DEF AlertsCovered, TypeOK, Copy
  <2>9. \A r \in Passes :
          /\ /\ pass'[r].pc \in {"measured", "transition", "clear", "save"}
             /\ pass'[r].w.st = "alerting"
             => Covered(pass[r].id)'
          /\ pass'[r].pc = "track" => pass'[r].id \in incidents'
    <3> SUFFICES ASSUME NEW r \in Passes
                 PROVE  /\ /\ pass'[r].pc \in {"measured", "transition", "clear", "save"}
                           /\ pass'[r].w.st = "alerting"
                           => Covered(pass[r].id)'
                        /\ pass'[r].pc = "track" => pass'[r].id \in incidents'
      OBVIOUS
    <3>1. CASE pass'[r] = Spawned
      BY <3>1, RecordsAre
    <3>2. CASE pass'[r] = pass[r]
      <4>1. pass[r].pc \in Steps => pass[r].id \in Watches
        BY PassIs
      <4> QED
        BY <2>1, <2>3, <3>2, <4>1 DEF AlertsCovered, Steps
    <3> QED
      BY <2>4, <3>1, <3>2
  <2> QED
    BY <2>1, <2>7, <2>8, <2>9 DEF AlertsCovered
<1>11. ASSUME NEW w \in Watches, DeleteWatch(w) PROVE AlertsCovered'
  <2>1. UNCHANGED <<active, incidents, failed, claimed, todo, pass>>
    BY <1>11 DEF DeleteWatch, Editing, shared
  <2>2. \A u : Covered(u)' <=> Covered(u)
    BY <2>1 DEF Covered
  <2>3. \A u \in Watches : row'[u] = IF u = w THEN NoWatch ELSE row[u]
    BY <1>11 DEF DeleteWatch, TypeOK
  <2> QED
    BY <2>1, <2>2, <2>3, WatchIs DEF AlertsCovered
<1>12. CASE \/ \E w \in Watches : MetricChanges(w)
            \/ Tick
            \/ UNCHANGED vars
  <2>1. UNCHANGED <<row, active, incidents, failed, claimed, todo, pass>>
    BY <1>12 DEF MetricChanges, Tick, vars, shared
  <2>2. \A u : Covered(u)' <=> Covered(u)
    BY <2>1 DEF Covered
  <2> QED
    BY <2>1, <2>2 DEF AlertsCovered
<1>13. CASE Restart
  <2>1. UNCHANGED <<row, incidents, failed, claimed>> /\ active' = {}
    BY <1>13 DEF Restart
  <2>2. \A u : Covered(u)' <=> Covered(u)
    BY <2>1 DEF Covered
  <2>3. \A p \in Passes : todo'[p] = {} /\ pass'[p] = Idle
    BY <1>13 DEF Restart
  <2> QED
    BY <2>1, <2>2, <2>3, RecordsAre DEF AlertsCovered
<1> QED
  BY <1>1, <1>2, <1>3, <1>4, <1>5, <1>6, <1>7, <1>8, <1>9, <1>10, <1>11, <1>12, <1>13
  DEF Next, Work

\* An alerting watch has an incident, or CreateIncident has failed for it, or
\* a client made it alerting by its own word: notify comes before the save,
\* and a pass that saves a copy that was alerting already read it from such a
\* row.
THEOREM AlertingIsPaged == Spec => []AlertingHasIncident
<1>1. TypeOK /\ AlertsCovered => AlertingHasIncident
  BY DEF AlertsCovered, Covered, AlertingHasIncident
<1> QED
  BY <1>1, InitTypeOK, NextTypeOK, InitCovered, NextCovered, PTL DEF Spec

-----------------------------------------------------------------------------
(* OncePerPass.                                                            *)

\* A step of pass p inside evaluate.
LEMMA OnceStep ==
    ASSUME OncePerPass, NEW p \in Passes,
           \A r \in Passes : r # p => pass'[r] = pass[r],
           todo' = todo, pass[p].pc \in Steps, pass'[p].id = pass[p].id,
           pass'[p].pc # "notify"
    PROVE  OncePerPass'
<1> SUFFICES ASSUME NEW r \in Passes
             PROVE  /\ \A c, d \in todo'[r] : c.id = d.id => c = d
                    /\ pass'[r].pc \in Steps => \A c \in todo'[r] : c.id # pass'[r].id
                    /\ pass'[r].pc = "notify" => pass'[r].w.st \in {"ok", "alerting"}
  BY DEF OncePerPass
<1>1. CASE r = p
  BY <1>1 DEF OncePerPass
<1>2. CASE r # p
  BY <1>2 DEF OncePerPass
<1> QED
  BY <1>1, <1>2

LEMMA InitOnce == Init => OncePerPass
BY RecordsAre DEF Init, OncePerPass, Steps

LEMMA NextOnce == TypeOK /\ OncePerPass /\ [Next]_vars => OncePerPass'
<1> SUFFICES ASSUME TypeOK, OncePerPass, [Next]_vars PROVE OncePerPass'
  OBVIOUS
<1>1. ASSUME NEW p \in Passes, BeginPass(p) PROVE OncePerPass'
  <2>1. \A r \in Passes : todo'[r] = IF r = p THEN Listed ELSE todo[r]
    BY <1>1 DEF BeginPass, TypeOK
  <2>2. \A r \in Passes : pass'[r] = IF r = p THEN Idle ELSE pass[r]
    BY <1>1 DEF BeginPass, TypeOK
  <2> QED
    BY <2>1, <2>2, RecordsAre, ListedIs DEF OncePerPass, Steps
<1>2. ASSUME NEW p \in Passes, NEW c \in todo[p], Measure(p, c) PROVE OncePerPass'
  <2>1. /\ \A r \in Passes : r # p => pass'[r] = pass[r]
        /\ \A r \in Passes : todo'[r] = IF r = p THEN todo[p] \ {c} ELSE todo[r]
    BY <1>2 DEF Measure, TypeOK
  <2>2. pass'[p].pc = "measured" /\ pass'[p].id = c.id
    BY <1>2, MeasureIs
  <2> QED
    BY <2>1, <2>2 DEF OncePerPass
<1>3. ASSUME NEW p \in Passes, Evaluate(p) PROVE OncePerPass'
  <2>1. todo' = todo /\ \A r \in Passes : r # p => pass'[r] = pass[r]
    BY <1>3 DEF Evaluate, TypeOK
  <2>2. /\ pass[p].pc = "measured" /\ pass'[p].id = pass[p].id
        /\ pass'[p].pc \in {"save", "transition"}
    BY <1>3, EvaluateIs
  <2> QED
    BY <2>1, <2>2, OnceStep DEF Steps
<1>4. ASSUME NEW p \in Passes, Transition(p) PROVE OncePerPass'
  <2>1. todo' = todo /\ \A r \in Passes : r # p => pass'[r] = pass[r]
    BY <1>4 DEF Transition, TypeOK
  <2>2. /\ pass[p].pc = "transition"
        /\ pass'[p].id = pass[p].id /\ pass'[p].w.st = pass[p].new
        /\ pass'[p].pc = IF Significant(pass[p].w.st, pass[p].new) THEN "notify" ELSE "save"
    BY <1>4, TransitionIs
  <2>3. pass'[p].pc = "notify" => pass'[p].w.st \in {"ok", "alerting"}
    BY <2>2 DEF Significant
  <2> QED
    BY <2>1, <2>2, <2>3 DEF OncePerPass, Steps
<1>5. ASSUME NEW p \in Passes,
             Notify(p) \/ TriggerIncident(p) \/ TriggerFails(p) \/ Track(p)
      PROVE  OncePerPass'
  <2>1. PICK pc \in {"trigger", "track", "clear", "save"} :
          pass' = [pass EXCEPT ![p].pc = pc] /\ pass[p].pc \in Late
    BY <1>5 DEF Notify, TriggerIncident, TriggerFails, Track, Late
  <2>2. todo' = todo
    BY <1>5 DEF Notify, TriggerIncident, TriggerFails, Track
  <2>3. /\ pass'[p].pc = pc /\ pass'[p].id = pass[p].id
        /\ \A r \in Passes : r # p => pass'[r] = pass[r]
    BY <2>1, PcIs DEF Late
  <2> QED
    BY <2>1, <2>2, <2>3, OnceStep DEF Late, Steps
<1>6. ASSUME NEW p \in Passes, SaveWatch(p) PROVE OncePerPass'
  <2>1. todo' = todo /\ \A r \in Passes : pass'[r] = IF r = p THEN Idle ELSE pass[r]
    BY <1>6 DEF SaveWatch, TypeOK
  <2> QED
    BY <2>1, RecordsAre DEF OncePerPass, Steps
<1>7. ASSUME NEW w \in Watches, SaveBody(w) PROVE OncePerPass'
  <2>1. todo' = todo /\ \A r \in Passes : pass'[r] \in {Spawned, pass[r]}
    BY <1>7 DEF SaveBody, Editing, TypeOK
  <2> QED
    BY <2>1, RecordsAre DEF OncePerPass, Steps
<1>8. CASE \/ \E w \in Watches : DeleteWatch(w) \/ MetricChanges(w)
           \/ Tick
           \/ UNCHANGED vars
  <2>1. UNCHANGED <<todo, pass>>
    BY <1>8 DEF DeleteWatch, Editing, MetricChanges, Tick, vars
  <2> QED
    BY <2>1 DEF OncePerPass
<1>9. CASE Restart
  <2>1. \A p \in Passes : todo'[p] = {} /\ pass'[p] = Idle
    BY <1>9 DEF Restart
  <2> QED
    BY <2>1, RecordsAre DEF OncePerPass, Steps
<1> QED
  BY <1>1, <1>2, <1>3, <1>4, <1>5, <1>6, <1>7, <1>8, <1>9 DEF Next, Work

-----------------------------------------------------------------------------
(* FewOpened: how a step may change what is counted.                       *)

LEMMA CountsAre ==
    /\ IsFiniteSet(Live) /\ Cardinality(Live) \in Nat
    /\ IsFiniteSet(Live') /\ Cardinality(Live') \in Nat
    /\ \A w : IsFiniteSet(Threats(w)) /\ Cardinality(Threats(w)) \in Nat
    /\ \A w : IsFiniteSet(Threats(w)') /\ Cardinality(Threats(w)') \in Nat
<1>1. IsFiniteSet(Forced)
  BY WatchAssumption, FS_Subset DEF Forced
<1>2. Live \subseteq Forced /\ Live' \subseteq Forced
  BY DEF Live
<1>3. \A w : Threats(w) \subseteq Forced /\ Threats(w)' \subseteq Forced
  BY DEF Threats
<1> QED
  BY <1>1, <1>2, <1>3, FS_Subset, FS_CardinalityType

LEMMA OneMore ==
    ASSUME NEW S, IsFiniteSet(S), NEW x, NEW T, T \subseteq S \cup {x}
    PROVE  Cardinality(T) <= Cardinality(S) + 1
<1>1. Cardinality(S) \in Nat
  BY FS_CardinalityType
<1>2. CASE x \in S
  <2>1. T \in SUBSET S
    BY <1>2
  <2>2. IsFiniteSet(T) /\ Cardinality(T) <= Cardinality(S)
    BY <2>1, FS_Subset
  <2>3. Cardinality(T) \in Nat
    BY <2>2, FS_CardinalityType
  <2> QED
    BY <1>1, <2>2, <2>3
<1>3. CASE x \notin S
  <2>1. IsFiniteSet(S \cup {x}) /\ Cardinality(S \cup {x}) = Cardinality(S) + 1
    BY <1>3, FS_AddElement
  <2>2. Cardinality(T) <= Cardinality(S \cup {x})
    BY <2>1, FS_Subset
  <2> QED
    BY <2>1, <2>2
<1> QED
  BY <1>2, <1>3

\* Nothing is gained.
LEMMA BudgetKept ==
    ASSUME TypeOK, TypeOK', NEW w \in Watches, Budget(w),
           opened'[w] = opened[w], Chance(w)' => Chance(w),
           Threats(w)' \subseteq Threats(w),
           edits + restarts <= edits' + restarts'
    PROVE  Budget(w)'
<1>1. Cardinality(Threats(w)') <= Cardinality(Threats(w))
  BY CountsAre, FS_Subset
<1>2. edits \in Nat /\ restarts \in Nat /\ edits' \in Nat /\ restarts' \in Nat
      /\ opened[w] \in Nat
  BY DEF TypeOK
<1>3. Cardinality(Threats(w)) \in Nat /\ Cardinality(Threats(w)') \in Nat
  BY CountsAre
<1>4. PICK k, k2 \in 0 .. 1 :
        k = (IF Chance(w) THEN 1 ELSE 0) /\ k2 = (IF Chance(w)' THEN 1 ELSE 0)
  OBVIOUS
<1>5. k2 <= k
  BY <1>4
<1>6. opened[w] + k + Cardinality(Threats(w)) <= 1 + edits + restarts
  BY <1>4 DEF Budget
<1>7. \A o, c, c2, e, r, e2, r2 \in Nat :
        o + k + c <= 1 + e + r /\ c2 <= c /\ e + r <= e2 + r2 => o + k2 + c2 <= 1 + e2 + r2
  BY <1>5
<1>8. opened[w] + k2 + Cardinality(Threats(w)') <= 1 + edits' + restarts'
  BY <1>1, <1>2, <1>3, <1>6, <1>7
<1> QED
  BY <1>4, <1>8 DEF Budget

\* A forced pass spends its threat: it opened an incident, or stopped tracking.
LEMMA BudgetSpent ==
    ASSUME TypeOK, TypeOK', NEW w \in Watches, Budget(w),
           NEW p \in Threats(w), Threats(w)' \subseteq Threats(w) \ {p},
           UNCHANGED <<edits, restarts>>,
           \/ opened'[w] = opened[w] + 1 /\ (Chance(w)' => Chance(w))
           \/ opened'[w] = opened[w]
    PROVE  Budget(w)'
<1>1. Cardinality(Threats(w) \ {p}) = Cardinality(Threats(w)) - 1
      /\ IsFiniteSet(Threats(w) \ {p})
  BY CountsAre, FS_RemoveElement
<1>2. Cardinality(Threats(w)') <= Cardinality(Threats(w)) - 1
  BY <1>1, CountsAre, FS_Subset
<1>3. edits \in Nat /\ restarts \in Nat /\ opened[w] \in Nat
  BY DEF TypeOK
<1> QED
  BY <1>2, <1>3, CountsAre DEF Budget

LEMMA ThreatsLive == \A w : Threats(w)' \subseteq Live'
<1>1. \A w, p : Threat(p, w)' => pass'[p] # Idle \/ todo'[p] # {}
  BY RecordsAre DEF Threat, In
<1> QED
  BY <1>1 DEF Threats, Live

\* A pass has found the watch fine.
LEMMA BudgetReset ==
    ASSUME TypeOK', NEW w \in Watches, opened'[w] = 0, Cardinality(Live') <= edits'
    PROVE  Budget(w)'
<1>1. Cardinality(Threats(w)') <= Cardinality(Live')
  BY ThreatsLive, CountsAre, FS_Subset
<1>2. edits' \in Nat /\ restarts' \in Nat
  BY DEF TypeOK
<1> QED
  BY <1>1, <1>2, CountsAre DEF Budget

\* A step of one pass.
LEMMA OthersStay ==
    ASSUME NEW p \in Passes,
           \A r \in Passes : r # p => pass'[r] = pass[r] /\ todo'[r] = todo[r]
    PROVE  /\ Live' \subseteq Live \cup {p}
           /\ \A w : Threats(w)' \subseteq Threats(w) \cup {p}
           /\ \A w : ~Threat(p, w)' => Threats(w)' \subseteq Threats(w) \ {p}
           /\ \A w : (Threat(p, w)' => Threat(p, w)) => Threats(w)' \subseteq Threats(w)
           /\ p = "tick" => \A w : Threats(w)' = Threats(w)
           /\ p # "tick" => \A w : (w \in active' <=> w \in active) => (Chance(w)' <=> Chance(w))
BY WatchAssumption DEF Live, Threats, Threat, Chance, In, Forced

\* The pass that takes the step was running already.
LEMMA LiveKept ==
    ASSUME TypeOK, FewOpened, NEW p \in Passes, edits' = edits,
           \A r \in Passes : r # p => pass'[r] = pass[r] /\ todo'[r] = todo[r],
           pass[p] # Idle \/ todo[p] # {}
    PROVE  Cardinality(Live') <= edits'
<1>1. Live' \subseteq Live
  BY OthersStay DEF Live, Forced
<1>2. Cardinality(Live') <= Cardinality(Live)
  BY <1>1, CountsAre, FS_Subset
<1>3. edits \in Nat /\ Cardinality(Live) <= edits
  BY DEF FewOpened, TypeOK
<1> QED
  BY <1>2, <1>3, CountsAre

\* A step of pass p for the watch id leaves the budget of the others alone.
LEMMA OtherBudgets ==
    ASSUME TypeOK, TypeOK', FewOpened, NEW p \in Passes, NEW id \in Watches,
           \A r \in Passes : r # p => pass'[r] = pass[r] /\ todo'[r] = todo[r],
           todo'[p] \subseteq todo[p], pass[p] # Spawned, pass'[p] # Spawned,
           pass[p].pc \in Steps => pass[p].id = id,
           pass'[p].pc \in Steps => pass'[p].id = id,
           \A w \in Watches \ {id} : opened'[w] = opened[w] /\ (w \in active' <=> w \in active),
           UNCHANGED <<edits, restarts>>
    PROVE  \A w \in Watches \ {id} : Budget(w)'
<1> SUFFICES ASSUME NEW w \in Watches, w # id PROVE Budget(w)'
  OBVIOUS
<1>1. /\ \A pcs \in SUBSET Steps : ~In(p, w, pcs) /\ ~In(p, w, pcs)'
      /\ ~In(p, w, {"trigger", "clear"})' /\ ~In(p, w, {"transition"})' /\ ~In(p, w, {"notify"})'
      /\ ~In(p, w, {"track"})
  BY DEF In, Steps
<1>2. Threat(p, w)' => Threat(p, w)
  BY <1>1 DEF Threat, In, Steps
<1>3. Threats(w)' \subseteq Threats(w)
  BY <1>2, OthersStay
<1>4. Chance(w)' => Chance(w)
  <2>1. CASE p = "tick"
    BY <1>1, <2>1 DEF Chance
  <2>2. CASE p # "tick"
    BY <2>2, OthersStay
  <2> QED
    BY <2>1, <2>2
<1>5. Budget(w)
  BY DEF FewOpened
<1>6. edits + restarts <= edits' + restarts'
  BY DEF TypeOK
<1> QED
  BY <1>3, <1>4, <1>5, <1>6, BudgetKept

LEMMA InitFew == Init => FewOpened
<1> SUFFICES ASSUME Init PROVE FewOpened
  OBVIOUS
<1>1. \A p \in Passes : pass[p] = Idle /\ todo[p] = {}
  BY DEF Init
<1>2. Live = {}
  BY <1>1 DEF Live, Forced
<1>3. ASSUME NEW w \in Watches PROVE Budget(w)
  <2>1. Threats(w) = {}
    BY <1>1, RecordsAre DEF Threats, Threat, In, Forced
  <2>2. opened[w] = 0 /\ edits = 0 /\ restarts = 0
    BY DEF Init
  <2> QED
    BY <2>1, <2>2, FS_EmptySet DEF Budget
<1> QED
  BY <1>2, <1>3, FS_EmptySet DEF Init, FewOpened

\* A step of pass p inside the evaluation of a watch.
LEMMA InsideStep ==
    ASSUME TypeOK, TypeOK', FewOpened, NEW p \in Passes, NEW id \in Watches,
           \A r \in Passes : r # p => pass'[r] = pass[r],
           todo' = todo, pass[p].pc \in Steps, pass'[p].pc \in Steps,
           pass[p].id = id, pass'[p].id = id,
           \A w \in Watches \ {id} : opened'[w] = opened[w] /\ (w \in active' <=> w \in active),
           UNCHANGED <<edits, restarts>>,
           Cardinality(Live') <= edits' => Budget(id)'
    PROVE  FewOpened'
<1>1. pass[p] # Idle /\ pass[p] # Spawned /\ pass'[p] # Spawned
  BY PassIs, RecordsAre DEF Steps
<1>2. Cardinality(Live') <= edits'
  BY <1>1, LiveKept
<1>3. \A w \in Watches \ {id} : Budget(w)'
  BY <1>1, OtherBudgets
<1> QED
  BY <1>2, <1>3 DEF FewOpened

\* ... that opens nothing and gives the ticker no new chance.
LEMMA QuietStep ==
    ASSUME TypeOK, TypeOK', FewOpened, NEW p \in Passes, NEW id \in Watches,
           \A r \in Passes : r # p => pass'[r] = pass[r],
           todo' = todo, pass[p].pc \in Steps, pass'[p].pc \in Steps,
           pass[p].id = id, pass'[p].id = id,
           opened'[id] = opened[id],
           \A w \in Watches \ {id} : opened'[w] = opened[w] /\ (w \in active' <=> w \in active),
           UNCHANGED <<edits, restarts>>,
           pass[p].pc \in {"measured", "transition", "notify", "trigger", "clear"}
             \/ pass'[p].pc = "save",
           Chance(id)' => Chance(id)
    PROVE  FewOpened'
<1>1. pass[p] # Spawned /\ pass'[p] # Spawned
  BY PassIs, RecordsAre DEF Steps
<1>2. Threat(p, id)' => Threat(p, id)
  BY <1>1 DEF Threat, In
<1>3. Threats(id)' \subseteq Threats(id)
  BY <1>2, OthersStay
<1>4. Budget(id) /\ edits + restarts <= edits' + restarts'
  BY DEF FewOpened, TypeOK
<1>5. Budget(id)'
  BY <1>3, <1>4, BudgetKept
<1> QED
  BY <1>5, InsideStep

\* ... by which a forced pass opens an incident or stops tracking.
LEMMA SpendingStep ==
    ASSUME TypeOK, TypeOK', FewOpened, OncePerPass, NEW p \in Passes, NEW id \in Watches,
           \A r \in Passes : r # p => pass'[r] = pass[r],
           todo' = todo, pass[p].pc \in {"trigger", "clear"}, pass'[p].pc \in {"track", "save"},
           pass[p].id = id, pass'[p].id = id, p # "tick",
           \A w \in Watches \ {id} : opened'[w] = opened[w] /\ (w \in active' <=> w \in active),
           UNCHANGED <<edits, restarts>>,
           \/ opened'[id] = opened[id] + 1 /\ active' = active
           \/ opened'[id] = opened[id]
    PROVE  FewOpened'
<1>1. pass'[p] # Spawned
  BY RecordsAre
<1>2. \A c \in todo[p] : c.id # id
  BY DEF OncePerPass, Steps
<1>3. ~Threat(p, id)'
  BY <1>1, <1>2 DEF Threat, In
<1>4. Threats(id)' \subseteq Threats(id) \ {p}
  BY <1>3, OthersStay
<1>5. p \in Threats(id)
  BY DEF Threats, Threat, In, Forced
<1>6. Budget(id)
  BY DEF FewOpened
<1>7. active' = active => (Chance(id)' => Chance(id))
  BY OthersStay
<1>8. Budget(id)'
  BY <1>4, <1>5, <1>6, <1>7, BudgetSpent
<1> QED
  BY <1>8, InsideStep DEF Steps

LEMMA NextFew ==
    TypeOK /\ TypeOK' /\ OncePerPass /\ FewOpened /\ [Next]_vars => FewOpened'
<1> SUFFICES ASSUME TypeOK, TypeOK', OncePerPass, FewOpened, [Next]_vars PROVE FewOpened'
  OBVIOUS
<1>0. /\ edits \in Nat /\ restarts \in Nat /\ edits + restarts <= edits + restarts
      /\ \A w \in Watches : Budget(w)
  BY DEF TypeOK, FewOpened
<1>1. ASSUME NEW p \in Passes, BeginPass(p) PROVE FewOpened'
  <2>1. /\ \A r \in Passes : r # p => pass'[r] = pass[r] /\ todo'[r] = todo[r]
        /\ pass'[p] = Idle
        /\ pass[p] = (IF p = "tick" THEN Idle ELSE Spawned)
        /\ UNCHANGED <<active, opened, edits, restarts>>
    BY <1>1 DEF BeginPass, TypeOK, shared, counters
  <2>2. Live' \subseteq Live
    BY <2>1, RecordsAre DEF Live, Forced
  <2>3. Cardinality(Live') <= edits'
    BY <1>0, <2>1, <2>2, CountsAre, FS_Subset DEF FewOpened
  <2>4. ASSUME NEW w \in Watches PROVE Budget(w)'
    <3>1. CASE p = "tick"
      <4>1. Threats(w)' = Threats(w) /\ (Chance(w)' <=> Chance(w))
        BY <2>1, <3>1, OthersStay DEF Chance, In
      <4> QED
        BY <1>0, <2>1, <4>1, BudgetKept
    <3>2. CASE p # "tick"
      <4>1. Threat(p, w)
        BY <2>1, <3>2 DEF Threat
      <4>2. Threats(w)' \subseteq Threats(w) /\ (Chance(w)' <=> Chance(w))
        BY <2>1, <3>2, <4>1, OthersStay
      <4> QED
        BY <1>0, <2>1, <4>2, BudgetKept
    <3> QED
      BY <3>1, <3>2
  <2> QED
    BY <2>3, <2>4 DEF FewOpened
<1>2. ASSUME NEW p \in Passes, NEW c \in todo[p], Measure(p, c) PROVE FewOpened'
  <2>1. /\ \A r \in Passes : r # p => pass'[r] = pass[r] /\ todo'[r] = todo[r]
        /\ todo'[p] \subseteq todo[p] /\ pass[p] = Idle
        /\ UNCHANGED <<active, opened, edits, restarts>>
    BY <1>2 DEF Measure, TypeOK, shared, counters
  <2>2. pass'[p].pc = "measured" /\ pass'[p].id = c.id /\ c.id \in Watches
    BY <1>2, MeasureIs
  <2>3. Cardinality(Live') <= edits'
    BY <2>1, LiveKept
  <2>4. ASSUME NEW w \in Watches PROVE Budget(w)'
    <3>1. Threat(p, w)' => Threat(p, w)
      BY <2>1, <2>2, RecordsAre DEF Threat, In
    <3>2. Threats(w)' \subseteq Threats(w)
      BY <2>1, <3>1, OthersStay
    <3>3. Chance(w)' => Chance(w)
      <4>1. CASE p = "tick"
        BY <2>1, <2>2, RecordsAre, <4>1 DEF Chance, In
      <4>2. CASE p # "tick"
        BY <2>1, <4>2, OthersStay
      <4> QED
        BY <4>1, <4>2
    <3> QED
      BY <1>0, <2>1, <3>2, <3>3, BudgetKept
  <2> QED
    BY <2>3, <2>4 DEF FewOpened
<1>3. ASSUME NEW p \in Passes, Evaluate(p) PROVE FewOpened'
  <2> DEFINE st == NewState(pass[p].value, pendingStart[pass[p].id], pass[p].w.dur)
  <2>1. /\ todo' = todo /\ UNCHANGED <<active, edits, restarts>>
        /\ \A r \in Passes : r # p => pass'[r] = pass[r]
    BY <1>3 DEF Evaluate, TypeOK, counters
  <2>2. PICK id \in Watches : pass[p].id = id /\ pass'[p].id = id
    BY <1>3, EvaluateIs
  <2>3. /\ pass[p].pc = "measured"
        /\ \/ pass'[p].pc = "save"
           \/ pass'[p].pc = "transition" /\ pass'[p].new = st
        /\ opened' = [opened EXCEPT ![id] = IF st = "ok" THEN 0 ELSE @]
    BY <1>3, <2>2, EvaluateIs
  <2> HIDE DEF st
  <2>4. \A w \in Watches \ {id} : opened'[w] = opened[w]
    BY <2>3 DEF TypeOK
  <2>5. CASE st = "ok"
    <3>1. opened'[id] = 0
      BY <2>3, <2>5 DEF TypeOK
    <3>2. Cardinality(Live') <= edits' => Budget(id)'
      BY <3>1, BudgetReset
    <3> QED
      BY <2>1, <2>2, <2>3, <2>4, <3>2, InsideStep DEF Steps
  <2>6. CASE st # "ok"
    <3>1. opened'[id] = opened[id]
      BY <2>3, <2>6 DEF TypeOK
    <3>2. Chance(id)' => Chance(id)
      <4>1. CASE p = "tick"
        BY <2>1, <2>3, <2>6, <4>1 DEF Chance, In
      <4>2. CASE p # "tick"
        BY <2>1, <4>2, OthersStay
      <4> QED
        BY <4>1, <4>2
    <3> QED
      BY <2>1, <2>2, <2>3, <2>4, <3>1, <3>2, QuietStep DEF Steps
  <2> QED
    BY <2>5, <2>6
<1>4. ASSUME NEW p \in Passes, Transition(p) PROVE FewOpened'
  <2>1. /\ todo' = todo /\ UNCHANGED <<active, opened, edits, restarts>>
        /\ \A r \in Passes : r # p => pass'[r] = pass[r]
    BY <1>4 DEF Transition, TypeOK, counters
  <2>2. PICK id \in Watches : pass[p].id = id /\ pass'[p].id = id
    BY <1>4, TransitionIs
  <2>3. /\ pass[p].pc = "transition" /\ pass'[p].pc \in {"notify", "save"}
        /\ pass'[p].w.st = pass[p].new
    BY <1>4, TransitionIs
  <2>4. Chance(id)' => Chance(id)
    <3>1. CASE p = "tick"
      BY <2>1, <2>2, <2>3, <3>1 DEF Chance, In
    <3>2. CASE p # "tick"
      BY <2>1, <3>2, OthersStay
    <3> QED
      BY <3>1, <3>2
  <2> QED
    BY <2>1, <2>2, <2>3, <2>4, QuietStep DEF Steps
<1>5. ASSUME NEW p \in Passes, Notify(p) PROVE FewOpened'
  <2>1. todo' = todo /\ UNCHANGED <<active, opened, edits, restarts>> /\ pass[p].pc = "notify"
    BY <1>5 DEF Notify, shared, counters
  <2>2. PICK id \in Watches : pass[p].id = id
    BY <2>1, PassIs DEF Steps
  <2>3. PICK pc \in {"trigger", "clear", "save"} :
          /\ pass' = [pass EXCEPT ![p].pc = pc]
          /\ pc = "trigger" => id \notin active
          /\ pc = "clear" => pass[p].w.st # "alerting"
    BY <1>5, <2>2 DEF Notify
  <2>4. /\ pass'[p].pc = pc /\ pass'[p].id = id
        /\ \A r \in Passes : r # p => pass'[r] = pass[r]
    BY <2>1, <2>2, <2>3, PcIs DEF Late
  <2>5. pc = "clear" => pass[p].w.st = "ok"
    BY <2>1, <2>3 DEF OncePerPass
  <2>6. Chance(id)' => Chance(id)
    BY <2>1, <2>2, <2>3, <2>4, <2>5 DEF Chance, In
  <2> QED
    BY <2>1, <2>2, <2>4, <2>6, QuietStep DEF Steps
<1>6. ASSUME NEW p \in Passes, TriggerIncident(p) PROVE FewOpened'
  <2>1. /\ todo' = todo /\ UNCHANGED <<active, edits, restarts>> /\ pass[p].pc = "trigger"
        /\ opened' = [opened EXCEPT ![pass[p].id] = @ + 1]
    BY <1>6 DEF TriggerIncident, shared, counters
  <2>2. PICK id \in Watches : pass[p].id = id
    BY <2>1, PassIs DEF Steps
  <2>3. /\ pass'[p].pc = "track" /\ pass'[p].id = id
        /\ \A r \in Passes : r # p => pass'[r] = pass[r]
    BY <1>6, <2>1, <2>2, PcIs DEF TriggerIncident, Late
  <2>4. opened'[id] = opened[id] + 1 /\ \A w \in Watches \ {id} : opened'[w] = opened[w]
    BY <2>1, <2>2 DEF TypeOK
  <2>5. CASE p # "tick"
    BY <2>1, <2>2, <2>3, <2>4, <2>5, SpendingStep
  <2>6. CASE p = "tick"
    <3>1. Chance(id) /\ ~Chance(id)'
      BY <2>1, <2>2, <2>3, <2>6 DEF Chance, In
    <3>2. Threats(id)' = Threats(id)
      BY <2>1, <2>3, <2>6, OthersStay
    <3>3. opened[id] \in Nat /\ Cardinality(Threats(id)) \in Nat /\ Budget(id)
      BY <1>0, CountsAre DEF TypeOK
    <3>4. Budget(id)'
      BY <1>0, <2>1, <2>4, <3>1, <3>2, <3>3 DEF Budget
    <3> QED
      BY <2>1, <2>2, <2>3, <2>4, <3>4, InsideStep DEF Steps
  <2> QED
    BY <2>5, <2>6
<1>7. ASSUME NEW p \in Passes, TriggerFails(p) PROVE FewOpened'
  <2>1. todo' = todo /\ UNCHANGED <<active, opened, edits, restarts>> /\ pass[p].pc = "trigger"
    BY <1>7 DEF TriggerFails, shared
  <2>2. PICK id \in Watches : pass[p].id = id
    BY <2>1, PassIs DEF Steps
  <2>3. /\ pass'[p].pc = "save" /\ pass'[p].id = id
        /\ \A r \in Passes : r # p => pass'[r] = pass[r]
    BY <1>7, <2>1, <2>2, PcIs DEF TriggerFails, Late
  <2>4. Chance(id)' => Chance(id)
    <3>1. CASE p = "tick"
      BY <2>1, <2>2, <2>3, <3>1 DEF Chance, In
    <3>2. CASE p # "tick"
      BY <2>1, <2>3, <3>2, OthersStay
    <3> QED
      BY <3>1, <3>2
  <2> QED
    BY <2>1, <2>2, <2>3, <2>4, QuietStep DEF Steps
<1>8. ASSUME NEW p \in Passes, Track(p) PROVE FewOpened'
  <2>1. /\ todo' = todo /\ UNCHANGED <<opened, edits, restarts>>
        /\ pass[p].pc \in {"track", "clear"}
    BY <1>8 DEF Track, counters
  <2>2. PICK id \in Watches : pass[p].id = id
    BY <2>1, PassIs DEF Steps
  <2>3. /\ pass'[p].pc = "save" /\ pass'[p].id = id
        /\ \A r \in Passes : r # p => pass'[r] = pass[r]
    BY <1>8, <2>1, <2>2, PcIs DEF Track, Late
  <2>4. /\ \A w \in Watches \ {id} : w \in active' <=> w \in active
        /\ id \in active' <=> pass[p].pc = "track"
    BY <1>8, <2>1, <2>2 DEF Track
  <2>5. CASE p # "tick" /\ pass[p].pc = "clear"
    BY <2>1, <2>2, <2>3, <2>4, <2>5, SpendingStep
  <2>6. CASE p = "tick" \/ pass[p].pc = "track"
    <3>1. Chance(id)' => Chance(id)
      <4>1. CASE p = "tick"
        BY <2>1, <2>2, <2>3, <2>4, <4>1 DEF Chance, In
      <4>2. CASE p # "tick"
        <5>1. pass'["tick"] = pass["tick"] /\ id \in active'
          BY <2>3, <2>4, <2>6, <4>2, WatchAssumption
        <5> QED
          BY <5>1 DEF Chance, In
      <4> QED
        BY <4>1, <4>2
    <3> QED
      BY <2>1, <2>2, <2>3, <2>4, <3>1, QuietStep DEF Steps
  <2> QED
    BY <2>1, <2>5, <2>6
<1>9. ASSUME NEW p \in Passes, SaveWatch(p) PROVE FewOpened'
  <2>1. /\ UNCHANGED <<active, opened, edits, restarts>> /\ pass[p].pc = "save"
        /\ pass'[p] = Idle
        /\ todo' = todo /\ \A r \in Passes : r # p => pass'[r] = pass[r]
    BY <1>9 DEF SaveWatch, TypeOK, shared, counters
  <2>2. Cardinality(Live') <= edits'
    BY <2>1, LiveKept, RecordsAre
  <2>3. ASSUME NEW w \in Watches PROVE Budget(w)'
    <3>1. Threat(p, w)' => Threat(p, w)
      BY <2>1, RecordsAre DEF Threat, In
    <3>2. Threats(w)' \subseteq Threats(w)
      BY <2>1, <3>1, OthersStay
    <3>3. Chance(w)' => Chance(w)
      <4>1. CASE p = "tick"
        BY <2>1, RecordsAre, <4>1 DEF Chance, In
      <4>2. CASE p # "tick"
        BY <2>1, <4>2, OthersStay
      <4> QED
        BY <4>1, <4>2
    <3> QED
      BY <1>0, <2>1, <3>2, <3>3, BudgetKept
  <2> QED
    BY <2>2, <2>3 DEF FewOpened
<1>10. ASSUME NEW w0 \in Watches, SaveBody(w0) PROVE FewOpened'
  <2>1. UNCHANGED <<active, opened, restarts, todo>> /\ edits' = edits + 1
    BY <1>10 DEF SaveBody, Editing, shared
  <2>2. PICK p \in Forced : pass[p] = Idle /\ pass' = [pass EXCEPT ![p] = Spawned]
    BY <1>10 DEF SaveBody, Forced
  <2>3. /\ p \in Passes /\ p # "tick"
        /\ \A r \in Passes : r # p => pass'[r] = pass[r] /\ todo'[r] = todo[r]
    BY <2>1, <2>2 DEF Forced, TypeOK
  <2>4. Cardinality(Live') <= edits'
    <3>1. Live' \subseteq Live \cup {p}
      BY <2>3, OthersStay
    <3>2. Cardinality(Live') <= Cardinality(Live) + 1
      BY <3>1, CountsAre, OneMore
    <3> QED
      BY <1>0, <2>1, <3>2, CountsAre DEF FewOpened
  <2>5. ASSUME NEW w \in Watches PROVE Budget(w)'
    <3>1. Threats(w)' \subseteq Threats(w) \cup {p} /\ (Chance(w)' <=> Chance(w))
      BY <2>1, <2>3, OthersStay
    <3>2. Cardinality(Threats(w)') <= Cardinality(Threats(w)) + 1
      BY <3>1, CountsAre, OneMore
    <3>3. opened[w] \in Nat /\ Budget(w)
      BY <1>0 DEF TypeOK
    <3>4. PICK k \in 0 .. 1 : k = (IF Chance(w) THEN 1 ELSE 0)
      OBVIOUS
    <3>5. opened[w] + k + Cardinality(Threats(w)) <= 1 + edits + restarts
      BY <3>3, <3>4 DEF Budget
    <3>6. Cardinality(Threats(w)) \in Nat /\ Cardinality(Threats(w)') \in Nat
      BY CountsAre
    <3>7. opened[w] + k + Cardinality(Threats(w)') <= 1 + (edits + 1) + restarts
      BY <1>0, <3>2, <3>3, <3>5, <3>6
    <3> QED
      BY <2>1, <3>1, <3>4, <3>7 DEF Budget
  <2> QED
    BY <2>4, <2>5 DEF FewOpened
<1>11. CASE \/ \E w \in Watches : DeleteWatch(w) \/ MetricChanges(w)
            \/ Tick
            \/ UNCHANGED vars
  <2>1. /\ UNCHANGED <<active, opened, restarts, todo, pass>>
        /\ edits' \in {edits, edits + 1}
    BY <1>11 DEF DeleteWatch, Editing, MetricChanges, Tick, vars, shared, counters
  <2>2. Live' = Live
    BY <2>1 DEF Live
  <2>3. Cardinality(Live') <= edits'
    BY <1>0, <2>1, <2>2, CountsAre DEF FewOpened
  <2>4. ASSUME NEW w \in Watches PROVE Budget(w)'
    <3>1. Threats(w)' = Threats(w) /\ (Chance(w)' <=> Chance(w))
      BY <2>1 DEF Threats, Threat, Chance, In
    <3>2. edits + restarts <= edits' + restarts'
      <4>1. CASE edits' = edits
        BY <1>0, <2>1, <4>1
      <4>2. CASE edits' = edits + 1
        BY <1>0, <2>1, <4>2
      <4> QED
        BY <2>1, <4>1, <4>2
    <3> QED
      BY <1>0, <2>1, <3>1, <3>2, BudgetKept
  <2> QED
    BY <2>3, <2>4 DEF FewOpened
<1>12. CASE Restart
  <2>1. UNCHANGED <<opened, edits>> /\ restarts' = restarts + 1
    BY <1>12 DEF Restart
  <2>2. \A p \in Passes : todo'[p] = {} /\ pass'[p] = Idle
    BY <1>12 DEF Restart
  <2>3. Live' = {}
    BY <2>2 DEF Live, Forced
  <2>4. ASSUME NEW w \in Watches PROVE Budget(w)'
    <3>1. Threats(w)' = {}
      BY <2>2, RecordsAre DEF Threats, Threat, In, Forced
    <3>2. opened[w] \in Nat /\ Cardinality(Threats(w)) \in Nat /\ Budget(w)
      BY <1>0, CountsAre DEF TypeOK
    <3>3. opened[w] <= 1 + edits + restarts
      BY <1>0, <3>2 DEF Budget
    <3> QED
      BY <1>0, <2>1, <3>1, <3>2, <3>3, FS_EmptySet DEF Budget
  <2> QED
    BY <1>0, <2>1, <2>3, <2>4, FS_EmptySet DEF FewOpened
<1> QED
  BY <1>1, <1>2, <1>3, <1>4, <1>5, <1>6, <1>7, <1>8, <1>9, <1>10, <1>11, <1>12
  DEF Next, Work

\* activeIncidents keeps duplicates away: between two passes that find a watch
\* fine it gets one incident, and one more at most for each edit and restart,
\* for any number of forced passes that race the ticker's.
THEOREM DuplicatesAreFew == Spec => []FewDuplicates
<1>1. TypeOK /\ FewOpened => FewDuplicates
  <2> SUFFICES ASSUME TypeOK, FewOpened, NEW w \in Watches
               PROVE  opened[w] <= 1 + edits + restarts
    BY DEF FewDuplicates
  <2>1. /\ Budget(w) /\ opened[w] \in Nat /\ edits \in Nat /\ restarts \in Nat
        /\ Cardinality(Threats(w)) \in Nat
    BY CountsAre DEF FewOpened, TypeOK
  <2> QED
    BY <2>1 DEF Budget
<1> QED
  BY <1>1, InitTypeOK, NextTypeOK, InitOnce, NextOnce, InitFew, NextFew, PTL DEF Spec
=============================================================================
