-------------------------- MODULE EscalationProofs --------------------------
(***************************************************************************)
(* Proofs about Escalation, for all policies, incidents and engines.       *)
(*                                                                         *)
(* The loops and the calls hold objects by pointer, so every argument      *)
(* begins with Owned: an object that is held is one its engine has made,   *)
(* and a loop holds only objects of its own engine.                        *)
(***************************************************************************)
EXTENDS Escalation, TLAPS

-----------------------------------------------------------------------------
(* The policy, the fields of a state, and who holds an object.             *)

LEMMA LevelsAreNumbers == Levels \subseteq Nat \ {0} /\ First \in Levels
<1>1. 1 \in DOMAIN Rules /\ \A k \in DOMAIN Rules : Rules[k] \in Nat \ {0}
  BY PolicyAssumption
<1> QED
  BY <1>1 DEF Levels, First

LEMMA NewStateIs ==
    /\ NewState \in State
    /\ NewState.level = First /\ NewState.age = 0
    /\ ~NewState.acked /\ NewState.paged = {}
BY LevelsAreNumbers, PolicyAssumption DEF NewState, State

LEMMA NoRowIsNoState == NoRow \notin State
<1>1. 0 \notin Levels
  BY LevelsAreNumbers
<1> QED
  BY <1>1 DEF NoRow, State

LEMMA OlderIs ==
    ASSUME NEW s \in State
    PROVE  /\ Older(s) \in State
           /\ Older(s).level = s.level /\ Older(s).acked = s.acked
           /\ Older(s).paged = s.paged
           /\ Older(s).age <= s.age + 1
<1> DEFINE a == IF s.age < AgeCap THEN s.age + 1 ELSE s.age
<1>1. a \in 0 .. AgeCap /\ a <= s.age + 1
  BY PolicyAssumption DEF State
<1>2. Older(s) = [s EXCEPT !.age = a]
  BY DEF Older
<1> HIDE DEF a
<1> QED
  BY <1>1, <1>2 DEF State

LEMMA PagedIs ==
    ASSUME NEW s \in State, NEW l \in Levels
    PROVE  /\ Paged(s, l) \in State
           /\ Paged(s, l).level = s.level /\ Paged(s, l).acked = s.acked
           /\ Paged(s, l).age = s.age /\ Paged(s, l).paged = s.paged \cup {l}
BY DEF Paged, State

LEMMA EscalatedIs ==
    ASSUME NEW s \in State
    PROVE  /\ Escalated(s) \in State
           /\ Escalated(s).acked = s.acked /\ Escalated(s).paged = s.paged
           /\ \/ s.level + 1 \in Levels /\ Escalated(s).level = s.level + 1
              \/ Escalated(s).level = First
<1>1. s.repeat + 1 \in Nat /\ 0 \in 0 .. AgeCap
  BY PolicyAssumption DEF State
<1>2. CASE s.level + 1 \in Levels
  BY <1>1, <1>2 DEF Escalated, State
<1>3. CASE s.level + 1 \notin Levels
  BY <1>1, <1>3, LevelsAreNumbers DEF Escalated, State
<1> QED
  BY <1>2, <1>3

LEMMA AckedIs ==
    ASSUME NEW s \in State
    PROVE  [s EXCEPT !.acked = TRUE] \in State /\ [s EXCEPT !.acked = TRUE].acked
BY DEF State

LEMMA AtIs ==
    /\ Idle \in LoopState /\ Idle.pc = "check"
    /\ \A pc, x : At(pc, x).pc = pc /\ At(pc, x).at = x
    /\ \A pc \in {"notify", "save"}, x \in Objects :
          At(pc, x) \in LoopState /\ At(pc, x) # Idle
    /\ \A l \in LoopState : l # Idle =>
          l.pc \in {"notify", "save"} /\ l.at \in Objects /\ l = At(l.pc, l.at)
<1>1. \A pc, x : At(pc, x).pc = pc /\ At(pc, x).at = x
  BY DEF At
<1>2. Idle.pc = "check"
  BY DEF Idle
<1>3. \A pc \in {"notify", "save"} : \A x : At(pc, x) # Idle
  BY <1>1, <1>2
<1> QED
  BY <1>1, <1>2, <1>3 DEF LoopState

LEMMA IdIs ==
    ASSUME NEW e \in Engines, NEW i \in Incidents, NEW g \in Gens
    PROVE  /\ Id(e, i, g) \in Objects /\ IncidentOf(Id(e, i, g)) = i
           /\ Id(e, i, g)[1] = e /\ Id(e, i, g)[2] = i /\ Id(e, i, g)[3] = g
BY DEF Id, Objects, IncidentOf

LEMMA ObjectIs ==
    ASSUME NEW x \in Objects
    PROVE  /\ x[1] \in Engines /\ x[2] \in Incidents /\ x[3] \in Gens
           /\ IncidentOf(x) \in Incidents /\ x = Id(x[1], x[2], x[3])
BY DEF Id, Objects, IncidentOf

-----------------------------------------------------------------------------
(* TypeOK.                                                                 *)

LEMMA SaveTypeOK ==
    ASSUME TypeOK, NEW i \in Incidents, NEW s \in State, SaveEscalationState(i, s)
    PROVE  /\ row' \in [Incidents -> State \cup {NoRow}]
           /\ faults' \in 0 .. MaxFaults
           /\ faults' = 0 => row' = [row EXCEPT ![i] = s] /\ faults = 0
           /\ row' = row \/ row' = [row EXCEPT ![i] = s]
BY BoundAssumption DEF TypeOK, SaveEscalationState

LEMMA UnansweredIs ==
    ASSUME TypeOK, NEW e \in Engines, NEW x \in Unanswered(e)
    PROVE  /\ x \in Objects /\ x[1] = e
           /\ x[3] = states[e][x[2]] /\ ~obj[x].acked
<1>1. PICK i \in Incidents : /\ states[e][i] # 0 /\ ~obj[Id(e, i, states[e][i])].acked
                             /\ x = Id(e, i, states[e][i])
  BY DEF Unanswered
<1>2. states[e][i] \in Gens
  BY <1>1, BoundAssumption DEF TypeOK, Gens
<1> QED
  BY <1>1, <1>2, IdIs

LEMMA InitTypeOK == Init => TypeOK
BY NewStateIs, BoundAssumption DEF Init, TypeOK, LoopState

LEMMA LoopTypeOK ==
    ASSUME TypeOK, NEW e \in Engines, Loop(e) PROVE TypeOK'
<1>1. CASE BeginRound(e)
  BY <1>1, UnansweredIs DEF BeginRound, TypeOK
<1>2. ASSUME NEW x \in todo[e], CheckSkip(e, x) PROVE TypeOK'
  BY <1>2 DEF CheckSkip, TypeOK
<1>3. ASSUME NEW x \in todo[e], CheckEscalate(e, x) PROVE TypeOK'
  <2>1. x \in Objects /\ At("notify", x) \in LoopState
    BY AtIs DEF TypeOK
  <2>2. obj[x] \in State
    BY <2>1 DEF TypeOK
  <2> QED
    BY <1>3, <2>1, <2>2, EscalatedIs DEF CheckEscalate, TypeOK
<1>4. CASE EscalateNotify(e)
  <2> DEFINE x == loop[e].at
  <2>1. x \in Objects /\ At("save", x) \in LoopState
    BY <1>4, AtIs DEF EscalateNotify, TypeOK
  <2>2. obj[x] \in State /\ \A s \in State : s.level \in Levels
    BY <2>1 DEF TypeOK, State
  <2>3. Paged(obj[x], obj[x].level) \in State
    BY <2>2, PagedIs
  <2>4. obj' \in [Objects -> State]
    BY <1>4, <2>1, <2>3 DEF EscalateNotify, TypeOK
  <2>5. /\ loop' = [loop EXCEPT ![e] = At("save", x)]
        /\ UNCHANGED <<states, row, todo, calls, late, restarts, faults>>
    BY <1>4 DEF EscalateNotify
  <2> HIDE DEF x
  <2> QED
    BY <2>1, <2>4, <2>5 DEF TypeOK
<1>5. CASE EscalateSave(e)
  <2> DEFINE x == loop[e].at
  <2>1. x \in Objects /\ IncidentOf(x) \in Incidents /\ obj[x] \in State
    BY <1>5, AtIs, ObjectIs DEF EscalateSave, TypeOK
  <2>2. /\ row' \in [Incidents -> State \cup {NoRow}]
        /\ faults' \in 0 .. MaxFaults
    BY <1>5, <2>1, SaveTypeOK DEF EscalateSave
  <2> QED
    BY <1>5, <2>2, AtIs DEF EscalateSave, TypeOK
<1> QED
  BY <1>1, <1>2, <1>3, <1>4, <1>5 DEF Loop, Check

LEMMA TriggeringTypeOK ==
    ASSUME TypeOK, NEW c \in calls, TriggerNotify(c) \/ TriggerSave(c) PROVE TypeOK'
<1>1. c \in LoopState /\ c # Idle
  BY DEF TypeOK
<1>2. c.at \in Objects /\ IncidentOf(c.at) \in Incidents /\ obj[c.at] \in State
  BY <1>1, AtIs, ObjectIs DEF TypeOK
<1>3. CASE TriggerNotify(c)
  <2>1. Paged(obj[c.at], First) \in State
    BY <1>2, PagedIs, LevelsAreNumbers
  <2>2. At("save", c.at) \in LoopState \ {Idle}
    BY <1>2, AtIs
  <2> QED
    BY <1>2, <1>3, <2>1, <2>2 DEF TriggerNotify, TypeOK
<1>4. CASE TriggerSave(c)
  <2>1. /\ row' \in [Incidents -> State \cup {NoRow}]
        /\ faults' \in 0 .. MaxFaults
    BY <1>2, <1>4, SaveTypeOK DEF TriggerSave
  <2> QED
    BY <1>4, <2>1 DEF TriggerSave, TypeOK
<1> QED
  BY <1>3, <1>4

LEMMA TriggerIncidentIs ==
    ASSUME TypeOK, NEW i \in Incidents, TriggerIncident(i)
    PROVE  \E g \in Gens, x \in Objects :
              /\ g = states["web"][i] + 1 /\ states["web"][i] \in Nat
              /\ x = Id("web", i, g) /\ x[1] = "web" /\ x[2] = i /\ x[3] = g
              /\ obj' = [obj EXCEPT ![x] = NewState]
              /\ late' = [late EXCEPT ![x] = 0]
              /\ states' = [states EXCEPT !["web"][i] = g]
              /\ calls' = calls \cup {At("notify", x)}
              /\ UNCHANGED <<row, todo, loop, restarts, faults>>
<1> DEFINE g == states["web"][i] + 1
           x == Id("web", i, g)
<1>1. g \in Gens /\ states["web"][i] \in Nat
  BY EngineAssumption DEF TriggerIncident, TypeOK
<1>2. x \in Objects /\ x[1] = "web" /\ x[2] = i /\ x[3] = g
  BY <1>1, EngineAssumption, IdIs
<1> QED
  BY <1>1, <1>2 DEF TriggerIncident

LEMMA AcknowledgeIncidentIs ==
    ASSUME TypeOK, NEW i \in Incidents, AcknowledgeIncident(i)
    PROVE  LET x == Id("web", i, states["web"][i])
           IN  /\ states["web"][i] \in Gens /\ x \in Objects /\ obj[x] \in State
               /\ x[1] = "web" /\ x[2] = i /\ x[3] = states["web"][i]
<1>1. states["web"][i] \in Gens
  BY EngineAssumption, BoundAssumption DEF AcknowledgeIncident, TypeOK, Gens
<1> QED
  BY <1>1, EngineAssumption, IdIs DEF TypeOK

LEMMA NextTypeOK == TypeOK /\ [Next]_vars => TypeOK'
<1> SUFFICES ASSUME TypeOK, [Next]_vars PROVE TypeOK'
  OBVIOUS
<1>1. ASSUME NEW e \in Engines, Loop(e) PROVE TypeOK'
  BY <1>1, LoopTypeOK
<1>2. CASE Triggering
  BY <1>2, TriggeringTypeOK DEF Triggering
<1>3. ASSUME NEW i \in Incidents, TriggerIncident(i) PROVE TypeOK'
  <2>1. PICK g \in Gens, x \in Objects :
          /\ obj' = [obj EXCEPT ![x] = NewState]
          /\ late' = [late EXCEPT ![x] = 0]
          /\ states' = [states EXCEPT !["web"][i] = g]
          /\ calls' = calls \cup {At("notify", x)}
          /\ UNCHANGED <<row, todo, loop, restarts, faults>>
    BY <1>3, TriggerIncidentIs
  <2>2. g \in 0 .. MaxGen /\ At("notify", x) \in LoopState \ {Idle}
    BY AtIs, BoundAssumption DEF Gens
  <2> QED
    BY <2>1, <2>2, NewStateIs, EngineAssumption DEF TypeOK
<1>4. ASSUME NEW i \in Incidents, AcknowledgeIncident(i) PROVE TypeOK'
  <2> DEFINE x == Id("web", i, states["web"][i])
             s == [obj[x] EXCEPT !.acked = TRUE]
  <2>1. x \in Objects /\ s \in State
    BY <1>4, AcknowledgeIncidentIs, AckedIs
  <2>2. /\ row' \in [Incidents -> State \cup {NoRow}]
        /\ faults' \in 0 .. MaxFaults
    BY <1>4, <2>1, SaveTypeOK DEF AcknowledgeIncident
  <2> QED
    BY <1>4, <2>1, <2>2 DEF AcknowledgeIncident, TypeOK
<1>5. CASE Restart
  <2>1. obj' \in [Objects -> State]
    BY <1>5, NewStateIs, ObjectIs DEF Restart, Restored, TypeOK
  <2>2. states' \in [Engines -> [Incidents -> 0 .. MaxGen]]
    BY <1>5, BoundAssumption DEF Restart
  <2> QED
    BY <1>5, <2>1, <2>2, BoundAssumption DEF Restart, TypeOK, LoopState
<1>6. CASE Tick
  BY <1>6, OlderIs DEF Tick, TypeOK
<1>7. CASE UNCHANGED vars
  BY <1>7 DEF vars, TypeOK
<1> QED
  BY <1>1, <1>2, <1>3, <1>4, <1>5, <1>6, <1>7 DEF Next

\* The engines' maps, the objects, the loops, the calls and the rows of
\* escalation_states stay well typed, whatever policy, faults and restarts:
\* no loop and no call ever works on an object that does not exist.
THEOREM TypeCorrect == Spec => []TypeOK
BY InitTypeOK, NextTypeOK, PTL DEF Spec

-----------------------------------------------------------------------------
(* The inductive invariant.                                                *)

\* The object is in its engine's memory: e.states has reached its generation.
Made(x) == x[3] <= states[x[1]][x[2]]

\* Who holds an object.
LoopAt(e, x) == loop[e] # Idle /\ loop[e].at = x
CallAt(x) == \E c \in calls : c.at = x

Owned ==
    /\ \A e \in Engines : \A x \in todo[e] : x[1] = e /\ Made(x)
    /\ \A e \in Engines : loop[e] # Idle => loop[e].at[1] = e /\ Made(loop[e].at)
    /\ \A c \in calls : c.at[1] = "web" /\ Made(c.at)
    /\ \A c, d \in calls : c.at = d.at => c = d

\* Only Start gives an incident to an engine that is not the web server's,
\* and then to all of them; what has a row is in memory.
WebKnows ==
    \A i \in Incidents : states["web"][i] = 0 =>
        row[i] = NoRow /\ \A e \in Engines : states[e][i] = 0

\* The page after an acknowledgement came from the copy of a round that has
\* left the object behind.
LatePageIsLast ==
    \A x \in Objects :
        \/ late[x] = 0
        \/ late[x] = 1 /\ obj[x].acked /\ x \notin todo[x[1]]

UpTo(l) == {k \in Levels : k <= l}

\* A level nobody was told of is one that the loop, or the call that made the
\* object, is about to announce.
Announced ==
    \A x \in Objects : Made(x) /\ ~obj[x].acked =>
        \A l \in UpTo(obj[x].level) :
            \/ l \in obj[x].paged
            \/ l = obj[x].level /\ loop[x[1]] = At("notify", x)
            \/ l = First /\ At("notify", x) \in calls

\* A call is over before the loop can escalate its object.
CallsArePrompt ==
    \A c \in calls :
        /\ obj[c.at].level = First /\ obj[c.at].age < Delay[First]
        /\ \A e \in Engines : ~LoopAt(e, c.at)

\* One engine, no failed save: a row lags behind its object only while
\* somebody who will save it holds the object, and is never ahead of it.
RowTrailsMemory ==
    \A i \in Incidents : Alone(i) /\ faults = 0 =>
        /\ ~InFlight(i) => row[i] = obj[Id("web", i, 1)]
        /\ ~Called(i) => row[i] # NoRow
        /\ row[i] # NoRow => (row[i].acked => obj[Id("web", i, 1)].acked)

Base == TypeOK /\ Owned /\ WebKnows

-----------------------------------------------------------------------------
(* What the steps that hold an object know of it.                          *)

LEMMA CheckIs ==
    ASSUME Base, NEW e \in Engines, NEW x \in todo[e]
    PROVE  x \in Objects /\ x[1] = e /\ Made(x) /\ obj[x] \in State
BY DEF Base, TypeOK, Owned

LEMMA LoopIs ==
    ASSUME Base, NEW e \in Engines, loop[e].pc \in {"notify", "save"}
    PROVE  LET x == loop[e].at
           IN  /\ x \in Objects /\ x[1] = e /\ Made(x)
               /\ obj[x] \in State /\ obj[x].level \in Levels
               /\ loop[e] # Idle /\ loop[e] = At(loop[e].pc, x)
               /\ IncidentOf(x) = x[2] /\ x[2] \in Incidents
<1>1. loop[e] \in LoopState /\ loop[e] # Idle
  BY AtIs DEF Base, TypeOK
<1>2. loop[e].at \in Objects /\ obj[loop[e].at] \in State
  BY <1>1, AtIs DEF Base, TypeOK
<1>3. \A s \in State : s.level \in Levels
  BY DEF State
<1> QED
  BY <1>1, <1>2, <1>3, AtIs, ObjectIs DEF Base, Owned, IncidentOf

LEMMA CallIs ==
    ASSUME Base, NEW c \in calls
    PROVE  /\ c.at \in Objects /\ c.at[1] = "web" /\ Made(c.at) /\ obj[c.at] \in State
           /\ c.pc \in {"notify", "save"} /\ c = At(c.pc, c.at)
           /\ IncidentOf(c.at) = c.at[2] /\ c.at[2] \in Incidents
<1>1. c \in LoopState /\ c # Idle
  BY DEF Base, TypeOK
<1> QED
  BY <1>1, AtIs, ObjectIs DEF Base, TypeOK, Owned, IncidentOf

\* What is in memory has the incident in the web server's engine.
LEMMA MadeIs ==
    ASSUME Base, NEW x \in Objects, Made(x)
    PROVE  states[x[1]][x[2]] # 0 /\ states["web"][x[2]] # 0
BY ObjectIs, EngineAssumption DEF Base, TypeOK, Made, WebKnows, Gens

-----------------------------------------------------------------------------
(* Owned and WebKnows are inductive.                                       *)

LEMMA InitBase == Init => Base
<1> SUFFICES ASSUME Init PROVE Base
  OBVIOUS
<1>1. TypeOK
  BY InitTypeOK
<1>2. Owned
  BY DEF Init, Owned
<1>3. WebKnows
  BY EngineAssumption DEF Init, WebKnows
<1> QED
  BY <1>1, <1>2, <1>3 DEF Base

LEMMA NextOwned == ASSUME Base, [Next]_vars PROVE Owned'
<1> USE DEF Owned, Made
<1>0. TypeOK /\ TypeOK'
  BY NextTypeOK DEF Base
<1>1. ASSUME NEW e \in Engines, BeginRound(e) PROVE Owned'
  <2>1. \A x \in Unanswered(e) : x[1] = e /\ Made(x)
    BY <1>0, UnansweredIs, ObjectIs DEF Gens
  <2> QED
    BY <1>0, <1>1, <2>1 DEF BeginRound, Base, TypeOK
<1>2. ASSUME NEW e \in Engines, NEW x \in todo[e], CheckSkip(e, x) PROVE Owned'
  BY <1>0, <1>2 DEF CheckSkip, Base, TypeOK
<1>3. ASSUME NEW e \in Engines, NEW x \in todo[e], CheckEscalate(e, x) PROVE Owned'
  BY <1>0, <1>3, CheckIs, AtIs DEF CheckEscalate, Base, TypeOK
<1>4. ASSUME NEW e \in Engines, EscalateNotify(e) PROVE Owned'
  <2>1. loop[e].at[1] = e /\ Made(loop[e].at)
    BY <1>4, LoopIs DEF EscalateNotify
  <2>2. /\ loop'[e].at = loop[e].at
        /\ \A d \in Engines : d # e => loop'[d] = loop[d]
    BY <1>0, <1>4, AtIs DEF EscalateNotify, TypeOK
  <2> QED
    BY <1>4, <2>1, <2>2 DEF EscalateNotify, Base
<1>5. ASSUME NEW e \in Engines, EscalateSave(e) PROVE Owned'
  BY <1>0, <1>5 DEF EscalateSave, Base, TypeOK
<1>6. ASSUME NEW c \in calls, TriggerNotify(c) PROVE Owned'
  BY <1>0, <1>6, CallIs, AtIs DEF TriggerNotify, Base
<1>7. ASSUME NEW c \in calls, TriggerSave(c) PROVE Owned'
  BY <1>0, <1>7 DEF TriggerSave, Base
<1>8. ASSUME NEW i \in Incidents, TriggerIncident(i) PROVE Owned'
  <2>1. PICK g \in Gens, x \in Objects :
          /\ g = states["web"][i] + 1 /\ states["web"][i] \in Nat
          /\ x[1] = "web" /\ x[2] = i /\ x[3] = g
          /\ states' = [states EXCEPT !["web"][i] = g]
          /\ calls' = calls \cup {At("notify", x)} /\ UNCHANGED <<todo, loop>>
    BY <1>0, <1>8, TriggerIncidentIs
  <2>4. \A y \in Objects : Made(y) => Made(y)' /\ y # x
    BY <1>0, <2>1, ObjectIs, EngineAssumption DEF TypeOK, Gens
  <2>5. Made(x)'
    BY <1>0, <2>1, EngineAssumption DEF TypeOK, Gens
  <2> HIDE DEF Made
  <2>6. \A e \in Engines : \A y \in todo'[e] : y[1] = e /\ Made(y)'
    BY <2>1, <2>4, CheckIs
  <2>7. \A e \in Engines : loop'[e] # Idle => loop'[e].at[1] = e /\ Made(loop[e].at)'
    BY <1>0, <2>1, <2>4, AtIs DEF Base, TypeOK
  <2>8. \A c \in calls' : c.at[1] = "web" /\ Made(c.at)'
    BY <2>1, <2>4, <2>5, CallIs, AtIs
  <2>9. \A c, d \in calls' : c.at = d.at => c = d
    BY <2>1, <2>4, CallIs, AtIs DEF Base
  <2> QED
    BY <2>1, <2>6, <2>7, <2>8, <2>9
<1>9. ASSUME NEW i \in Incidents, AcknowledgeIncident(i) PROVE Owned'
  BY <1>0, <1>9 DEF AcknowledgeIncident, Base
<1>10. CASE Restart
  BY <1>10 DEF Restart
<1>11. CASE Tick
  BY <1>0, <1>11 DEF Tick, Base
<1>12. CASE UNCHANGED vars
  BY <1>0, <1>12 DEF vars, Base
<1> QED
  BY <1>1, <1>2, <1>3, <1>4, <1>5, <1>6, <1>7, <1>8, <1>9, <1>10, <1>11, <1>12
  DEF Next, Loop, Check, Triggering

LEMMA SaveWebKnows ==
    ASSUME Base, NEW x \in Objects, Made(x), NEW s \in State,
           SaveEscalationState(x[2], s), UNCHANGED states
    PROVE  WebKnows'
<1>1. states["web"][x[2]] # 0
  BY MadeIs
<1>2. row' = row \/ row' = [row EXCEPT ![x[2]] = s]
  BY ObjectIs, SaveTypeOK DEF Base
<1> QED
  BY <1>1, <1>2 DEF Base, TypeOK, WebKnows

LEMMA NextWebKnows == ASSUME Base, [Next]_vars PROVE WebKnows'
<1>0. TypeOK /\ TypeOK' /\ WebKnows
  BY NextTypeOK DEF Base
<1>1. CASE UNCHANGED <<states, row>>
  BY <1>0, <1>1 DEF WebKnows
<1>2. ASSUME NEW e \in Engines, EscalateSave(e) PROVE WebKnows'
  BY <1>2, LoopIs, SaveWebKnows DEF EscalateSave
<1>3. ASSUME NEW c \in calls, TriggerSave(c) PROVE WebKnows'
  BY <1>3, CallIs, SaveWebKnows DEF TriggerSave
<1>4. ASSUME NEW i \in Incidents, TriggerIncident(i) PROVE WebKnows'
  <2>1. states["web"][i] + 1 # 0
    BY <1>0, EngineAssumption DEF TypeOK
  <2> QED
    BY <1>0, <1>4, <2>1, EngineAssumption DEF TriggerIncident, TypeOK, WebKnows
<1>5. ASSUME NEW i \in Incidents, AcknowledgeIncident(i) PROVE WebKnows'
  <2> DEFINE x == Id("web", i, states["web"][i])
  <2>1. x \in Objects /\ obj[x] \in State /\ x[2] = i /\ Made(x)
    BY <1>0, <1>5, AcknowledgeIncidentIs DEF Made, Gens
  <2> QED
    BY <1>5, <2>1, AckedIs, SaveWebKnows DEF AcknowledgeIncident
<1>6. CASE Restart
  BY <1>0, <1>6, EngineAssumption DEF Restart, Restored, WebKnows
<1>7. CASE Tick
  BY <1>0, <1>7 DEF Tick, TypeOK, WebKnows
<1> QED
  BY <1>1, <1>2, <1>3, <1>4, <1>5, <1>6, <1>7
  DEF Next, Loop, Check, Triggering, BeginRound, CheckSkip, CheckEscalate,
      EscalateNotify, TriggerNotify, vars

LEMMA NextBase == Base /\ [Next]_vars => Base'
BY NextTypeOK, NextOwned, NextWebKnows DEF Base

LEMMA AlwaysBase == Spec => []Base
BY InitBase, NextBase, PTL DEF Spec

-----------------------------------------------------------------------------
(* At most one page after an acknowledgement.                              *)

LEMMA NextLatePageIsLast ==
    ASSUME Base, LatePageIsLast, [Next]_vars PROVE LatePageIsLast'
<1> USE DEF LatePageIsLast
<1>0. TypeOK
  BY DEF Base
<1>1. ASSUME NEW e \in Engines, BeginRound(e) PROVE LatePageIsLast'
  BY <1>0, <1>1, UnansweredIs DEF BeginRound, TypeOK
<1>2. ASSUME NEW e \in Engines, NEW x \in todo[e], CheckSkip(e, x)
      PROVE  LatePageIsLast'
  BY <1>0, <1>2, ObjectIs DEF CheckSkip, TypeOK
<1>3. ASSUME NEW e \in Engines, NEW x \in todo[e], CheckEscalate(e, x)
      PROVE  LatePageIsLast'
  <2>1. x \in Objects /\ x[1] = e /\ obj[x] \in State /\ late[x] = 0
    BY CheckIs
  <2>2. /\ obj' = [obj EXCEPT ![x] = Escalated(obj[x])]
        /\ late' = [late EXCEPT ![x] = IF obj[x].acked THEN 1 ELSE 0]
        /\ todo' = [todo EXCEPT ![e] = @ \ {x}]
    BY <1>0, <1>3, <2>1 DEF CheckEscalate, TypeOK
  <2>3. Escalated(obj[x]).acked = obj[x].acked
    BY <2>1, EscalatedIs
  <2> QED
    BY <1>0, <2>1, <2>2, <2>3, ObjectIs DEF TypeOK
<1>4. ASSUME NEW e \in Engines, EscalateNotify(e) PROVE LatePageIsLast'
  <2> DEFINE x == loop[e].at
  <2>1. x \in Objects /\ obj[x] \in State /\ obj[x].level \in Levels
    BY <1>4, LoopIs DEF EscalateNotify
  <2>2. Paged(obj[x], obj[x].level).acked = obj[x].acked
    BY <2>1, PagedIs
  <2>3. \A y \in Objects : obj'[y].acked = obj[y].acked
    BY <1>0, <1>4, <2>1, <2>2 DEF EscalateNotify, TypeOK
  <2> QED
    BY <1>4, <2>3 DEF EscalateNotify
<1>5. ASSUME NEW e \in Engines, EscalateSave(e) PROVE LatePageIsLast'
  BY <1>5 DEF EscalateSave
<1>6. ASSUME NEW c \in calls, TriggerNotify(c) PROVE LatePageIsLast'
  <2>1. Paged(obj[c.at], First).acked = obj[c.at].acked
    BY CallIs, PagedIs, LevelsAreNumbers
  <2>2. \A y \in Objects : obj'[y].acked = obj[y].acked
    BY <1>0, <1>6, <2>1, CallIs DEF TriggerNotify, TypeOK
  <2> QED
    BY <1>6, <2>2 DEF TriggerNotify
<1>7. ASSUME NEW c \in calls, TriggerSave(c) PROVE LatePageIsLast'
  BY <1>7 DEF TriggerSave
<1>8. ASSUME NEW i \in Incidents, TriggerIncident(i) PROVE LatePageIsLast'
  <2>1. PICK x \in Objects :
          /\ obj' = [obj EXCEPT ![x] = NewState]
          /\ late' = [late EXCEPT ![x] = 0] /\ UNCHANGED todo
    BY <1>0, <1>8, TriggerIncidentIs
  <2> QED
    BY <1>0, <2>1 DEF TypeOK
<1>9. ASSUME NEW i \in Incidents, AcknowledgeIncident(i) PROVE LatePageIsLast'
  <2> DEFINE x == Id("web", i, states["web"][i])
  <2>1. x \in Objects /\ obj[x] \in State
    BY <1>0, <1>9, AcknowledgeIncidentIs
  <2>2. obj' = [obj EXCEPT ![x] = [obj[x] EXCEPT !.acked = TRUE]] /\ UNCHANGED <<late, todo>>
    BY <1>9 DEF AcknowledgeIncident
  <2>3. [obj[x] EXCEPT !.acked = TRUE].acked
    BY <2>1, AckedIs
  <2> HIDE DEF x
  <2>4. \A y \in Objects : obj[y].acked => obj'[y].acked
    BY <1>0, <2>1, <2>2, <2>3 DEF TypeOK
  <2> QED
    BY <2>2, <2>4
<1>10. CASE Restart
  BY <1>10 DEF Restart
<1>11. CASE Tick
  <2>1. \A y \in Objects : obj'[y].acked = obj[y].acked
    BY <1>0, <1>11, OlderIs DEF Tick, TypeOK
  <2> QED
    BY <1>11, <2>1 DEF Tick
<1>12. CASE UNCHANGED vars
  BY <1>12 DEF vars
<1> QED
  BY <1>1, <1>2, <1>3, <1>4, <1>5, <1>6, <1>7, <1>8, <1>9, <1>10, <1>11, <1>12
  DEF Next, Loop, Check, Triggering

\* An acknowledgement stops the escalation of an object but for the page of
\* one round that copied it before (checkEscalations copies e.states,
\* checkEscalation does not look again): for any policy, any number of
\* engines, triggers and restarts there is never a second such page.
THEOREM OneLatePage == Spec => []AtMostOneLatePage
<1>1. Init => LatePageIsLast
  BY DEF Init, LatePageIsLast
<1>2. Base /\ LatePageIsLast /\ [Next]_vars => LatePageIsLast'
  BY NextLatePageIsLast
<1>3. LatePageIsLast => AtMostOneLatePage
  BY DEF LatePageIsLast, AtMostOneLatePage
<1> QED
  BY <1>1, <1>2, <1>3, AlwaysBase, PTL DEF Spec

-----------------------------------------------------------------------------
(* A row that Start would resume was paged.  It takes a policy that begins *)
(* with its lowest level and waits there, and calls that are over before   *)
(* that wait is: a slower TriggerIncident would save a level that the loop *)
(* has set and not announced.                                              *)

Orderly ==
    /\ ~SlowCalls
    /\ Delay[First] # 0
    /\ \A l \in Levels : First <= l

PagedInv == CallsArePrompt /\ Announced /\ ResumableRowWasPaged

\* A state whose levels up to its own have all been announced.
WellPaged(s) == s.acked \/ UpTo(s.level) \subseteq s.paged

LEMMA SavePaged ==
    ASSUME Base, ResumableRowWasPaged, NEW i \in Incidents, NEW s \in State, WellPaged(s),
           SaveEscalationState(i, s)
    PROVE  ResumableRowWasPaged'
<1>1. row' = row \/ row' = [row EXCEPT ![i] = s]
  BY SaveTypeOK DEF Base
<1> QED
  BY <1>1 DEF Base, TypeOK, ResumableRowWasPaged, WellPaged, UpTo

\* Nobody is about to announce a level of x.
LEMMA QuietIsPaged ==
    ASSUME Base, Announced, NEW x \in Objects, Made(x),
           loop[x[1]] # At("notify", x), At("notify", x) \notin calls
    PROVE  WellPaged(obj[x])
BY DEF Announced, WellPaged

LEMMA LoopPaged ==
    ASSUME Orderly, Base, PagedInv, NEW e \in Engines, Loop(e) PROVE PagedInv'
<1> USE DEF PagedInv
<1>0. TypeOK /\ TypeOK'
  BY NextTypeOK DEF Base, Next
<1>1. CASE BeginRound(e)
  BY <1>1 DEF BeginRound, CallsArePrompt, Announced, ResumableRowWasPaged, Made, LoopAt
<1>2. ASSUME NEW x \in todo[e], CheckSkip(e, x) PROVE PagedInv'
  BY <1>2 DEF CheckSkip, CallsArePrompt, Announced, ResumableRowWasPaged, Made, LoopAt
<1>3. ASSUME NEW x \in todo[e], CheckEscalate(e, x) PROVE PagedInv'
  <2>1. x \in Objects /\ x[1] = e /\ obj[x] \in State /\ Made(x)
    BY CheckIs
  <2>2. /\ loop[e] = Idle /\ Due(obj[x])
        /\ obj' = [obj EXCEPT ![x] = Escalated(obj[x])]
        /\ loop' = [loop EXCEPT ![e] = At("notify", x)]
        /\ UNCHANGED <<states, row, calls>>
    BY <1>3 DEF CheckEscalate, Escalates
  <2>3. \A c \in calls : c.at # x
    BY <2>1, <2>2, PolicyAssumption, LevelsAreNumbers DEF CallsArePrompt, Due, State
  <2>4. CallsArePrompt'
    BY <1>0, <2>1, <2>2, <2>3, AtIs, CallIs DEF CallsArePrompt, LoopAt, TypeOK
  <2>5. WellPaged(obj[x])
    BY <2>1, <2>2, <2>3, AtIs, QuietIsPaged DEF PagedInv
  <2>6. Announced'
    <3> SUFFICES ASSUME NEW y \in Objects, Made(y)', ~obj'[y].acked,
                        NEW l \in UpTo(obj'[y].level)
                 PROVE  \/ l \in obj'[y].paged
                        \/ l = obj'[y].level /\ loop'[y[1]] = At("notify", y)
                        \/ l = First /\ At("notify", y) \in calls'
      BY DEF Announced
    <3>1. Made(y)
      BY <2>2 DEF Made
    <3>2. CASE y = x
      <4>1. /\ obj'[x] = Escalated(obj[x]) /\ ~obj[x].acked /\ obj'[x].paged = obj[x].paged
            /\ loop'[e] = At("notify", x)
        BY <1>0, <2>1, <2>2, <3>2, EscalatedIs DEF TypeOK
      <4>2. l \in Levels /\ l <= obj'[x].level
        BY <3>2 DEF UpTo
      <4>3. l = obj'[x].level \/ l <= obj[x].level
        BY <2>1, <4>1, <4>2, EscalatedIs, LevelsAreNumbers DEF Orderly, State
      <4> QED
        BY <2>1, <2>5, <3>2, <4>1, <4>2, <4>3 DEF WellPaged, UpTo
    <3>3. CASE y # x
      <4>1. obj'[y] = obj[y] /\ (loop[y[1]] = At("notify", y) => loop'[y[1]] = loop[y[1]])
        BY <1>0, <2>1, <2>2, <3>3, AtIs, ObjectIs DEF TypeOK
      <4> QED
        BY <2>2, <3>1, <4>1 DEF Announced
    <3> QED
      BY <3>2, <3>3
  <2> QED
    BY <2>2, <2>4, <2>6 DEF ResumableRowWasPaged
<1>4. CASE EscalateNotify(e)
  <2>1. PICK x \in Objects :
          /\ x = loop[e].at /\ x[1] = e /\ obj[x] \in State /\ obj[x].level \in Levels
          /\ loop[e] = At("notify", x) /\ loop[e] # Idle
    BY <1>4, LoopIs DEF EscalateNotify
  <2>2. /\ obj' = [obj EXCEPT ![x] = Paged(obj[x], obj[x].level)]
        /\ loop' = [loop EXCEPT ![e] = At("save", x)]
        /\ UNCHANGED <<states, row, calls>>
    BY <1>4, <2>1 DEF EscalateNotify
  <2>3. /\ obj'[x].level = obj[x].level /\ obj'[x].acked = obj[x].acked
        /\ obj'[x].paged = obj[x].paged \cup {obj[x].level} /\ obj'[x].age = obj[x].age
        /\ \A y \in Objects : y # x => obj'[y] = obj[y]
    <3>1. obj'[x] = Paged(obj[x], obj[x].level) /\ \A y \in Objects : y # x => obj'[y] = obj[y]
      BY <1>0, <2>1, <2>2 DEF TypeOK
    <3> QED
      BY <2>1, <3>1, PagedIs
  <2>a. \A c \in calls : c.at # x /\ obj'[c.at] = obj[c.at]
    BY <2>1, <2>3, CallIs DEF CallsArePrompt, LoopAt
  <2>4. CallsArePrompt'
    BY <1>0, <2>1, <2>2, <2>a, AtIs DEF CallsArePrompt, LoopAt, TypeOK
  <2>5. \A y \in Objects : y # x =>
           (loop[y[1]] = At("notify", y) => loop'[y[1]] = loop[y[1]])
    BY <1>0, <2>1, <2>2, AtIs, ObjectIs DEF TypeOK
  <2>6. Announced'
    <3> SUFFICES ASSUME NEW y \in Objects, Made(y)', ~obj'[y].acked,
                        NEW l \in UpTo(obj'[y].level)
                 PROVE  \/ l \in obj'[y].paged
                        \/ l = obj'[y].level /\ loop'[y[1]] = At("notify", y)
                        \/ l = First /\ At("notify", y) \in calls'
      BY DEF Announced
    <3>1. Made(y)
      BY <2>2 DEF Made
    <3>2. CASE y = x
      <4>1. Made(x) /\ ~obj[x].acked /\ l \in UpTo(obj[x].level)
        BY <2>3, <3>1, <3>2
      <4>2. l \in obj[x].paged \/ l = obj[x].level
              \/ (l = First /\ At("notify", x) \in calls)
        BY <4>1 DEF Announced
      <4> QED
        BY <2>2, <2>3, <3>2, <4>2
    <3>3. CASE y # x
      BY <2>2, <2>3, <2>5, <3>1, <3>3 DEF Announced
    <3> QED
      BY <3>2, <3>3
  <2> QED
    BY <2>2, <2>4, <2>6 DEF ResumableRowWasPaged
<1>5. CASE EscalateSave(e)
  <2>1. PICK x \in Objects :
          /\ x = loop[e].at /\ x[1] = e /\ obj[x] \in State /\ Made(x) /\ loop[e] # Idle
          /\ loop[e] = At("save", x) /\ IncidentOf(x) = x[2] /\ x[2] \in Incidents
    BY <1>5, LoopIs DEF EscalateSave
  <2>2. loop[e] # At("notify", x) /\ At("notify", x) \notin calls
    <3>1. \A c \in calls : c.at # x
      BY <2>1 DEF CallsArePrompt, LoopAt
    <3> QED
      BY <2>1, <3>1, AtIs
  <2>3. ResumableRowWasPaged'
    BY <1>5, <2>1, <2>2, QuietIsPaged, SavePaged DEF EscalateSave
  <2>4. CallsArePrompt'
    BY <1>0, <1>5 DEF EscalateSave, CallsArePrompt, LoopAt, TypeOK
  <2>5. Announced'
    <3>1. \A y \in Objects : loop[y[1]] = At("notify", y) => loop'[y[1]] = loop[y[1]]
      <4>1. \A y \in Objects : At("save", x) # At("notify", y)
        BY AtIs
      <4> QED
        BY <1>0, <1>5, <2>1, <4>1, ObjectIs DEF EscalateSave, TypeOK
    <3> QED
      BY <1>5, <3>1 DEF EscalateSave, Announced, Made
  <2> QED
    BY <2>3, <2>4, <2>5
<1> QED
  BY <1>1, <1>2, <1>3, <1>4, <1>5 DEF Loop, Check

LEMMA CallPaged ==
    ASSUME Orderly, Base, PagedInv, NEW c \in calls, TriggerNotify(c) \/ TriggerSave(c)
    PROVE  PagedInv'
<1> USE DEF PagedInv
<1>0. TypeOK
  BY DEF Base
<1>1. PICK x \in Objects :
        /\ x = c.at /\ x[1] = "web" /\ obj[x] \in State /\ Made(x)
        /\ c = At(c.pc, x) /\ IncidentOf(x) = x[2] /\ x[2] \in Incidents
  BY CallIs
<1>2. CASE TriggerNotify(c)
  <2>1. /\ obj' = [obj EXCEPT ![x] = Paged(obj[x], First)]
        /\ calls' = (calls \ {At("notify", x)}) \cup {At("save", x)}
        /\ UNCHANGED <<states, row, loop>>
    BY <1>1, <1>2 DEF TriggerNotify
  <2>2. /\ obj'[x].level = obj[x].level /\ obj'[x].acked = obj[x].acked
        /\ obj'[x].paged = obj[x].paged \cup {First} /\ obj'[x].age = obj[x].age
        /\ \A y \in Objects : y # x => obj'[y] = obj[y]
    <3>1. obj'[x] = Paged(obj[x], First) /\ \A y \in Objects : y # x => obj'[y] = obj[y]
      BY <1>0, <1>1, <2>1 DEF TypeOK
    <3> QED
      BY <1>1, <3>1, PagedIs, LevelsAreNumbers
  <2>3. CallsArePrompt'
    <3>1. \A d \in calls' : d.at = x \/ d \in calls
      BY <2>1, AtIs
    <3>2. \A d \in calls' : \E b \in calls : b.at = d.at
      BY <1>1, <3>1
    <3>3. \A b \in calls : obj'[b.at].level = obj[b.at].level /\ obj'[b.at].age = obj[b.at].age
      BY <2>2, CallIs
    <3> QED
      BY <2>1, <3>2, <3>3 DEF CallsArePrompt, LoopAt
  <2>4. Announced'
    <3> SUFFICES ASSUME NEW y \in Objects, Made(y)', ~obj'[y].acked,
                        NEW l \in UpTo(obj'[y].level)
                 PROVE  \/ l \in obj'[y].paged
                        \/ l = obj'[y].level /\ loop'[y[1]] = At("notify", y)
                        \/ l = First /\ At("notify", y) \in calls'
      BY DEF Announced
    <3>1. Made(y) /\ ~obj[y].acked /\ l \in UpTo(obj[y].level) /\ obj'[y].level = obj[y].level
      BY <2>1, <2>2 DEF Made
    <3>2. \/ l \in obj[y].paged
          \/ l = obj[y].level /\ loop[y[1]] = At("notify", y)
          \/ l = First /\ At("notify", y) \in calls
      BY <3>1 DEF Announced
    <3>3. y # x => At("notify", y) # At("notify", x)
      BY AtIs
    <3> QED
      BY <2>1, <2>2, <3>1, <3>2, <3>3
  <2> QED
    BY <2>1, <2>3, <2>4 DEF ResumableRowWasPaged
<1>3. CASE TriggerSave(c)
  <2>1. c = At("save", x) /\ calls' = calls \ {c} /\ UNCHANGED <<states, obj, loop>>
    BY <1>1, <1>3 DEF TriggerSave
  <2>2. loop["web"] # At("notify", x)
    BY <1>0, <1>1, AtIs, EngineAssumption DEF CallsArePrompt, LoopAt
  <2>3. At("notify", x) \notin calls
    <3>1. At("notify", x) # c /\ At("notify", x).at = c.at
      BY <1>1, <2>1, AtIs
    <3> QED
      BY <3>1 DEF Base, Owned
  <2>4. ResumableRowWasPaged'
    BY <1>1, <1>3, <2>2, <2>3, QuietIsPaged, SavePaged DEF TriggerSave
  <2>5. Announced'
    <3>1. \A y \in Objects : At("notify", y) # c
      BY <2>1, AtIs
    <3> QED
      BY <2>1, <3>1 DEF Announced, Made
  <2> QED
    BY <2>1, <2>4, <2>5 DEF CallsArePrompt, LoopAt
<1> QED
  BY <1>2, <1>3

LEMMA TriggerIncidentPaged ==
    ASSUME Orderly, Base, PagedInv, NEW i \in Incidents, TriggerIncident(i)
    PROVE  PagedInv'
<1> USE DEF PagedInv
<1>0. TypeOK
  BY DEF Base
<1>1. PICK g \in Gens, x \in Objects :
        /\ g = states["web"][i] + 1 /\ states["web"][i] \in Nat
        /\ x[1] = "web" /\ x[2] = i /\ x[3] = g
        /\ obj' = [obj EXCEPT ![x] = NewState]
        /\ states' = [states EXCEPT !["web"][i] = g]
        /\ calls' = calls \cup {At("notify", x)}
        /\ UNCHANGED <<row, loop>>
  BY <1>0, TriggerIncidentIs
<1>2. \A y \in Objects : Made(y) => y # x
  BY <1>1 DEF Made, Gens
<1>3. \A y \in Objects : Made(y)' => Made(y) \/ y = x
  BY <1>0, <1>1, ObjectIs, EngineAssumption DEF Made, TypeOK, Gens, Objects
<1>4. obj'[x] = NewState /\ \A y \in Objects : y # x => obj'[y] = obj[y]
  BY <1>0, <1>1 DEF TypeOK
<1>5. CallsArePrompt'
  <2>1. \A e \in Engines : loop[e] # Idle => loop[e].at # x
    BY <1>0, <1>2, AtIs DEF TypeOK, Base, Owned
  <2>2. \A d \in calls' : d.at = x \/ (d \in calls /\ d.at # x /\ obj'[d.at] = obj[d.at])
    BY <1>1, <1>2, <1>4, AtIs, CallIs
  <2>3. 0 < Delay[First]
    BY PolicyAssumption, LevelsAreNumbers DEF Orderly
  <2> QED
    BY <1>1, <1>4, <2>1, <2>2, <2>3, NewStateIs DEF CallsArePrompt, LoopAt
<1>6. Announced'
  <2> SUFFICES ASSUME NEW y \in Objects, Made(y)', ~obj'[y].acked,
                      NEW l \in UpTo(obj'[y].level)
               PROVE  \/ l \in obj'[y].paged
                      \/ l = obj'[y].level /\ loop'[y[1]] = At("notify", y)
                      \/ l = First /\ At("notify", y) \in calls'
    BY DEF Announced
  <2>1. CASE y = x
    BY <1>1, <1>4, <2>1, NewStateIs, LevelsAreNumbers DEF UpTo, Orderly
  <2>2. CASE y # x
    <3>1. Made(y) /\ obj'[y] = obj[y]
      BY <1>3, <1>4, <2>2
    <3> QED
      BY <1>1, <3>1 DEF Announced
  <2> QED
    BY <2>1, <2>2
<1> QED
  BY <1>1, <1>5, <1>6 DEF ResumableRowWasPaged

LEMMA NextPaged ==
    ASSUME Orderly, Base, PagedInv, [Next]_vars PROVE PagedInv'
<1> USE DEF PagedInv
<1>0. TypeOK
  BY DEF Base
<1>1. ASSUME NEW e \in Engines, Loop(e) PROVE PagedInv'
  BY <1>1, LoopPaged
<1>2. CASE Triggering
  BY <1>2, CallPaged DEF Triggering
<1>3. ASSUME NEW i \in Incidents, TriggerIncident(i) PROVE PagedInv'
  BY <1>3, TriggerIncidentPaged
<1>4. ASSUME NEW i \in Incidents, AcknowledgeIncident(i) PROVE PagedInv'
  <2>1. PICK x \in Objects, s \in State :
          /\ obj' = [obj EXCEPT ![x] = s] /\ SaveEscalationState(i, s)
          /\ s = [obj[x] EXCEPT !.acked = TRUE] /\ obj[x] \in State
          /\ UNCHANGED <<states, loop, calls>>
    BY <1>0, <1>4, AcknowledgeIncidentIs, AckedIs DEF AcknowledgeIncident
  <2>2. s.acked /\ s.level = obj[x].level /\ s.age = obj[x].age
    BY <2>1 DEF State
  <2>3. obj'[x] = s /\ \A y \in Objects : y # x => obj'[y] = obj[y]
    BY <1>0, <2>1 DEF TypeOK
  <2>4. ResumableRowWasPaged'
    BY <2>1, <2>2, SavePaged DEF WellPaged
  <2>5. \A y \in Objects : obj'[y].level = obj[y].level /\ obj'[y].age = obj[y].age
    BY <2>2, <2>3
  <2>6. CallsArePrompt'
    BY <2>1, <2>5, CallIs DEF CallsArePrompt, LoopAt
  <2>7. Announced'
    BY <2>1, <2>2, <2>3 DEF Announced, Made
  <2> QED
    BY <2>4, <2>6, <2>7
<1>5. CASE Restart
  <2>1. /\ loop' = [e \in Engines |-> Idle] /\ calls' = {} /\ UNCHANGED row
        /\ states' = [e \in Engines |->
                        [i \in Incidents |-> IF Restored(i) THEN 1 ELSE 0]]
        /\ obj' = [x \in Objects |-> IF x[3] = 1 /\ Restored(x[2]) THEN row[x[2]]
                                                                   ELSE NewState]
    BY <1>5 DEF Restart
  <2>2. \A x \in Objects : Made(x)' => row[x[2]] # NoRow /\ obj'[x] = row[x[2]]
    BY <2>1, ObjectIs DEF Made, Restored, Gens
  <2>3. Announced'
    BY <2>2, ObjectIs DEF Announced, ResumableRowWasPaged, UpTo
  <2> QED
    BY <2>1, <2>3 DEF CallsArePrompt, ResumableRowWasPaged
<1>6. CASE Tick
  <2>1. /\ obj' = [x \in Objects |-> Older(obj[x])]
        /\ row' = [i \in Incidents |-> IF row[i] = NoRow THEN NoRow ELSE Older(row[i])]
        /\ \A c \in calls : obj[c.at].age + 1 < Delay[First]
        /\ UNCHANGED <<states, loop, calls>>
    BY <1>6 DEF Tick, Prompt, Orderly
  <2>2. \A x \in Objects :
           /\ obj'[x].level = obj[x].level /\ obj'[x].acked = obj[x].acked
           /\ obj'[x].paged = obj[x].paged
           /\ obj'[x].age <= obj[x].age + 1 /\ obj'[x].age \in Nat /\ obj[x].age \in Nat
    <3>1. \A s \in State : s.age \in Nat
      BY PolicyAssumption DEF State
    <3> QED
      BY <1>0, <2>1, <3>1, OlderIs DEF TypeOK
  <2>3. CallsArePrompt'
    <3>1. Delay[First] \in Nat
      BY PolicyAssumption, LevelsAreNumbers
    <3> QED
      BY <2>1, <2>2, <3>1, CallIs DEF CallsArePrompt, LoopAt
  <2>4. Announced'
    BY <2>1, <2>2 DEF Announced, Made
  <2>5. ResumableRowWasPaged'
    BY <1>0, <2>1, OlderIs, NoRowIsNoState DEF ResumableRowWasPaged, TypeOK
  <2> QED
    BY <2>3, <2>4, <2>5
<1>7. CASE UNCHANGED vars
  BY <1>7 DEF vars, CallsArePrompt, Announced, ResumableRowWasPaged, Made, LoopAt
<1> QED
  BY <1>1, <1>2, <1>3, <1>4, <1>5, <1>6, <1>7 DEF Next

\* escalateTo and TriggerIncident notify before they save, and Start resumes
\* what was saved: whatever crashes, no open row ever names a level that was
\* not paged, provided that the calls are over before the first level's delay
\* and the policy begins with its lowest level.
THEOREM RecoverySkipsNoLevel ==
    ASSUME Orderly PROVE Spec => []ResumableRowWasPaged
<1>1. Init => PagedInv
  <2> SUFFICES ASSUME Init PROVE PagedInv
    OBVIOUS
  <2>1. \A x \in Objects : ~Made(x)
    BY ObjectIs DEF Init, Made, Gens
  <2> QED
    BY <2>1 DEF Init, PagedInv, CallsArePrompt, Announced, ResumableRowWasPaged
<1>2. Base /\ PagedInv /\ [Next]_vars => PagedInv'
  BY NextPaged
<1>3. PagedInv => ResumableRowWasPaged
  BY DEF PagedInv
<1> QED
  BY <1>1, <1>2, <1>3, AlwaysBase, PTL DEF Spec

-----------------------------------------------------------------------------
(* Rows and memory.                                                        *)

Trails(i) ==
    LET x == Id("web", i, 1)
    IN  /\ ~InFlight(i) => row[i] = obj[x]
        /\ ~Called(i) => row[i] # NoRow
        /\ row[i] # NoRow => (row[i].acked => obj[x].acked)

LEMMA RowTrailsIs ==
    RowTrailsMemory <=> \A i \in Incidents : Alone(i) /\ faults = 0 => Trails(i)
BY DEF RowTrailsMemory, Trails

\* What is held of an incident that one engine has is its one object.
LEMMA AloneIs ==
    ASSUME Base, NEW i \in Incidents, Alone(i)
    PROVE  /\ Id("web", i, 1) \in Objects
           /\ \A x \in Objects : Made(x) /\ x[2] = i => x = Id("web", i, 1)
<1>1. 1 \in Gens
  BY BoundAssumption DEF Gens
<1>2. ASSUME NEW x \in Objects, Made(x), x[2] = i PROVE x = Id("web", i, 1)
  <2>1. x[1] = "web" /\ x[3] = 1
    BY <1>2, ObjectIs DEF Alone, Made, Gens
  <2> QED
    BY <1>2, <2>1, ObjectIs
<1> QED
  BY <1>1, <1>2, IdIs, EngineAssumption

\* A step that leaves the row, the object and their holders alone.
LEMMA TrailsUnchanged ==
    ASSUME NEW i \in Incidents, Trails(i),
           row'[i] = row[i], obj'[Id("web", i, 1)] = obj[Id("web", i, 1)],
           InFlight(i) => InFlight(i)', Called(i) => Called(i)'
    PROVE  Trails(i)'
BY DEF Trails, Id

\* A step of a holder that saves the object.
LEMMA TrailsSaved ==
    ASSUME Base, NEW i \in Incidents, obj[Id("web", i, 1)] \in State,
           row'[i] = obj[Id("web", i, 1)], UNCHANGED obj
    PROVE  Trails(i)'
BY NoRowIsNoState DEF Trails, Id

LEMMA LoopTrails ==
    ASSUME Base, RowTrailsMemory, NEW e \in Engines, Loop(e),
           NEW i \in Incidents, Alone(i)', faults' = 0
    PROVE  Trails(i)'
<1>0. TypeOK
  BY DEF Base
<1>a. UNCHANGED <<states, calls>> /\ Alone(i)
  BY DEF Loop, Check, BeginRound, CheckSkip, CheckEscalate, EscalateNotify, EscalateSave, Alone
<1>b. Called(i) => Called(i)'
  BY <1>a DEF Called
<1> DEFINE m == Id("web", i, 1)
<1>c. m \in Objects /\ \A x \in Objects : Made(x) /\ x[2] = i => x = m
  BY <1>a, AloneIs
<1>d. m[1] = "web" /\ m[2] = i /\ IncidentOf(m) = i /\ m' = m
  BY <1>c DEF Id, IncidentOf
<1> HIDE DEF m
<1>e. faults = 0 => Trails(i)
  BY <1>a, RowTrailsIs
<1>1. CASE BeginRound(e) \/ \E x \in todo[e] : CheckSkip(e, x)
  <2>1. faults = 0 /\ UNCHANGED <<row, obj, loop>>
    BY <1>1 DEF BeginRound, CheckSkip
  <2> QED
    BY <1>a, <1>b, <1>e, <2>1, TrailsUnchanged DEF InFlight
<1>2. ASSUME NEW x \in todo[e], CheckEscalate(e, x) PROVE Trails(i)'
  <2>1. x \in Objects /\ x[1] = e /\ Made(x) /\ obj[x] \in State
    BY CheckIs
  <2>2. /\ faults = 0 /\ UNCHANGED row /\ loop[e] = Idle
        /\ obj' = [obj EXCEPT ![x] = Escalated(obj[x])]
        /\ loop' = [loop EXCEPT ![e] = At("notify", x)]
    BY <1>2 DEF CheckEscalate
  <2>3. CASE x = m
    <3>1. e = "web" /\ InFlight(i)'
      BY <1>0, <1>d, <2>1, <2>2, <2>3, AtIs DEF InFlight, TypeOK
    <3>2. obj'[m].acked = obj[m].acked
      BY <1>0, <2>1, <2>2, <2>3, EscalatedIs DEF TypeOK
    <3> QED
      BY <1>b, <1>e, <2>2, <3>1, <3>2 DEF Trails, m
  <2>4. CASE x # m
    <3>1. obj'[m] = obj[m]
      BY <1>0, <1>c, <2>2, <2>4 DEF TypeOK
    <3>2. InFlight(i) => InFlight(i)'
      BY <1>0, <1>b, <2>2 DEF InFlight, TypeOK
    <3> QED
      BY <1>b, <1>e, <2>2, <3>1, <3>2, TrailsUnchanged DEF m
  <2> QED
    BY <2>3, <2>4
<1>3. CASE EscalateNotify(e)
  <2>1. PICK x \in Objects :
          /\ x = loop[e].at /\ x[1] = e /\ obj[x] \in State /\ obj[x].level \in Levels
          /\ loop[e] # Idle
    BY <1>3, LoopIs DEF EscalateNotify
  <2>2. /\ faults = 0 /\ UNCHANGED row
        /\ obj' = [obj EXCEPT ![x] = Paged(obj[x], obj[x].level)]
        /\ loop' = [loop EXCEPT ![e] = At("save", x)]
    BY <1>3, <2>1 DEF EscalateNotify
  <2>3. InFlight(i) => InFlight(i)'
    BY <1>0, <1>b, <2>1, <2>2, AtIs DEF InFlight, TypeOK
  <2>4. CASE x = m
    <3>1. InFlight(i)'
      BY <1>d, <2>1, <2>3, <2>4 DEF InFlight
    <3>2. obj'[m].acked = obj[m].acked
      BY <1>0, <2>1, <2>2, <2>4, PagedIs DEF TypeOK
    <3> QED
      BY <1>b, <1>e, <2>2, <3>1, <3>2 DEF Trails, m
  <2>5. CASE x # m
    <3>1. obj'[m] = obj[m]
      BY <1>0, <1>c, <2>2, <2>5 DEF TypeOK
    <3> QED
      BY <1>b, <1>e, <2>2, <2>3, <3>1, TrailsUnchanged DEF m
  <2> QED
    BY <2>4, <2>5
<1>4. CASE EscalateSave(e)
  <2>1. PICK x \in Objects :
          /\ x = loop[e].at /\ x[1] = e /\ obj[x] \in State /\ Made(x) /\ loop[e] # Idle
          /\ IncidentOf(x) = x[2] /\ x[2] \in Incidents
    BY <1>4, LoopIs DEF EscalateSave
  <2>2. /\ faults = 0 /\ row' = [row EXCEPT ![x[2]] = obj[x]]
        /\ loop' = [loop EXCEPT ![e] = Idle] /\ UNCHANGED obj
    BY <1>0, <1>4, <2>1, SaveTypeOK DEF EscalateSave
  <2>3. CASE x[2] = i
    <3>1. x = m /\ row'[i] = obj[m]
      BY <1>0, <1>c, <2>1, <2>2, <2>3 DEF TypeOK
    <3> QED
      BY <2>1, <2>2, <3>1, TrailsSaved DEF m
  <2>4. CASE x[2] # i
    <3>1. row'[i] = row[i]
      BY <1>0, <2>1, <2>2, <2>4 DEF TypeOK
    <3>2. InFlight(i) => InFlight(i)'
      BY <1>0, <1>b, <2>1, <2>2, <2>4 DEF InFlight, TypeOK
    <3> QED
      BY <1>b, <1>e, <2>2, <3>1, <3>2, TrailsUnchanged
  <2> QED
    BY <2>3, <2>4
<1> QED
  BY <1>1, <1>2, <1>3, <1>4 DEF Loop, Check

LEMMA CallTrails ==
    ASSUME Base, RowTrailsMemory, NEW c \in calls, TriggerNotify(c) \/ TriggerSave(c),
           NEW i \in Incidents, Alone(i)', faults' = 0
    PROVE  Trails(i)'
<1>0. TypeOK
  BY DEF Base
<1>a. UNCHANGED <<states, loop>> /\ Alone(i)
  BY DEF TriggerNotify, TriggerSave, Alone
<1> DEFINE m == Id("web", i, 1)
<1>b. m \in Objects /\ \A x \in Objects : Made(x) /\ x[2] = i => x = m
  BY <1>a, AloneIs
<1> HIDE DEF m
<1>c. faults = 0 => Trails(i)
  BY <1>a, RowTrailsIs
<1>1. PICK x \in Objects :
        /\ x = c.at /\ obj[x] \in State /\ Made(x) /\ IncidentOf(x) = x[2] /\ x[2] \in Incidents
  BY CallIs
<1>2. CASE TriggerNotify(c)
  <2>1. /\ faults = 0 /\ UNCHANGED row
        /\ obj' = [obj EXCEPT ![x] = Paged(obj[x], First)]
        /\ calls' = (calls \ {c}) \cup {At("save", x)}
    BY <1>1, <1>2 DEF TriggerNotify
  <2>2. At("save", x).at = x
    BY AtIs
  <2>3. Called(i) => Called(i)'
    BY <1>1, <2>1, <2>2 DEF Called
  <2>4. InFlight(i) => InFlight(i)'
    BY <1>a, <2>3 DEF InFlight
  <2>5. CASE x[2] = i
    <3>1. x = m /\ Called(i)'
      BY <1>1, <1>b, <2>1, <2>2, <2>5 DEF Called
    <3>2. obj'[m].acked = obj[m].acked
      BY <1>0, <1>1, <2>1, <3>1, PagedIs, LevelsAreNumbers DEF TypeOK
    <3> QED
      BY <1>c, <2>1, <3>1, <3>2 DEF Trails, InFlight, m
  <2>6. CASE x[2] # i
    <3>1. x # m
      BY <1>b, <2>6 DEF m, Id
    <3>2. obj'[m] = obj[m]
      BY <1>0, <1>b, <2>1, <3>1 DEF TypeOK
    <3> QED
      BY <1>c, <2>1, <2>3, <2>4, <3>2, TrailsUnchanged DEF m
  <2> QED
    BY <2>5, <2>6
<1>3. CASE TriggerSave(c)
  <2>1. /\ faults = 0 /\ row' = [row EXCEPT ![x[2]] = obj[x]]
        /\ calls' = calls \ {c} /\ UNCHANGED obj
    BY <1>0, <1>1, <1>3, SaveTypeOK DEF TriggerSave
  <2>2. CASE x[2] = i
    <3>1. x = m /\ row'[i] = obj[m]
      BY <1>0, <1>1, <1>b, <2>1, <2>2 DEF TypeOK
    <3> QED
      BY <1>1, <2>1, <3>1, TrailsSaved DEF m
  <2>3. CASE x[2] # i
    <3>1. row'[i] = row[i]
      BY <1>0, <1>1, <2>1, <2>3 DEF TypeOK
    <3>2. Called(i) => Called(i)'
      BY <1>1, <2>1, <2>3 DEF Called
    <3>3. InFlight(i) => InFlight(i)'
      BY <1>a, <3>2 DEF InFlight
    <3> QED
      BY <1>c, <2>1, <3>1, <3>2, <3>3, TrailsUnchanged
  <2> QED
    BY <2>2, <2>3
<1> QED
  BY <1>2, <1>3

LEMMA TriggerIncidentTrails ==
    ASSUME Base, RowTrailsMemory, NEW j \in Incidents, TriggerIncident(j),
           NEW i \in Incidents, Alone(i)', faults' = 0
    PROVE  Trails(i)'
<1>0. TypeOK /\ WebKnows
  BY DEF Base
<1>1. PICK g \in Gens, x \in Objects :
        /\ g = states["web"][j] + 1 /\ states["web"][j] \in Nat
        /\ x[1] = "web" /\ x[2] = j /\ x[3] = g
        /\ obj' = [obj EXCEPT ![x] = NewState]
        /\ states' = [states EXCEPT !["web"][j] = g]
        /\ calls' = calls \cup {At("notify", x)}
        /\ UNCHANGED <<row, loop, faults>>
  BY <1>0, TriggerIncidentIs
<1>2. CASE i = j
  <2>1. states["web"][i] = 0 /\ row[i] = NoRow
    <3>1. states'["web"][i] = g /\ states'["web"][i] = 1
      BY <1>0, <1>1, <1>2, EngineAssumption DEF Alone, TypeOK
    <3>2. states["web"][i] = 0
      BY <1>1, <1>2, <3>1
    <3> QED
      BY <1>0, <3>2 DEF WebKnows
  <2>2. Called(i)'
    BY <1>1, <1>2, AtIs DEF Called, IncidentOf
  <2> QED
    BY <1>1, <2>1, <2>2 DEF Trails, InFlight
<1>3. CASE i # j
  <2>1. Alone(i)
    BY <1>0, <1>1, <1>3, EngineAssumption DEF Alone, TypeOK
  <2>2. Id("web", i, 1) \in Objects /\ Id("web", i, 1) # x
    BY <1>1, <1>3, <2>1, AloneIs DEF Id
  <2>3. obj'[Id("web", i, 1)] = obj[Id("web", i, 1)]
    BY <1>0, <1>1, <2>2 DEF TypeOK
  <2>4. (Called(i) => Called(i)') /\ (InFlight(i) => InFlight(i)')
    BY <1>1 DEF Called, InFlight
  <2> QED
    BY <1>1, <2>1, <2>3, <2>4, RowTrailsIs, TrailsUnchanged
<1> QED
  BY <1>2, <1>3

LEMMA AcknowledgeIncidentTrails ==
    ASSUME Base, RowTrailsMemory, NEW j \in Incidents, AcknowledgeIncident(j),
           NEW i \in Incidents, Alone(i)', faults' = 0
    PROVE  Trails(i)'
<1>0. TypeOK
  BY DEF Base
<1>1. PICK x \in Objects, s \in State :
        /\ x = Id("web", j, states["web"][j]) /\ s.acked
        /\ obj' = [obj EXCEPT ![x] = s] /\ SaveEscalationState(j, s)
        /\ UNCHANGED <<states, loop, calls>>
  BY <1>0, AcknowledgeIncidentIs, AckedIs DEF AcknowledgeIncident
<1>2. faults = 0 /\ row' = [row EXCEPT ![j] = s]
  BY <1>0, <1>1, SaveTypeOK
<1>3. Alone(i)
  BY <1>1 DEF Alone
<1>4. CASE i = j
  <2>1. x = Id("web", i, 1)
    BY <1>1, <1>3, <1>4 DEF Alone
  <2>2. row'[i] = s /\ obj'[Id("web", i, 1)] = s
    BY <1>0, <1>1, <1>2, <1>4, <2>1 DEF TypeOK
  <2> QED
    BY <1>1, <2>2, NoRowIsNoState DEF Trails
<1>5. CASE i # j
  <2>1. Id("web", i, 1) \in Objects /\ Id("web", i, 1) # x
    BY <1>1, <1>3, <1>5, AloneIs DEF Id
  <2>2. row'[i] = row[i] /\ obj'[Id("web", i, 1)] = obj[Id("web", i, 1)]
    BY <1>0, <1>1, <1>2, <1>5, <2>1 DEF TypeOK
  <2>3. (Called(i) => Called(i)') /\ (InFlight(i) => InFlight(i)')
    BY <1>1 DEF Called, InFlight
  <2> QED
    BY <1>2, <1>3, <2>2, <2>3, RowTrailsIs, TrailsUnchanged
<1> QED
  BY <1>4, <1>5

LEMMA NextTrails ==
    ASSUME Base, RowTrailsMemory, [Next]_vars PROVE RowTrailsMemory'
<1> SUFFICES ASSUME NEW i \in Incidents, Alone(i)', faults' = 0 PROVE Trails(i)'
  BY DEF RowTrailsMemory, Trails
<1>0. TypeOK
  BY DEF Base
<1>1. ASSUME NEW e \in Engines, Loop(e) PROVE Trails(i)'
  BY <1>1, LoopTrails
<1>2. CASE Triggering
  BY <1>2, CallTrails DEF Triggering
<1>3. ASSUME NEW j \in Incidents, TriggerIncident(j) \/ AcknowledgeIncident(j)
      PROVE  Trails(i)'
  BY <1>3, TriggerIncidentTrails, AcknowledgeIncidentTrails
<1>4. CASE Restart
  <2>1. Restored(i) /\ row'[i] = row[i]
    BY <1>4, EngineAssumption DEF Restart, Alone
  <2>2. Id("web", i, 1) \in Objects
    BY EngineAssumption, BoundAssumption, IdIs DEF Gens
  <2>3. obj'[Id("web", i, 1)] = row[i]
    BY <1>4, <2>1, <2>2 DEF Restart, Id
  <2> QED
    BY <2>1, <2>3 DEF Trails, Restored
<1>5. CASE Tick
  <2>1. Alone(i) /\ faults = 0 /\ UNCHANGED <<loop, calls>>
    BY <1>5 DEF Tick, Alone
  <2>2. Trails(i)
    BY <2>1, RowTrailsIs
  <2>3. Id("web", i, 1) \in Objects /\ obj[Id("web", i, 1)] \in State
    BY <1>0, <2>1, AloneIs DEF TypeOK
  <2>4. /\ obj'[Id("web", i, 1)] = Older(obj[Id("web", i, 1)])
        /\ row'[i] = IF row[i] = NoRow THEN NoRow ELSE Older(row[i])
    BY <1>5, <2>3 DEF Tick
  <2>5. \A s \in State : Older(s) # NoRow /\ Older(s).acked = s.acked
    BY OlderIs, NoRowIsNoState
  <2>6. row[i] = NoRow \/ row[i] \in State
    BY <1>0 DEF TypeOK
  <2>7. (Called(i)' <=> Called(i)) /\ (InFlight(i)' <=> InFlight(i))
    BY <2>1 DEF Called, InFlight
  <2> QED
    BY <2>2, <2>3, <2>4, <2>5, <2>6, <2>7, NoRowIsNoState DEF Trails
<1>6. CASE UNCHANGED vars
  BY <1>6, RowTrailsIs, TrailsUnchanged DEF vars, Alone, Called, InFlight
<1> QED
  BY <1>1, <1>2, <1>3, <1>4, <1>5, <1>6 DEF Next

LEMMA AlwaysTrails == Spec => []RowTrailsMemory
<1>1. Init => RowTrailsMemory
  BY EngineAssumption DEF Init, RowTrailsMemory, Alone
<1>2. Base /\ RowTrailsMemory /\ [Next]_vars => RowTrailsMemory'
  BY NextTrails
<1> QED
  BY <1>1, <1>2, AlwaysBase, PTL DEF Spec

\* Where one engine has an incident and no save has failed, what a crash would
\* bring back is what is in memory as soon as the calls and the escalation of
\* it are over, in whatever order they saved the shared state.
THEOREM RowIsMemory == Spec => []RowFollowsMemory
<1>1. RowTrailsMemory => RowFollowsMemory
  BY DEF RowTrailsMemory, RowFollowsMemory
<1> QED
  BY <1>1, AlwaysTrails, PTL

LEMMA AckKept ==
    ASSUME Base, RowTrailsMemory, [Next]_vars,
           NEW i \in Incidents, Alone(i), ~Called(i), faults = 0, row[i].acked
    PROVE  row'[i].acked
<1>0. TypeOK
  BY DEF Base
<1>1. row[i] # NoRow /\ row[i] \in State /\ obj[Id("web", i, 1)].acked
  BY <1>0, RowTrailsIs DEF Trails, TypeOK
<1>2. ASSUME NEW j \in Incidents, NEW s \in State, SaveEscalationState(j, s),
             j = i => s.acked
      PROVE  row'[i].acked
  BY <1>0, <1>1, <1>2, SaveTypeOK DEF TypeOK
<1>3. ASSUME NEW e \in Engines, EscalateSave(e) PROVE row'[i].acked
  BY <1>1, <1>2, <1>3, LoopIs, AloneIs DEF EscalateSave
<1>4. ASSUME NEW c \in calls, TriggerSave(c) PROVE row'[i].acked
  <2>1. IncidentOf(c.at) # i
    BY DEF Called
  <2> QED
    BY <1>2, <1>4, <2>1, CallIs DEF TriggerSave
<1>5. ASSUME NEW j \in Incidents, AcknowledgeIncident(j) PROVE row'[i].acked
  BY <1>0, <1>2, <1>5, AcknowledgeIncidentIs, AckedIs DEF AcknowledgeIncident
<1>6. CASE Tick
  BY <1>1, <1>6, OlderIs DEF Tick
<1>7. CASE UNCHANGED row
  BY <1>7
<1> QED
  BY <1>3, <1>4, <1>5, <1>6, <1>7
  DEF Next, Loop, Check, Triggering, BeginRound, CheckSkip, CheckEscalate,
      EscalateNotify, TriggerNotify, TriggerIncident, Restart, vars

\* The loop saves the object it escalates without a lock, and the object is
\* shared: where one engine has an incident, no call of it is under way and no
\* save has failed, no step takes back an acknowledgement that was saved.
THEOREM AckIsKept == Spec => AckSurvivesLoop
<1>1. Base /\ RowTrailsMemory /\ [Next]_vars =>
        [\A i \in Incidents :
            Alone(i) /\ ~Called(i) /\ faults = 0 /\ row[i].acked => row'[i].acked]_vars
  BY AckKept
<1> QED
  BY <1>1, AlwaysBase, AlwaysTrails, PTL DEF Spec, AckSurvivesLoop
=============================================================================
