----------------------------- MODULE Escalation -----------------------------
(***************************************************************************)
(* The on-call escalation engine, internal/oncall/escalation.go, with the  *)
(* rows of escalation_states (internal/oncall/schedule.go).                *)
(*                                                                         *)
(* The process runs TWO started engines over one store: web/server.go:5196 *)
(* creates the one the HTTP API uses ("web"), cmd/dogwatch/main.go:1135    *)
(* the one of the alert router ("alert").  main.go gives the second the    *)
(* empty policy, which TriggerIncident refuses, so its states are those    *)
(* Start restores.  A state object is shared by pointer: e.states may move *)
(* on to a new object while the loop or a trigger still holds the old one, *)
(* so an object is named by engine, incident and generation.               *)
(*                                                                         *)
(* There is one policy; its targets are users, whom notifyUser always      *)
(* records in Notifications.  ResolveIncident and DeleteEscalationState    *)
(* have no caller in the program and are left out, so Resolved is FALSE.   *)
(* Times are ages, capped at AgeCap.                                       *)
(***************************************************************************)
EXTENDS Integers, Sequences

CONSTANTS
    Incidents,
    Engines,       \* {"web", "alert"}
    Rules,         \* the policy's levels, in the order of policy.Rules
    Delay,         \* DelayMinutes, by level
    RepeatEnabled,
    RepeatLimit,   \* 0: no limit
    AgeCap,
    SlowCalls,     \* may TriggerIncident outlast the first level's delay?
    MaxGen,        \* bounds: objects of an incident between two restarts,
    MaxRepeats,    \*         repeats when RepeatLimit is 0,
    MaxRestarts,   \*         restarts,
    MaxFaults      \*         saves that fail

Levels == {Rules[k] : k \in DOMAIN Rules}
First == Rules[1]

ASSUME PolicyAssumption ==
    /\ Rules \in Seq(Nat \ {0}) /\ Rules # <<>>
    /\ Delay \in [Levels -> Nat]
    /\ RepeatEnabled \in BOOLEAN /\ RepeatLimit \in Nat
    /\ AgeCap \in Nat /\ \A l \in Levels : Delay[l] <= AgeCap

ASSUME EngineAssumption == "web" \in Engines

ASSUME BoundAssumption ==
    /\ SlowCalls \in BOOLEAN
    /\ MaxGen \in Nat \ {0} /\ MaxRepeats \in Nat
    /\ MaxRestarts \in Nat /\ MaxFaults \in Nat

VARIABLES
    states,    \* e.states: the generation of the object an incident maps to
    obj,       \* the objects' fields
    row,       \* the incident's row in escalation_states
    todo,      \* the objects an engine's round has still to check
    loop,      \* where an engine's round is, and in which object
    calls,     \* the TriggerIncident calls in progress
    late,      \* ghost: escalations begun after the object was acknowledged
    restarts, faults

vars == <<states, obj, row, todo, loop, calls, late, restarts, faults>>

\* Generation 1 is what Start restored, if it restored something.
Gens == 1 .. MaxGen
Objects == Engines \X Incidents \X Gens
Id(e, i, g) == <<e, i, g>>
IncidentOf(x) == x[2]

State == [level : Levels, repeat : Nat, age : 0 .. AgeCap,
          acked : BOOLEAN, paged : SUBSET Levels]
NewState == [level |-> First, repeat |-> 0, age |-> 0,
             acked |-> FALSE, paged |-> {}]
NoRow == [level |-> 0]

Idle == [pc |-> "check"]
At(pc, x) == [pc |-> pc, at |-> x]

Init ==
    /\ states = [e \in Engines |-> [i \in Incidents |-> 0]]
    /\ obj = [x \in Objects |-> NewState]
    /\ row = [i \in Incidents |-> NoRow]
    /\ todo = [e \in Engines |-> {}]
    /\ loop = [e \in Engines |-> Idle]
    /\ calls = {}
    /\ late = [x \in Objects |-> 0]
    /\ restarts = 0
    /\ faults = 0

-----------------------------------------------------------------------------
(* SaveEscalationState.  The upsert takes every field of the object, but   *)
(* for policy_id and started_at.  All callers log an error and go on.      *)

SaveEscalationState(i, s) ==
    \/ row' = [row EXCEPT ![i] = s] /\ faults' = faults
    \/ faults < MaxFaults /\ faults' = faults + 1 /\ row' = row

-----------------------------------------------------------------------------
(* The loop.                                                               *)

\* Mutant: acknowledged states are copied too.
MutUnanswered(e) ==
    {Id(e, i, states[e][i]) : i \in {j \in Incidents : states[e][j] # 0}}

Unanswered(e) ==
    {Id(e, i, states[e][i]) : i \in
        {j \in Incidents : states[e][j] # 0 /\ ~obj[Id(e, j, states[e][j])].acked}}

\* The ticker fires: copy the open states under RLock.
BeginRound(e) ==
    /\ loop[e] = Idle /\ todo[e] = {}
    /\ todo' = [todo EXCEPT ![e] = Unanswered(e)]
    /\ UNCHANGED <<states, obj, row, loop, calls, late, restarts, faults>>

Due(s) == s.level \in Levels /\ s.age >= Delay[s.level]

MayRepeat(s) ==
    RepeatEnabled /\ (RepeatLimit = 0 \/ s.repeat < RepeatLimit)

\* Mutant: no test that the next level exists.
MutEscalatedBeyond(s) == [s EXCEPT !.level = s.level + 1, !.age = 0]

\* Mutant: always the first rule.
MutEscalatedFirst(s) == [s EXCEPT !.level = First, !.age = 0]

\* What checkEscalation and escalateTo assign before anybody is notified.
Escalated(s) ==
    IF s.level + 1 \in Levels
    THEN [s EXCEPT !.level = s.level + 1, !.age = 0]
    ELSE [s EXCEPT !.level = First, !.repeat = s.repeat + 1, !.age = 0]

Escalates(s) ==
    /\ Due(s)
    /\ s.level + 1 \in Levels \/ MayRepeat(s)

\* checkEscalation takes no lock and does not look at Acknowledged again.
CheckSkip(e, x) ==
    /\ loop[e] = Idle /\ x \in todo[e]
    /\ ~Escalates(obj[x])
    /\ todo' = [todo EXCEPT ![e] = @ \ {x}]
    /\ UNCHANGED <<states, obj, row, loop, calls, late, restarts, faults>>

\* Mutant: the state is saved before anybody is notified.
MutCheckEscalate(e, x) ==
    /\ loop[e] = Idle /\ x \in todo[e]
    /\ Escalates(obj[x])
    /\ obj' = [obj EXCEPT ![x] = Escalated(@)]
    /\ SaveEscalationState(IncidentOf(x), obj'[x])
    /\ todo' = [todo EXCEPT ![e] = @ \ {x}]
    /\ loop' = [loop EXCEPT ![e] = At("notify", x)]
    /\ UNCHANGED <<states, calls, late, restarts>>

CheckEscalate(e, x) ==
    /\ loop[e] = Idle /\ x \in todo[e]
    /\ Escalates(obj[x])
    /\ RepeatLimit = 0 => obj[x].repeat < MaxRepeats
    /\ obj' = [obj EXCEPT ![x] = Escalated(@)]
    /\ late' = [late EXCEPT ![x] = IF obj[x].acked THEN @ + 1 ELSE @]
    /\ todo' = [todo EXCEPT ![e] = @ \ {x}]
    /\ loop' = [loop EXCEPT ![e] = At("notify", x)]
    /\ UNCHANGED <<states, row, calls, restarts, faults>>

Paged(s, l) == [s EXCEPT !.paged = @ \cup {l}]

EscalateNotify(e) ==
    /\ loop[e].pc = "notify"
    /\ obj' = [obj EXCEPT ![loop[e].at] = Paged(@, @.level)]
    /\ loop' = [loop EXCEPT ![e] = At("save", loop[e].at)]
    /\ UNCHANGED <<states, row, todo, calls, late, restarts, faults>>

\* Mutant: the round works on copies and writes its copy back.
MutEscalateSave(e) ==
    /\ loop[e].pc = "save"
    /\ obj' = [obj EXCEPT ![loop[e].at].acked = FALSE]
    /\ SaveEscalationState(IncidentOf(loop[e].at), obj'[loop[e].at])
    /\ loop' = [loop EXCEPT ![e] = Idle]
    /\ UNCHANGED <<states, todo, calls, late, restarts>>

EscalateSave(e) ==
    /\ loop[e].pc = "save"
    /\ SaveEscalationState(IncidentOf(loop[e].at), obj[loop[e].at])
    /\ loop' = [loop EXCEPT ![e] = Idle]
    /\ UNCHANGED <<states, obj, todo, calls, late, restarts>>

-----------------------------------------------------------------------------
(* The API's calls, on the engine of the web server.                       *)

TriggerIncident(i) ==
    LET g == states["web"][i] + 1
        x == Id("web", i, g)
    IN  /\ g \in Gens
        /\ obj' = [obj EXCEPT ![x] = NewState]
        /\ late' = [late EXCEPT ![x] = 0]
        /\ states' = [states EXCEPT !["web"][i] = g]
        /\ calls' = calls \cup {At("notify", x)}
        /\ UNCHANGED <<row, todo, loop, restarts, faults>>

TriggerNotify(c) ==
    /\ c.pc = "notify"
    /\ obj' = [obj EXCEPT ![c.at] = Paged(@, First)]
    /\ calls' = (calls \ {c}) \cup {At("save", c.at)}
    /\ UNCHANGED <<states, row, todo, loop, late, restarts, faults>>

TriggerSave(c) ==
    /\ c.pc = "save"
    /\ SaveEscalationState(IncidentOf(c.at), obj[c.at])
    /\ calls' = calls \ {c}
    /\ UNCHANGED <<states, obj, todo, loop, late, restarts>>

\* Mutant: an acknowledgement stays in memory.
MutAcknowledgeIncident(i) ==
    LET x == Id("web", i, states["web"][i])
    IN  /\ states["web"][i] # 0
        /\ ~obj[x].acked
        /\ obj' = [obj EXCEPT ![x].acked = TRUE]
        /\ UNCHANGED <<states, row, todo, loop, calls, late, restarts, faults>>

\* Runs under e.mu, the save included; the loop takes e.mu only to copy
\* the states and to append a notification.
AcknowledgeIncident(i) ==
    LET x == Id("web", i, states["web"][i])
        s == [obj[x] EXCEPT !.acked = TRUE]
    IN  /\ states["web"][i] # 0
        /\ ~obj[x].acked
        /\ obj' = [obj EXCEPT ![x] = s]
        /\ SaveEscalationState(i, s)
        /\ UNCHANGED <<states, todo, loop, calls, late, restarts>>

-----------------------------------------------------------------------------
(* Restarts and time.                                                      *)

\* LoadActiveEscalationStates, acknowledged ones included.
Restored(i) == row[i] # NoRow

\* The process dies, whatever it is doing, and both engines start again.
Restart ==
    /\ restarts < MaxRestarts
    /\ restarts' = restarts + 1
    /\ states' = [e \in Engines |->
                    [i \in Incidents |-> IF Restored(i) THEN 1 ELSE 0]]
    /\ obj' = [x \in Objects |-> IF x[3] = 1 /\ Restored(x[2]) THEN row[x[2]]
                                                               ELSE NewState]
    /\ late' = [x \in Objects |-> 0]
    /\ todo' = [e \in Engines |-> {}]
    /\ loop' = [e \in Engines |-> Idle]
    /\ calls' = {}
    /\ UNCHANGED <<row, faults>>

Older(s) == [s EXCEPT !.age = IF @ < AgeCap THEN @ + 1 ELSE @]
\* The callers' time: the sends of notifyLevel are done before the level's
\* delay is over, unless SlowCalls.
Prompt == SlowCalls \/ \A c \in calls : obj[c.at].age + 1 < Delay[First]

Tick ==
    /\ Prompt
    /\ obj' = [x \in Objects |-> Older(obj[x])]
    /\ row' = [i \in Incidents |-> IF row[i] = NoRow THEN NoRow ELSE Older(row[i])]
    /\ UNCHANGED <<states, todo, loop, calls, late, restarts, faults>>

-----------------------------------------------------------------------------
Check(e) == \E x \in todo[e] : CheckSkip(e, x) \/ CheckEscalate(e, x)

Loop(e) == BeginRound(e) \/ Check(e) \/ EscalateNotify(e) \/ EscalateSave(e)

Triggering == \E c \in calls : TriggerNotify(c) \/ TriggerSave(c)

Next ==
    \/ \E e \in Engines : Loop(e)
    \/ Triggering
    \/ \E i \in Incidents :
          TriggerIncident(i) \/ AcknowledgeIncident(i)
    \/ Restart
    \/ Tick

Spec == Init /\ [][Next]_vars

\* The ticker keeps firing, a round and a request run to their end, time
\* passes; nobody has to trigger or answer an incident.
Fairness ==
    /\ \A e \in Engines : WF_vars(Check(e) \/ EscalateNotify(e) \/ EscalateSave(e))
    /\ \A e \in Engines : WF_vars(BeginRound(e))
    /\ WF_vars(Triggering)
    /\ WF_vars(Tick)

FairSpec == Spec /\ Fairness

-----------------------------------------------------------------------------
(* Properties.                                                             *)

LoopState == {Idle} \cup {At(pc, x) : pc \in {"notify", "save"}, x \in Objects}

\* The variables hold what the code's types allow.
TypeOK ==
    /\ states \in [Engines -> [Incidents -> 0 .. MaxGen]]
    /\ obj \in [Objects -> State]
    /\ row \in [Incidents -> State \cup {NoRow}]
    /\ todo \in [Engines -> SUBSET Objects]
    /\ loop \in [Engines -> LoopState]
    /\ calls \subseteq LoopState \ {Idle}
    /\ late \in [Objects -> Nat]
    /\ restarts \in 0 .. MaxRestarts
    /\ faults \in 0 .. MaxFaults

\* An acknowledgement stops an object's escalation: a round
\* that copied it before may still page one more level, never two
\* (escalation.go:129 takes the copy, :196 escalates without another look).
AtMostOneLatePage == \A x \in Objects : late[x] <= 1

\* Recovery never skips a level: an open row that Start would resume shows a
\* page for its level and for every level below it (escalateTo and
\* TriggerIncident notify before they save, and AcknowledgeIncident may save
\* the same object in between).
ResumableRowWasPaged ==
    \A i \in Incidents :
        row[i] # NoRow /\ ~row[i].acked =>
            {l \in Levels : l <= row[i].level} \subseteq row[i].paged

\* One engine has the incident, in the first object it made for it.
Alone(i) == states["web"][i] = 1 /\ \A e \in Engines \ {"web"} : states[e][i] = 0

Called(i) == \E c \in calls : IncidentOf(c.at) = i

InFlight(i) ==
    \/ Called(i)
    \/ loop["web"] # Idle /\ IncidentOf(loop["web"].at) = i

\* Where one engine has an incident, what a crash would restore is what is
\* in memory whenever no call and no escalation of it is under way.
RowFollowsMemory ==
    \A i \in Incidents :
        Alone(i) /\ ~InFlight(i) /\ faults = 0 =>
            row[i] = obj[Id("web", i, 1)]

\* The loop saves the object it escalates without a lock: it must not undo
\* an acknowledgement that was saved while it paged.
AckSurvivesLoop ==
    [][\A i \in Incidents :
          Alone(i) /\ ~Called(i) /\ faults = 0 /\ row[i].acked
            => row'[i].acked]_vars

LastLevel == CHOOSE l \in Levels : \A k \in Levels : k <= l

\* An incident nobody answers reaches the last level of its policy, through
\* restarts, failing saves and repeated triggers, unless a crash comes
\* before its first save.
UnansweredReachesLastLevel ==
    \A i \in Incidents :
        (states["web"][i] # 0) ~>
            \/ states["web"][i] = 0
            \/ LET s == obj[Id("web", i, states["web"][i])]
               IN  s.acked \/ LastLevel \in s.paged
=============================================================================
