---------------------------- MODULE WatchPaging ----------------------------
(***************************************************************************)
(* Watches and the incidents they open: the watch engine                   *)
(* (internal/watch/engine.go), its rows (watch.go), the pager and the      *)
(* incident store it calls (internal/incidents), and the HTTP handlers     *)
(* that edit watches (internal/web/server.go).  What is done with an       *)
(* incident later (acknowledged, resolved) is not read by the engine.      *)
(*                                                                         *)
(* evaluateAll runs in the engine's ticker goroutine and in a goroutine of *)
(* its own for every ForceCheck.  It copies the rows, changes the copies   *)
(* and saves them whole; only pendingStart and activeIncidents are shared. *)
(* The pager has no default policy (SetDefaultPolicy has no caller), so it *)
(* creates the incident and never escalates it.                            *)
(***************************************************************************)
EXTENDS Integers, FiniteSets

CONSTANTS
    Watches,
    Passes,        \* goroutines in evaluateAll: "tick", and ForceCheck's
    Durations,     \* the durations a watch may be given, in ticks
    BodyStates,    \* the states a client may send in a watch's body
    AgeCap,        \* ages are counted up to here
    Env,           \* what happens beside: "nodata", "edit", "fault", "restart"
    MaxEdits,      \* bounds: POST, PUT and DELETE requests,
    MaxTroubles    \*         CreateIncident errors and restarts together

ASSUME WatchAssumption ==
    /\ Durations \subseteq Nat /\ Durations # {}
    /\ AgeCap \in Nat /\ \A d \in Durations : d <= AgeCap
    /\ Env \subseteq {"nodata", "edit", "fault", "restart"}
    /\ "tick" \in Passes /\ IsFiniteSet(Passes)
    /\ MaxEdits \in Nat /\ MaxTroubles \in Nat

ASSUME BodyAssumption ==
    BodyStates \subseteq {"ok", "pending", "alerting", "nodata", ""}

VARIABLES
    row,           \* the watches' rows
    pendingStart,  \* e.pendingStart, as an age; -1: no entry
    active,        \* e.activeIncidents
    metric,        \* what the metrics provider would answer
    todo,          \* the copies a pass has still to evaluate
    pass,          \* the evaluation a pass is in
    incidents,     \* the watches that have an incident in the store
    opened,        \* ghost: incidents opened since the watch was seen to be OK
    failed,        \* ghost: watches whose last incident was not created
    claimed,       \* ghost: watches that a client, not a pass, made alerting
                   \* when neither of these had happened to them
    edits, faults, restarts

shared == <<pendingStart, active>>
counters == <<edits, faults, restarts>>
vars == <<row, shared, metric, todo, pass, incidents, opened, failed, claimed, counters>>

Calm == faults + restarts < MaxTroubles

\* "" is the state that a PUT without one has saved, and stands for any other
\* word a client may send.
States == {"ok", "pending", "alerting", "nodata", ""}
Watch == [st : States, dur : Durations, on : BOOLEAN]
NoWatch == [st |-> "none"]
Copy == [id : Watches, w : Watch]
Idle == [pc |-> "idle"]
Spawned == [pc |-> "spawned"]
Evaluation ==
    [pc : {"measured"}, id : Watches, w : Watch, value : {"low", "high", "none"}]
      \cup [pc : {"transition"}, id : Watches, w : Watch, new : States]
      \cup [pc : {"notify", "trigger", "track", "clear", "save"}, id : Watches, w : Watch]

Init ==
    /\ row \in [Watches -> [st : {"nodata"}, dur : Durations, on : {TRUE}]]
    /\ pendingStart = [w \in Watches |-> -1]
    /\ active = {}
    /\ metric = [w \in Watches |-> "low"]
    /\ todo = [p \in Passes |-> {}]
    /\ pass = [p \in Passes |-> Idle]
    /\ incidents = {}
    /\ opened = [w \in Watches |-> 0]
    /\ failed = {} /\ claimed = {}
    /\ edits = 0 /\ faults = 0 /\ restarts = 0

-----------------------------------------------------------------------------
(* evaluateAll.                                                            *)

\* Mutant: a row that was deleted is listed too.
MutListed == {[id |-> w, w |-> row[w]] : w \in Watches}

\* ListWatches; disabled and muted ones are skipped.
Listed == {c \in Copy : row[c.id] = c.w /\ c.w.on}

BeginPass(p) ==
    /\ pass[p] = (IF p = "tick" THEN Idle ELSE Spawned) /\ todo[p] = {}
    /\ todo' = [todo EXCEPT ![p] = Listed]
    /\ pass' = [pass EXCEPT ![p] = Idle]
    /\ UNCHANGED <<row, shared, metric, incidents, opened, failed, claimed, counters>>

\* evaluate reads the metric ...
Measure(p, c) ==
    /\ pass[p] = Idle /\ c \in todo[p]
    /\ todo' = [todo EXCEPT ![p] = @ \ {c}]
    /\ pass' = [pass EXCEPT ![p] = [pc |-> "measured", id |-> c.id, w |-> c.w,
                                    value |-> metric[c.id]]]
    /\ UNCHANGED <<row, shared, metric, incidents, opened, failed, claimed, counters>>

Started(start) == IF start = -1 THEN 0 ELSE start

NewState(value, start, dur) ==
    CASE value = "none" -> "nodata"
      [] value = "high" -> IF Started(start) >= dur THEN "alerting" ELSE "pending"
      [] value = "low"  -> "ok"

\* Mutant: the start of the breach is not stored.
MutNewStart(value, start) == IF value = "low" THEN -1 ELSE start

NewStart(value, start) ==
    CASE value = "low"  -> -1
      [] value = "high" -> Started(start)
      [] value = "none" -> start

\* ... and, under e.mu, runs handleBreach or clearPending ...
Evaluate(p) ==
    LET q == pass[p]
        start == pendingStart[q.id]
        st == NewState(q.value, start, q.w.dur)
    IN  /\ q.pc = "measured"
        /\ pendingStart' = [pendingStart EXCEPT ![q.id] = NewStart(q.value, start)]
        /\ pass' = [pass EXCEPT ![p] =
                       IF st = q.w.st THEN [pc |-> "save", id |-> q.id, w |-> q.w]
                       ELSE [pc |-> "transition", id |-> q.id, w |-> q.w, new |-> st]]
        /\ opened' = [opened EXCEPT ![q.id] = IF st = "ok" THEN 0 ELSE @]
        /\ UNCHANGED <<row, active, metric, todo, incidents, failed, claimed, counters>>

\* The channels are told of these two changes only.
Significant(old, new) ==
    \/ new = "alerting" /\ old # "alerting"
    \/ new = "ok" /\ old = "alerting"

\* ... and, under e.mu again, transition.
Transition(p) ==
    LET q == pass[p]
    IN  /\ q.pc = "transition"
        /\ pendingStart' = [pendingStart EXCEPT ![q.id] =
                              IF q.new \in {"ok", "alerting"} THEN -1 ELSE @]
        /\ pass' = [pass EXCEPT ![p] =
                       [pc |-> IF Significant(q.w.st, q.new) THEN "notify" ELSE "save",
                        id |-> q.id, w |-> [q.w EXCEPT !.st = q.new]]]
        /\ UNCHANGED <<row, active, metric, todo, incidents, opened, failed, claimed, counters>>

\* Mutant: hasActiveIncident is tested the wrong way round.
MutNotify(p) ==
    /\ pass[p].pc = "notify"
    /\ pass' = [pass EXCEPT ![p].pc =
                   IF pass[p].w.st = "alerting" /\ pass[p].id \in active THEN "trigger" ELSE "save"]
    /\ UNCHANGED <<row, shared, metric, todo, incidents, opened, failed, claimed, counters>>

\* The channels have been told; notify looks at activeIncidents.
Notify(p) ==
    /\ pass[p].pc = "notify"
    /\ LET alerting == pass[p].w.st = "alerting"
           tracked == pass[p].id \in active
       IN  pass' = [pass EXCEPT ![p].pc = CASE alerting /\ ~tracked -> "trigger"
                                             [] ~alerting /\ tracked -> "clear"
                                             [] OTHER -> "save"]
    /\ UNCHANGED <<row, shared, metric, todo, incidents, opened, failed, claimed, counters>>

\* TriggerFromWatch: CreateIncident, then the pager's notifications.
TriggerIncident(p) ==
    /\ pass[p].pc = "trigger"
    /\ LET id == pass[p].id
       IN  /\ incidents' = incidents \cup {id}
           /\ opened' = [opened EXCEPT ![id] = @ + 1]
           /\ failed' = failed \ {id}
    /\ pass' = [pass EXCEPT ![p].pc = "track"]
    /\ UNCHANGED <<row, shared, metric, todo, claimed, counters>>

\* The error is logged; the state is saved all the same.
TriggerFails(p) ==
    /\ "fault" \in Env /\ Calm
    /\ pass[p].pc = "trigger"
    /\ failed' = failed \cup {pass[p].id}
    /\ faults' = faults + 1
    /\ pass' = [pass EXCEPT ![p].pc = "save"]
    /\ UNCHANGED <<row, shared, metric, todo, incidents, opened, claimed, edits, restarts>>

\* Mutant: the new incident is not tracked.
MutTrack(p) ==
    /\ pass[p].pc \in {"track", "clear"}
    /\ active' = active \ {pass[p].id}
    /\ pass' = [pass EXCEPT ![p].pc = "save"]
    /\ UNCHANGED <<row, pendingStart, metric, todo, incidents, opened, failed, claimed, counters>>

Track(p) ==
    /\ pass[p].pc \in {"track", "clear"}
    /\ active' = IF pass[p].pc = "track" THEN active \cup {pass[p].id}
                                         ELSE active \ {pass[p].id}
    /\ pass' = [pass EXCEPT ![p].pc = "save"]
    /\ UNCHANGED <<row, pendingStart, metric, todo, incidents, opened, failed, claimed, counters>>

\* Mutant: a recovery is not saved.
MutSaveWatch(p) ==
    /\ pass[p].pc = "save"
    /\ row' = IF pass[p].w.st = "ok" THEN row ELSE [row EXCEPT ![pass[p].id] = pass[p].w]
    /\ pass' = [pass EXCEPT ![p] = Idle]
    /\ UNCHANGED <<shared, metric, todo, incidents, opened, failed, claimed, counters>>

\* SaveWatch is an upsert of every column.
SaveWatch(p) ==
    /\ pass[p].pc = "save"
    /\ row' = [row EXCEPT ![pass[p].id] = pass[p].w]
    /\ pass' = [pass EXCEPT ![p] = Idle]
    /\ UNCHANGED <<shared, metric, todo, incidents, opened, failed, claimed, counters>>

-----------------------------------------------------------------------------
(* The handlers.                                                           *)

Editing ==
    /\ "edit" \in Env /\ edits < MaxEdits
    /\ edits' = edits + 1
    /\ UNCHANGED <<shared, metric, todo, incidents, opened, failed, faults, restarts>>

\* PUT and POST save the body and ForceCheck.  The body may carry any state;
\* without one it is "" for PUT and NoData for POST.
SaveBody(w) ==
    /\ Editing
    /\ \E d \in Durations, b \in BOOLEAN, st \in BodyStates :
          /\ row' = [row EXCEPT ![w] = [st |-> st, dur |-> d, on |-> b]]
          /\ claimed' = IF /\ st = "alerting" /\ row[w].st # "alerting"
                           /\ w \notin incidents \cup failed
                        THEN claimed \cup {w} ELSE claimed
    /\ \E p \in Passes \ {"tick"} :
          /\ pass[p] = Idle /\ todo[p] = {}
          /\ pass' = [pass EXCEPT ![p] = Spawned]

DeleteWatch(w) ==
    /\ Editing
    /\ row[w] # NoWatch
    /\ row' = [row EXCEPT ![w] = NoWatch]
    /\ UNCHANGED <<pass, claimed>>

-----------------------------------------------------------------------------
(* The world.                                                              *)

Values == {"low", "high"} \cup (IF "nodata" \in Env THEN {"none"} ELSE {})

MetricChanges(w) ==
    /\ \E v \in Values \ {metric[w]} : metric' = [metric EXCEPT ![w] = v]
    /\ UNCHANGED <<row, shared, todo, pass, incidents, opened, failed, claimed, counters>>

Older(a) == IF a \in 0 .. (AgeCap - 1) THEN a + 1 ELSE a

Tick ==
    /\ pendingStart' = [w \in Watches |-> Older(pendingStart[w])]
    /\ UNCHANGED <<row, active, metric, todo, pass, incidents, opened, failed, claimed, counters>>

\* The maps are lost; watches and incidents are in their stores.
Restart ==
    /\ "restart" \in Env /\ Calm
    /\ restarts' = restarts + 1
    /\ pendingStart' = [w \in Watches |-> -1]
    /\ active' = {}
    /\ todo' = [p \in Passes |-> {}]
    /\ pass' = [p \in Passes |-> Idle]
    /\ UNCHANGED <<row, metric, incidents, opened, failed, claimed, edits, faults>>

-----------------------------------------------------------------------------
Work(p) ==
    \/ \E c \in todo[p] : Measure(p, c)
    \/ Evaluate(p) \/ Transition(p)
    \/ Notify(p) \/ TriggerIncident(p) \/ TriggerFails(p) \/ Track(p) \/ SaveWatch(p)

Next ==
    \/ \E p \in Passes : BeginPass(p) \/ Work(p)
    \/ \E w \in Watches : SaveBody(w) \/ DeleteWatch(w) \/ MetricChanges(w)
    \/ Tick
    \/ Restart

Spec == Init /\ [][Next]_vars

\* The ticker keeps firing and a pass that has begun runs to its end.
Fairness ==
    /\ \A p \in Passes : WF_vars(Work(p)) /\ WF_vars(BeginPass(p))
    /\ WF_vars(Tick)

FairSpec == Spec /\ Fairness

-----------------------------------------------------------------------------
(* Properties.                                                             *)

\* The variables hold what the code's types allow.
TypeOK ==
    /\ row \in [Watches -> Watch \cup {NoWatch}]
    /\ pendingStart \in [Watches -> -1 .. AgeCap]
    /\ active \subseteq Watches /\ incidents \subseteq Watches /\ failed \subseteq Watches
    /\ claimed \subseteq Watches
    /\ metric \in [Watches -> {"low", "high", "none"}]
    /\ todo \in [Passes -> SUBSET Copy]
    /\ pass \in [Passes -> Evaluation \cup {Idle, Spawned}]
    /\ opened \in [Watches -> Nat]
    /\ edits \in 0 .. MaxEdits /\ faults \in 0 .. MaxTroubles /\ restarts \in 0 .. MaxTroubles

\* notify opens the incident before evaluate saves the row: whoever reads an
\* alerting watch finds an incident of it in the incident store, whatever is
\* edited, forced or restarted, unless CreateIncident has failed or it was a
\* client that wrote ALERTING over another state.  A client that sends back
\* the ALERTING it has read is no exception.
AlertingHasIncident ==
    \A w \in Watches :
       row[w] # NoWatch /\ row[w].st = "alerting"
          => w \in incidents \cup failed \cup claimed

\* engine.go:38, "Track which watches have active incidents to avoid
\* duplicates": between two passes that find the watch fine, a watch gets one
\* incident, and at most one more for each ForceCheck that races the ticker
\* and for each restart, which forgets what is tracked.
FewDuplicates ==
    \A w \in Watches : opened[w] <= 1 + edits + restarts

\* handleBreach and its pendingStart entries: a breach that lasts is alerting
\* again and again (with a duration it goes back to pending in between), also
\* when stale passes, edits, gaps in the data and restarts come before it.
BreachAlerts ==
    \A w \in Watches :
       <>[](row[w] # NoWatch /\ row[w].on /\ metric[w] = "high")
         => []<>(row[w] # NoWatch /\ row[w].st = "alerting")

\* A watch whose value stays fine ends up OK and stays so, whatever a pass
\* that evaluated an older value still has to save.
FineEndsOK ==
    \A w \in Watches :
       <>[](row[w] # NoWatch /\ row[w].on /\ metric[w] = "low")
         => <>[](row[w] # NoWatch /\ row[w].st = "ok")
=============================================================================
