--------------------------- MODULE AlertEvaluator ---------------------------
(***************************************************************************)
(* The alert evaluator of internal/alerting/evaluator.go and the rows it   *)
(* keeps in the alert store.                                               *)
(*                                                                         *)
(* One goroutine runs rounds: it lists the enabled rules by name, evaluates*)
(* each that is due, then forgets old resolved alerts.  An evaluation runs *)
(* a state machine per fingerprint (a rule and a label set) over three     *)
(* maps: ActiveSince, FiringAlerts and alerts.  HTTP handlers acknowledge  *)
(* alerts meanwhile; a restart empties the maps but not the store.         *)
(*                                                                         *)
(* Time is kept as ages: how many clock units ago a timestamp was taken,   *)
(* saturating at AgeCap, which is above every duration they are compared   *)
(* with, so that saturation loses nothing.                                 *)
(***************************************************************************)
EXTENDS Integers

CONSTANTS
    Rules, Labels,
    Kind,       \* rule -> "query" (threshold, anomaly, change), "absence",
                \*         "and", "or" (composite)
    Series,     \* rule -> the label sets its results can carry
    SubRules,   \* rule -> Rule.SubRules
    NameOrder,  \* rule -> its position in ListEnabledRules
    EvalInterval, ForDuration, KeepFiringFor,   \* rule -> duration
    CleanupAge, \* the hour after which a resolved alert is forgotten
    AgeCap,     \* bound: ages saturate here
    MaxRestarts,  \* bound: restarts of the process
    Env         \* the disturbances this instance includes

FP == {f \in Rules \X Labels : f[2] \in Series[f[1]]}

ASSUME EvaluatorAssumption ==
    /\ Kind \in [Rules -> {"query", "absence", "and", "or"}]
    /\ Series \in [Rules -> SUBSET Labels]
    /\ SubRules \in [Rules -> SUBSET Rules]
    /\ NameOrder \in [Rules -> Nat]
    /\ EvalInterval \in [Rules -> Nat] /\ ForDuration \in [Rules -> Nat]
    /\ KeepFiringFor \in [Rules -> Nat]
    /\ CleanupAge \in Nat /\ AgeCap \in Nat /\ AgeCap > CleanupAge
    /\ MaxRestarts \in Nat
    /\ \A r \in Rules : /\ AgeCap >= EvalInterval[r]
                        /\ AgeCap >= ForDuration[r]
                        /\ AgeCap >= KeepFiringFor[r]
    /\ Env \subseteq {"vanish", "error", "silence", "disable", "ack", "restart",
                     "savefault"}

VARIABLES
    hot, present, broken,  \* the metrics: conditions that hold, series that
                           \* exist, rules whose query fails
    silenced, enabled,     \* fingerprints under a silence, enabled rules
    round,         \* rules of this round still to evaluate
    inRound,       \* is evaluateAll running?
    lastEval,      \* rule -> age of RuleEvalState.LastEval
    activeSince,   \* fingerprint -> age of RuleEvalState.ActiveSince
    firingAlerts,  \* RuleEvalState.FiringAlerts of all rules
    alerts,        \* Evaluator.alerts
    rows,          \* fingerprint -> the store's row of the alert in memory
    orphans,       \* fingerprint -> states of rows whose alert was forgotten
    condTrue,      \* ghost: age of the first evaluation that saw the condition
                   \* hold since one last saw it not hold
    fires,         \* ghost: transitions to firing since an evaluation last
                   \* found the condition not to hold
    lapsed         \* ghost: has a save failed, how often has the process
                   \* restarted?

metrics == <<hot, present, broken, silenced, enabled>>
memory == <<round, inRound, lastEval, activeSince, firingAlerts, alerts>>
store == <<rows, orphans>>
ghosts == <<condTrue, fires, lapsed>>
vars == <<metrics, memory, store, ghosts>>

Absent == -1
Age == 0 .. AgeCap
Older(a) == IF a \in 0 .. AgeCap - 1 THEN a + 1 ELSE a

AlertState == {"none", "pending", "firing", "resolved"}

Alert == [state : AlertState, fired : Age \cup {Absent},
          resolved : Age \cup {Absent}, acked : BOOLEAN, notified : BOOLEAN]

NoAlert == [state |-> "none", fired |-> Absent, resolved |-> Absent,
            acked |-> FALSE, notified |-> FALSE]

Row(a) == [state |-> a.state, acked |-> a.acked]

-----------------------------------------------------------------------------
(* The results of evaluating a rule: label sets seen, and those firing. *)

RuleFiring(r) == \E f \in firingAlerts : f[1] = r

\* evaluateThreshold, evaluateAnomaly and evaluateChange report the series
\* the query returned; evaluateAbsence and evaluateComposite one result.
Seen(r) ==
    IF Kind[r] = "query" THEN {f \in present : f[1] = r}
    ELSE {f \in FP : f[1] = r}

\* A failed query is an absence; a composite reads its sub-rules' maps.
Firing(r, f) ==
    CASE Kind[r] = "query"   -> f \in hot
      [] Kind[r] = "absence" -> f \in hot \/ r \in broken
      [] Kind[r] = "and"     -> \A s \in SubRules[r] : RuleFiring(s)
      [] Kind[r] = "or"      -> \E s \in SubRules[r] : RuleFiring(s)

\* The evaluations that return an error and process nothing.
EvalError(r) ==
    \/ Kind[r] = "query" /\ r \in broken
    \/ Kind[r] \in {"and", "or"} /\ SubRules[r] = {}

-----------------------------------------------------------------------------
(* What processResults does to one fingerprint. *)

ActiveNow(f) == IF activeSince[f] = Absent THEN 0 ELSE activeSince[f]

ShouldFire(r, f) == ActiveNow(f) >= ForDuration[r]

\* (mutant) the State of a new alert is left unset.
MutTracked(f) ==
    IF alerts[f].state = "none" THEN [NoAlert EXCEPT !.state = ""]
    ELSE alerts[f]

Tracked(f) ==
    IF alerts[f].state = "none" THEN [NoAlert EXCEPT !.state = "pending"]
    ELSE alerts[f]

\* handleFiringResult: pending until ForDuration has passed; the transition
\* to firing notifies unless a silence matches.
FiringResult(r, f) ==
    IF ShouldFire(r, f) /\ Tracked(f).state # "firing"
    THEN [Tracked(f) EXCEPT !.state = "firing", !.fired = 0,
                            !.notified = @ \/ f \notin silenced]
    ELSE Tracked(f)

\* (mutant) the duration is not compared with KeepFiringFor.
MutKeepFiring(r, f) == alerts[f].state = "firing"

\* KeepFiringFor, measured from FiredAt.
KeepFiring(r, f) ==
    /\ alerts[f].state = "firing" /\ KeepFiringFor[r] > 0
    /\ alerts[f].fired < KeepFiringFor[r]

Resolve(a) ==
    IF a.state \in {"pending", "firing"}
    THEN [a EXCEPT !.state = "resolved", !.resolved = 0]
    ELSE a

\* Does handleResolvedResult get past its early returns?
Resolves(r, f) ==
    activeSince[f] # Absent /\ alerts[f].state # "none" /\ ~KeepFiring(r, f)

\* (mutant) alerts that were not seen only leave the rule's map.
MutUnseenResult(f) == alerts[f]

\* A firing alert the results do not mention is resolved.
UnseenResult(f) ==
    IF f \in firingAlerts THEN Resolve(alerts[f]) ELSE alerts[f]

NewAlert(r, f) ==
    CASE f \in Seen(r) /\ Firing(r, f)  -> FiringResult(r, f)
      [] f \in Seen(r) /\ ~Firing(r, f) ->
           IF Resolves(r, f) THEN Resolve(alerts[f]) ELSE alerts[f]
      [] f \notin Seen(r)               -> UnseenResult(f)

\* (mutant) a result that does not fire leaves ActiveSince alone.
MutNewActive(r, f) ==
    CASE f \in Seen(r) /\ Firing(r, f)  -> ActiveNow(f)
      [] f \in Seen(r) /\ ~Firing(r, f) -> activeSince[f]
      [] f \notin Seen(r) ->
           IF f \in firingAlerts THEN Absent ELSE activeSince[f]

\* A series that drops out of the results while its alert is pending keeps
\* its ActiveSince: the unseen loop walks FiringAlerts only.
NewActive(r, f) ==
    CASE f \in Seen(r) /\ Firing(r, f)  -> ActiveNow(f)
      [] f \in Seen(r) /\ ~Firing(r, f) -> Absent
      [] f \notin Seen(r) ->
           IF f \in firingAlerts THEN Absent ELSE activeSince[f]

\* Does f belong to FiringAlerts afterwards?
NewFiring(r, f) ==
    CASE f \in Seen(r) /\ Firing(r, f) ->
           \/ f \in firingAlerts
           \/ ShouldFire(r, f) /\ Tracked(f).state # "firing"
      [] f \in Seen(r) /\ ~Firing(r, f) -> f \in firingAlerts /\ ~Resolves(r, f)
      [] f \notin Seen(r)               -> FALSE

\* (mutant) resolutions are not saved.
MutSaved(r, f) == f \in Seen(r) /\ Firing(r, f)

\* The three calls of SaveAlert: at the end of handleFiringResult, and inside
\* the two tests of the state that guard a resolution.
Saved(r, f) ==
    \/ f \in Seen(r) /\ Firing(r, f)
    \/ /\ f \in Seen(r) /\ ~Firing(r, f) /\ Resolves(r, f)
       /\ alerts[f].state \in {"pending", "firing"}
    \/ /\ f \notin Seen(r) /\ f \in firingAlerts
       /\ alerts[f].state \in {"pending", "firing"}

-----------------------------------------------------------------------------
Init ==
    /\ hot = {} /\ present = FP /\ broken = {} /\ silenced = {}
    /\ enabled = Rules
    /\ round = {} /\ inRound = FALSE
    /\ lastEval = [r \in Rules |-> AgeCap]
    /\ activeSince = [f \in FP |-> Absent]
    /\ firingAlerts = {}
    /\ alerts = [f \in FP |-> NoAlert]
    /\ rows = [f \in FP |-> Row(NoAlert)]
    /\ orphans = [f \in FP |-> {}]
    /\ condTrue = [f \in FP |-> Absent] /\ fires = [f \in FP |-> 0]
    /\ lapsed = [save |-> FALSE, restarts |-> 0]

\* evaluateAll lists the rules enabled at that moment.
StartRound ==
    /\ ~inRound
    /\ inRound' = TRUE /\ round' = enabled
    /\ UNCHANGED <<metrics, lastEval, activeSince, firingAlerts, alerts,
                   store, ghosts>>

SavedAlerts(r) == {f \in FP : f[1] = r /\ Saved(r, f)}

\* SaveAlert's error is dropped: of the alerts saved, some may be lost.
LostSaves(saved) == IF "savefault" \in Env THEN SUBSET saved ELSE {{}}

\* evaluateRule: not due, or the evaluation fails, or its results are
\* processed.  LastEval is set before the evaluation, whatever comes of it.
EvaluateRule(r) ==
    /\ inRound /\ r \in round /\ \A s \in round : NameOrder[r] <= NameOrder[s]
    /\ round' = round \ {r}
    /\ \/ /\ lastEval[r] < EvalInterval[r]
          /\ UNCHANGED <<lastEval, activeSince, firingAlerts, alerts, store,
                         ghosts>>
       \/ /\ lastEval[r] >= EvalInterval[r] /\ EvalError(r)
          /\ lastEval' = [lastEval EXCEPT ![r] = 0]
          /\ UNCHANGED <<activeSince, firingAlerts, alerts, store, ghosts>>
       \/ /\ lastEval[r] >= EvalInterval[r] /\ ~EvalError(r)
          /\ lastEval' = [lastEval EXCEPT ![r] = 0]
          /\ alerts' = [f \in FP |->
                          IF f[1] = r THEN NewAlert(r, f) ELSE alerts[f]]
          /\ activeSince' = [f \in FP |->
                          IF f[1] = r THEN NewActive(r, f) ELSE activeSince[f]]
          /\ firingAlerts' = {f \in FP :
                          IF f[1] = r THEN NewFiring(r, f) ELSE f \in firingAlerts}
          /\ \E lost \in LostSaves(SavedAlerts(r)) :
               /\ rows' = [f \in FP |->
                             IF f[1] = r /\ Saved(r, f) /\ f \notin lost
                             THEN Row(NewAlert(r, f)) ELSE rows[f]]
               /\ lapsed' = [lapsed EXCEPT !.save = @ \/ lost # {}]
          /\ condTrue' = [f \in FP |->
                            CASE f[1] # r \/ f \notin Seen(r) -> condTrue[f]
                              [] f[1] = r /\ f \in Seen(r) /\ Firing(r, f) ->
                                   IF condTrue[f] = Absent THEN 0 ELSE condTrue[f]
                              [] OTHER -> Absent]
          /\ fires' = [f \in FP |->
                         CASE f[1] # r -> fires[f]
                           [] f[1] = r /\ ~(f \in Seen(r) /\ Firing(r, f)) -> 0
                           [] OTHER -> IF /\ alerts[f].state # "firing"
                                          /\ NewAlert(r, f).state = "firing"
                                       THEN fires[f] + 1 ELSE fires[f]]
          /\ UNCHANGED orphans
    /\ UNCHANGED <<metrics, inRound>>

\* Of a row that will not be written again: what it goes on saying of an
\* alert that is no longer tracked.
Left(row) == {row.state} \cap {"pending", "firing"}

\* (mutant) the age is counted from FiredAt, whatever the state.
MutForgettable(a) == a.fired > CleanupAge

Forgettable(a) == a.state = "resolved" /\ a.resolved > CleanupAge

\* cleanupResolvedAlerts ends the round.
EndRound ==
    /\ inRound /\ round = {}
    /\ inRound' = FALSE
    /\ alerts' = [f \in FP |->
                    IF Forgettable(alerts[f]) THEN NoAlert ELSE alerts[f]]
    /\ rows' = [f \in FP |->
                  IF Forgettable(alerts[f]) THEN Row(NoAlert) ELSE rows[f]]
    /\ orphans' = [f \in FP |->
                     IF Forgettable(alerts[f]) THEN orphans[f] \cup Left(rows[f])
                     ELSE orphans[f]]
    /\ UNCHANGED <<metrics, round, lastEval, activeSince, firingAlerts, ghosts>>

\* AcknowledgeAlert, from an HTTP handler.
Acknowledge(f) ==
    /\ "ack" \in Env /\ alerts[f].state # "none"
    /\ alerts' = [alerts EXCEPT ![f].acked = TRUE]
    /\ \E lost \in LostSaves({f}) :
         /\ rows' = IF f \in lost THEN rows
                    ELSE [rows EXCEPT ![f] = Row(alerts'[f])]
         /\ lapsed' = [lapsed EXCEPT !.save = @ \/ lost # {}]
    /\ UNCHANGED <<metrics, round, inRound, lastEval, activeSince, firingAlerts,
                   orphans, condTrue, fires>>

\* The process restarts: NewEvaluator starts from empty maps, and new alerts
\* get new IDs, so the old rows are never written again.  What evaluations
\* have seen of the conditions so far is history, and stays.
Restart ==
    /\ "restart" \in Env /\ lapsed.restarts < MaxRestarts
    /\ round' = {} /\ inRound' = FALSE
    /\ lastEval' = [r \in Rules |-> AgeCap]
    /\ activeSince' = [f \in FP |-> Absent]
    /\ firingAlerts' = {} /\ alerts' = [f \in FP |-> NoAlert]
    /\ rows' = [f \in FP |-> Row(NoAlert)]
    /\ orphans' = [f \in FP |-> orphans[f] \cup Left(rows[f])]
    /\ lapsed' = [lapsed EXCEPT !.restarts = @ + 1]
    /\ UNCHANGED <<metrics, condTrue, fires>>

-----------------------------------------------------------------------------
(* The environment: the clock, the metrics, silences and the rule store. *)

Tick ==
    /\ lastEval' = [r \in Rules |-> Older(lastEval[r])]
    /\ activeSince' = [f \in FP |-> Older(activeSince[f])]
    /\ condTrue' = [f \in FP |-> Older(condTrue[f])]
    /\ alerts' = [f \in FP |-> [alerts[f] EXCEPT !.fired = Older(@),
                                                 !.resolved = Older(@)]]
    /\ UNCHANGED <<metrics, round, inRound, firingAlerts, store, fires, lapsed>>

Flip(S, x) == IF x \in S THEN S \ {x} ELSE S \cup {x}

Metrics ==
    /\ \/ \E f \in FP : Kind[f[1]] \in {"query", "absence"}
                        /\ hot' = Flip(hot, f) /\ UNCHANGED <<present, broken>>
       \/ \E f \in FP : "vanish" \in Env /\ Kind[f[1]] = "query"
                        /\ present' = Flip(present, f) /\ UNCHANGED <<hot, broken>>
       \/ \E r \in Rules : "error" \in Env /\ Kind[r] \in {"query", "absence"}
                        /\ broken' = Flip(broken, r) /\ UNCHANGED <<hot, present>>
    /\ UNCHANGED <<silenced, enabled, memory, store, ghosts>>

Silence ==
    /\ "silence" \in Env
    /\ \E f \in FP : silenced' = Flip(silenced, f)
    /\ UNCHANGED <<hot, present, broken, enabled, memory, store, ghosts>>

EnableRule ==
    /\ "disable" \in Env
    /\ \E r \in Rules : enabled' = Flip(enabled, r)
    /\ UNCHANGED <<hot, present, broken, silenced, memory, store, ghosts>>

Next ==
    \/ StartRound \/ EndRound \/ Restart \/ Tick
    \/ Metrics \/ Silence \/ EnableRule
    \/ \E r \in Rules : EvaluateRule(r)
    \/ \E f \in FP : Acknowledge(f)

Spec == Init /\ [][Next]_vars

\* The evaluator's loop keeps running and time passes.
Fairness ==
    /\ WF_vars(StartRound) /\ WF_vars(EndRound) /\ WF_vars(Tick)
    /\ \A r \in Rules : WF_vars(EvaluateRule(r))

FairSpec == Spec /\ Fairness

-----------------------------------------------------------------------------
\* The types of the evaluator's maps, the store's rows and the ghosts.
TypeOK ==
    /\ hot \subseteq FP /\ present \subseteq FP /\ broken \subseteq Rules
    /\ silenced \subseteq FP /\ enabled \subseteq Rules
    /\ round \subseteq Rules /\ inRound \in BOOLEAN
    /\ lastEval \in [Rules -> Age]
    /\ activeSince \in [FP -> Age \cup {Absent}]
    /\ firingAlerts \subseteq FP
    /\ alerts \in [FP -> Alert]
    /\ rows \in [FP -> [state : AlertState, acked : BOOLEAN]]
    /\ orphans \in [FP -> SUBSET {"pending", "firing"}]
    /\ condTrue \in [FP -> Age \cup {Absent}] /\ fires \in [FP -> Nat]
    /\ lapsed \in [save : BOOLEAN, restarts : 0 .. MaxRestarts]

\* FiringAlerts, which composite rules and the unseen loop read, names
\* exactly the alerts in state firing: the two maps sit under different locks
\* and are updated on every path of handleFiringResult, handleResolvedResult,
\* processResults and cleanupResolvedAlerts.
FiringMapAgrees ==
    \A f \in FP : f \in firingAlerts <=> alerts[f].state = "firing"

\* A firing alert's row in the store says so: SaveAlert is called on every
\* path that changes an alert, so rows and memory differ only after a failed
\* save, and only a restart leaves rows that nobody will ever resolve.
StoreFaithful ==
    ~lapsed.save =>
        \A f \in FP : /\ rows[f] = Row(alerts[f])
                      /\ orphans[f] # {} => lapsed.restarts > 0

\* rule.go:77, ForDuration "Must be true for this long", as far as the code
\* keeps it: an alert goes to firing only if an evaluation saw its condition
\* hold at least ForDuration ago and none since has seen its series and found
\* the condition not to hold, whatever vanished, failed or restarted between.
ForDurationHonoured ==
    [][\A f \in FP :
         alerts[f].state # "firing" /\ alerts'[f].state = "firing"
            => condTrue'[f] >= ForDuration[f[1]]]_vars

\* While evaluations go on finding the condition to hold, an alert goes to
\* firing (and notifies) once; only a restart, which forgets that it did,
\* repeats it, and each restart at most once.
NoRepeatWithoutRecovery ==
    \A f \in FP : fires[f] <= 1 + lapsed.restarts

\* An alert whose condition has stopped holding for good is resolved in the
\* end, as long as its rule stays enabled and its evaluation works.  For a
\* composite the condition is what its sub-rules' maps say.
ConditionGoneLeadsToResolved ==
    \A f \in FP :
        <>[](/\ f[1] \in enabled /\ ~EvalError(f[1])
             /\ f \in Seen(f[1]) /\ ~Firing(f[1], f))
            => []<>(alerts[f].state # "firing")
=============================================================================
