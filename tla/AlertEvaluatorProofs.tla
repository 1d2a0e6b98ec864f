------------------------ MODULE AlertEvaluatorProofs ------------------------
(***************************************************************************)
(* Proofs about AlertEvaluator, for every set of rules and every choice of *)
(* their durations.                                                        *)
(***************************************************************************)
EXTENDS AlertEvaluator, TLAPS

OptAge == Age \cup {Absent}
RowType == [state : AlertState, acked : BOOLEAN]

LEMMA AgeFacts ==
    /\ AgeCap \in Nat /\ 0 \in OptAge /\ Absent \in OptAge /\ AgeCap \in Age
    /\ \A a \in OptAge : Older(a) \in OptAge /\ a \in Int
    /\ \A a \in Age : Older(a) \in Age
BY EvaluatorAssumption DEF OptAge, Age, Absent, Older

LEMMA FPFacts == \A f \in FP : f[1] \in Rules
BY DEF FP

LEMMA NoAlertType == NoAlert \in Alert
BY AgeFacts DEF NoAlert, Alert, AlertState, OptAge

\* An alert's row has the row type.
LEMMA RowTyped == ASSUME NEW a \in Alert PROVE Row(a) \in RowType
BY DEF Row, Alert, RowType

LEMMA ResolveFacts ==
    ASSUME NEW a \in Alert
    PROVE  Resolve(a) \in Alert /\ Resolve(a).state # "firing"
<1>1. CASE a.state \in {"pending", "firing"}
  <2>1. Resolve(a) = [a EXCEPT !.state = "resolved", !.resolved = 0]
    BY <1>1 DEF Resolve
  <2> QED
    BY <2>1, AgeFacts DEF Alert, AlertState, OptAge
<1>2. CASE a.state \notin {"pending", "firing"}
  BY <1>2 DEF Resolve
<1> QED
  BY <1>1, <1>2

LEMMA TrackedFacts ==
    ASSUME TypeOK, NEW f \in FP
    PROVE  /\ Tracked(f) \in Alert
           /\ Tracked(f).state = "firing" <=> alerts[f].state = "firing"
<1>1. alerts[f] \in Alert
  BY DEF TypeOK
<1>2. [NoAlert EXCEPT !.state = "pending"] \in Alert
  BY NoAlertType DEF Alert, AlertState
<1>3. [NoAlert EXCEPT !.state = "pending"].state = "pending"
  BY DEF NoAlert
<1> QED
  BY <1>1, <1>2, <1>3 DEF Tracked

\* handleFiringResult ends in state firing exactly if it makes the transition
\* or the alert was firing already.
LEMMA FiringResultFacts ==
    ASSUME TypeOK, NEW r \in Rules, NEW f \in FP
    PROVE  /\ FiringResult(r, f) \in Alert
           /\ FiringResult(r, f).state = "firing" <=>
                \/ alerts[f].state = "firing"
                \/ ShouldFire(r, f) /\ Tracked(f).state # "firing"
<1>1. /\ Tracked(f) \in Alert
      /\ Tracked(f).state = "firing" <=> alerts[f].state = "firing"
  BY TrackedFacts
<1>2. CASE ShouldFire(r, f) /\ Tracked(f).state # "firing"
  <2>1. PICK b \in BOOLEAN :
          FiringResult(r, f) = [Tracked(f) EXCEPT !.state = "firing",
                                    !.fired = 0, !.notified = b]
    <3>1. Tracked(f).notified \in BOOLEAN
      BY <1>1 DEF Alert
    <3>2. (Tracked(f).notified \/ f \notin silenced) \in BOOLEAN
      OBVIOUS
    <3> QED
      BY <1>2, <3>2 DEF FiringResult
  <2>2. FiringResult(r, f) \in Alert
    BY <1>1, <2>1, AgeFacts DEF Alert, AlertState, OptAge
  <2>3. FiringResult(r, f).state = "firing"
    BY <1>1, <2>1 DEF Alert
  <2> QED
    BY <1>2, <2>2, <2>3
<1>3. CASE ~(ShouldFire(r, f) /\ Tracked(f).state # "firing")
  BY <1>1, <1>3 DEF FiringResult
<1> QED
  BY <1>2, <1>3

\* The result of an evaluation for one fingerprint: the new alert is typed,
\* and FiringAlerts holds f exactly if it is firing.
LEMMA NewAlertFacts ==
    ASSUME TypeOK, FiringMapAgrees, NEW r \in Rules, NEW f \in FP
    PROVE  /\ NewAlert(r, f) \in Alert
           /\ NewFiring(r, f) <=> NewAlert(r, f).state = "firing"
<1>1. alerts[f] \in Alert /\ (f \in firingAlerts <=> alerts[f].state = "firing")
  BY DEF TypeOK, FiringMapAgrees
<1>2. Resolve(alerts[f]) \in Alert /\ Resolve(alerts[f]).state # "firing"
  BY <1>1, ResolveFacts
<1>3. CASE f \in Seen(r) /\ Firing(r, f)
  BY <1>1, <1>3, FiringResultFacts DEF NewAlert, NewFiring
<1>4. CASE f \in Seen(r) /\ ~Firing(r, f)
  BY <1>1, <1>2, <1>4 DEF NewAlert, NewFiring
<1>5. CASE f \notin Seen(r)
  BY <1>1, <1>2, <1>5 DEF NewAlert, NewFiring, UnseenResult
<1> QED
  BY <1>3, <1>4, <1>5

LEMMA DueFacts ==
    ASSUME TypeOK, NEW r \in Rules
    PROVE  /\ lastEval \in [Rules -> Age] /\ lastEval[r] \in Int
           /\ EvalInterval[r] \in Int
<1>1. lastEval \in [Rules -> Age] /\ lastEval[r] \in Age
  BY DEF TypeOK
<1>2. Age \subseteq Int
  BY EvaluatorAssumption DEF Age
<1>3. EvalInterval[r] \in Int
  BY EvaluatorAssumption
<1> QED
  BY <1>1, <1>2, <1>3

-----------------------------------------------------------------------------
(***************************************************************************)
(* The inductive invariant.  FiringMapAgrees and StoreFaithful are         *)
(* inductive with the types.  FiresOwed carries the claim about repeated   *)
(* transitions: an alert that does not fire has a transition to spare.     *)
(* HeldSince is what makes ActiveSince stand for the condition: nothing    *)
(* the evaluations saw contradicts it.                                     *)
(***************************************************************************)
FiresOwed ==
    \A f \in FP : alerts[f].state # "firing" => fires[f] <= lapsed.restarts

HeldSince ==
    \A f \in FP : activeSince[f] # Absent =>
        condTrue[f] # Absent /\ condTrue[f] >= activeSince[f]

IInv ==
    /\ TypeOK /\ FiringMapAgrees /\ StoreFaithful
    /\ NoRepeatWithoutRecovery /\ FiresOwed /\ HeldSince

\* The evaluations that process results.
Processes(r) ==
    /\ EvaluateRule(r)
    /\ lastEval[r] >= EvalInterval[r] /\ ~EvalError(r)

\* The alerts after processing, fingerprint by fingerprint.
LEMMA ProcessedAlerts ==
    ASSUME IInv, NEW r \in Rules, Processes(r), NEW f \in FP
    PROVE  /\ alerts'[f] = IF f[1] = r THEN NewAlert(r, f) ELSE alerts[f]
           /\ f \in firingAlerts' <=>
                 IF f[1] = r THEN NewFiring(r, f) ELSE f \in firingAlerts
           /\ alerts'[f] \in Alert
           /\ f \in firingAlerts' <=> alerts'[f].state = "firing"
<1>1. /\ lastEval \in [Rules -> Age] /\ lastEval[r] \in Int
      /\ EvalInterval[r] \in Int
  BY DueFacts DEF IInv
<1>2. /\ alerts' = [g \in FP |->
                      IF g[1] = r THEN NewAlert(r, g) ELSE alerts[g]]
      /\ firingAlerts' = {g \in FP :
                  IF g[1] = r THEN NewFiring(r, g) ELSE g \in firingAlerts}
  BY <1>1 DEF Processes, EvaluateRule
<1>3. /\ NewAlert(r, f) \in Alert
      /\ NewFiring(r, f) <=> NewAlert(r, f).state = "firing"
  BY NewAlertFacts DEF IInv
<1>4. alerts[f] \in Alert /\ (f \in firingAlerts <=> alerts[f].state = "firing")
  BY DEF IInv, TypeOK, FiringMapAgrees
<1>5. /\ alerts'[f] = IF f[1] = r THEN NewAlert(r, f) ELSE alerts[f]
      /\ f \in firingAlerts' <=>
           IF f[1] = r THEN NewFiring(r, f) ELSE f \in firingAlerts
  BY <1>2
<1> QED
  BY <1>3, <1>4, <1>5

LEMMA ProcessesIInv ==
    ASSUME IInv, NEW r \in Rules, Processes(r) PROVE IInv'
<1>1. /\ lastEval \in [Rules -> Age] /\ lastEval[r] \in Int
      /\ EvalInterval[r] \in Int
  BY DueFacts DEF IInv
<1>2. PICK lost \in LostSaves(SavedAlerts(r)) :
        /\ rows' = [f \in FP |-> IF f[1] = r /\ Saved(r, f) /\ f \notin lost
                                 THEN Row(NewAlert(r, f)) ELSE rows[f]]
        /\ lapsed' = [lapsed EXCEPT !.save = @ \/ lost # {}]
  BY <1>1 DEF Processes, EvaluateRule
<1>4. /\ round' = round \ {r} /\ UNCHANGED <<metrics, inRound, orphans>>
      /\ lastEval' = [lastEval EXCEPT ![r] = 0]
      /\ activeSince' = [f \in FP |->
                IF f[1] = r THEN NewActive(r, f) ELSE activeSince[f]]
      /\ condTrue' = [f \in FP |->
                CASE f[1] # r \/ f \notin Seen(r) -> condTrue[f]
                  [] f[1] = r /\ f \in Seen(r) /\ Firing(r, f) ->
                       IF condTrue[f] = Absent THEN 0 ELSE condTrue[f]
                  [] OTHER -> Absent]
      /\ fires' = [f \in FP |->
             CASE f[1] # r -> fires[f]
               [] f[1] = r /\ ~(f \in Seen(r) /\ Firing(r, f)) -> 0
               [] OTHER -> IF /\ alerts[f].state # "firing"
                              /\ NewAlert(r, f).state = "firing"
                           THEN fires[f] + 1 ELSE fires[f]]
      /\ alerts' = [f \in FP |->
                IF f[1] = r THEN NewAlert(r, f) ELSE alerts[f]]
      /\ firingAlerts' \subseteq FP
  BY <1>1 DEF Processes, EvaluateRule
<1>5. \A f \in FP : NewAlert(r, f) \in Alert /\ Row(NewAlert(r, f)) \in RowType
  BY NewAlertFacts, RowTyped DEF IInv
<1>6. alerts' \in [FP -> Alert] /\ rows' \in [FP -> RowType]
  BY <1>2, <1>4, <1>5 DEF IInv, TypeOK, RowType
<1>7. lapsed' \in [save : BOOLEAN, restarts : 0 .. MaxRestarts]
      /\ lapsed'.restarts = lapsed.restarts /\ (lapsed'.save <=> lapsed.save \/ lost # {})
  BY <1>2 DEF IInv, TypeOK
<1>8. activeSince' \in [FP -> OptAge]
  <2>1. \A f \in FP : NewActive(r, f) \in OptAge
    BY AgeFacts DEF NewActive, ActiveNow, IInv, TypeOK, OptAge
  <2> QED
    BY <1>4, <2>1 DEF IInv, TypeOK, OptAge
<1>9. condTrue' \in [FP -> OptAge] /\ fires' \in [FP -> Nat]
  BY <1>4, AgeFacts DEF IInv, TypeOK, OptAge
<1>10. lastEval' \in [Rules -> Age]
  BY <1>1, <1>4, EvaluatorAssumption DEF Age
<1>11. TypeOK'
  BY <1>4, <1>6, <1>7, <1>8, <1>9, <1>10
  DEF IInv, TypeOK, metrics, OptAge, RowType
<1>12. FiringMapAgrees'
  BY ProcessedAlerts DEF FiringMapAgrees
<1>13. StoreFaithful'
  <2> SUFFICES ASSUME ~lapsed'.save, NEW f \in FP
               PROVE  rows'[f] = Row(alerts'[f]) /\ (orphans'[f] # {} => lapsed'.restarts > 0)
    BY DEF StoreFaithful
  <2>1. lost = {} /\ ~lapsed.save
    BY <1>7
  <2>2. rows[f] = Row(alerts[f]) /\ (orphans[f] # {} => lapsed.restarts > 0)
    BY <2>1 DEF IInv, StoreFaithful
  <2>3. rows'[f] = IF f[1] = r /\ Saved(r, f) THEN Row(NewAlert(r, f)) ELSE rows[f]
    BY <1>2, <2>1
  <2>4. f[1] = r /\ ~Saved(r, f) => NewAlert(r, f) = alerts[f]
    BY DEF Saved, NewAlert, UnseenResult, Resolve
  <2> QED
    BY <1>4, <1>7, <2>2, <2>3, <2>4
<1>14. NoRepeatWithoutRecovery' /\ FiresOwed'
  <2> SUFFICES ASSUME NEW f \in FP
               PROVE  /\ fires'[f] <= 1 + lapsed.restarts
                      /\ alerts'[f].state # "firing" => fires'[f] <= lapsed.restarts
    BY <1>7 DEF NoRepeatWithoutRecovery, FiresOwed
  <2>1. /\ fires[f] \in Nat /\ lapsed.restarts \in Nat
        /\ fires[f] <= 1 + lapsed.restarts
        /\ alerts[f].state # "firing" => fires[f] <= lapsed.restarts
    BY EvaluatorAssumption DEF IInv, TypeOK, NoRepeatWithoutRecovery, FiresOwed
  <2>2. CASE f[1] # r
    BY <1>4, <2>1, <2>2
  <2>3. CASE f[1] = r /\ f \in Seen(r) /\ Firing(r, f)
    <3>1. alerts'[f] = NewAlert(r, f) /\ alerts'[f] = FiringResult(r, f)
      BY <1>4, <2>3 DEF NewAlert
    <3>2. alerts[f].state = "firing" => alerts'[f].state = "firing"
      BY <3>1, FiringResultFacts DEF IInv
    <3>3. fires'[f] = IF alerts[f].state # "firing" /\ alerts'[f].state = "firing"
                      THEN fires[f] + 1 ELSE fires[f]
      BY <1>4, <2>3, <3>1
    <3> QED
      BY <2>1, <3>2, <3>3
  <2>4. CASE f[1] = r /\ ~(f \in Seen(r) /\ Firing(r, f))
    BY <1>4, <2>1, <2>4
  <2> QED
    BY <2>2, <2>3, <2>4
<1>15. HeldSince'
  <2> SUFFICES ASSUME NEW f \in FP, activeSince'[f] # Absent
               PROVE  condTrue'[f] # Absent /\ condTrue'[f] >= activeSince'[f]
    BY DEF HeldSince
  <2>1. /\ activeSince[f] \in OptAge /\ condTrue[f] \in OptAge
        /\ activeSince[f] # Absent =>
              condTrue[f] # Absent /\ condTrue[f] >= activeSince[f]
    BY DEF IInv, TypeOK, HeldSince, OptAge
  <2>2. CASE f[1] # r \/ f \notin Seen(r)
    BY <1>4, <2>1, <2>2 DEF NewActive
  <2>3. CASE f[1] = r /\ f \in Seen(r) /\ Firing(r, f)
    BY <1>4, <2>1, <2>3, EvaluatorAssumption
    DEF NewActive, ActiveNow, OptAge, Age, Absent
  <2>4. CASE f[1] = r /\ f \in Seen(r) /\ ~Firing(r, f)
    BY <1>4, <2>4 DEF NewActive
  <2> QED
    BY <2>2, <2>3, <2>4
<1> QED
  BY <1>11, <1>12, <1>13, <1>14, <1>15 DEF IInv

LEMMA EvaluateIInv ==
    ASSUME IInv, NEW r \in Rules, EvaluateRule(r) PROVE IInv'
<1>1. CASE lastEval[r] >= EvalInterval[r] /\ ~EvalError(r)
  BY <1>1, ProcessesIInv DEF Processes
<1>2. CASE ~(lastEval[r] >= EvalInterval[r] /\ ~EvalError(r))
  <2>1. lastEval' = lastEval \/ lastEval' = [lastEval EXCEPT ![r] = 0]
    BY <1>2 DEF EvaluateRule
  <2>2. /\ round' = round \ {r}
        /\ UNCHANGED <<metrics, inRound, activeSince, firingAlerts, alerts,
                       store, ghosts>>
    BY <1>2 DEF EvaluateRule
  <2>3. lastEval' \in [Rules -> Age]
    BY <2>1, EvaluatorAssumption DEF IInv, TypeOK, Age
  <2>4. TypeOK'
    BY <2>2, <2>3 DEF IInv, TypeOK, metrics, store, ghosts
  <2> QED
    BY <2>2, <2>4
    DEF IInv, FiringMapAgrees, StoreFaithful, NoRepeatWithoutRecovery, FiresOwed,
        HeldSince, store, ghosts
<1> QED
  BY <1>1, <1>2

LEMMA LeftFacts ==
    ASSUME NEW row \in RowType
    PROVE  Left(row) \subseteq {"pending", "firing"}
BY DEF Left

LEMMA EndRoundIInv == ASSUME IInv, EndRound PROVE IInv'
<1>1. TypeOK'
  <2>1. alerts' \in [FP -> Alert]
    BY NoAlertType DEF EndRound, IInv, TypeOK
  <2>2. rows' \in [FP -> RowType]
    BY NoAlertType, RowTyped DEF EndRound, IInv, TypeOK, RowType
  <2>3. orphans' \in [FP -> SUBSET {"pending", "firing"}]
    BY LeftFacts DEF EndRound, IInv, TypeOK, RowType
  <2> QED
    BY <2>1, <2>2, <2>3 DEF EndRound, IInv, TypeOK, metrics, ghosts, RowType
<1>2. ASSUME NEW f \in FP
      PROVE  /\ alerts'[f] = IF Forgettable(alerts[f]) THEN NoAlert ELSE alerts[f]
             /\ alerts'[f].state = "firing" <=> alerts[f].state = "firing"
  BY DEF EndRound, Forgettable, NoAlert
<1>3. FiringMapAgrees' /\ NoRepeatWithoutRecovery' /\ FiresOwed' /\ HeldSince'
  BY <1>2 DEF EndRound, IInv, FiringMapAgrees, NoRepeatWithoutRecovery, FiresOwed, HeldSince, ghosts
<1>4. StoreFaithful'
  <2> SUFFICES ASSUME ~lapsed.save, NEW f \in FP
               PROVE  /\ rows'[f] = Row(alerts'[f])
                      /\ orphans'[f] # {} => lapsed.restarts > 0
    BY DEF StoreFaithful, EndRound, ghosts
  <2>1. rows[f] = Row(alerts[f]) /\ (orphans[f] # {} => lapsed.restarts > 0)
    BY DEF IInv, StoreFaithful
  <2>2. CASE Forgettable(alerts[f])
    \* the alert was resolved, and so was its row
    <3>1. Left(rows[f]) = {}
      BY <2>1, <2>2 DEF Forgettable, Left, Row
    <3> QED
      BY <2>1, <2>2, <3>1 DEF EndRound
  <2>3. CASE ~Forgettable(alerts[f])
    BY <2>1, <2>3 DEF EndRound
  <2> QED
    BY <2>2, <2>3
<1> QED
  BY <1>1, <1>3, <1>4 DEF IInv

LEMMA AcknowledgeIInv ==
    ASSUME IInv, NEW f \in FP, Acknowledge(f) PROVE IInv'
<1>1. PICK lost \in LostSaves({f}) :
        /\ rows' = IF f \in lost THEN rows
                   ELSE [rows EXCEPT ![f] = Row(alerts'[f])]
        /\ lapsed' = [lapsed EXCEPT !.save = @ \/ lost # {}]
  BY DEF Acknowledge
<1>3. /\ alerts' = [alerts EXCEPT ![f].acked = TRUE]
      /\ UNCHANGED <<metrics, round, inRound, lastEval, activeSince,
                     firingAlerts, orphans, condTrue, fires>>
  BY DEF Acknowledge
<1>4. /\ alerts' \in [FP -> Alert]
      /\ \A g \in FP : alerts'[g].state = alerts[g].state
      /\ \A g \in FP \ {f} : alerts'[g] = alerts[g]
  <2>0. alerts[f] \in Alert
    BY DEF IInv, TypeOK
  <2>1. [alerts[f] EXCEPT !.acked = TRUE] \in Alert
    BY <2>0 DEF Alert
  <2>2. [alerts[f] EXCEPT !.acked = TRUE].state = alerts[f].state
    BY <2>0 DEF Alert
  <2> QED
    BY <1>3, <2>1, <2>2 DEF IInv, TypeOK
<1>5. rows' \in [FP -> RowType]
  BY <1>1, <1>4, RowTyped DEF IInv, TypeOK, RowType
<1>6. /\ lapsed' \in [save : BOOLEAN, restarts : 0 .. MaxRestarts]
      /\ lapsed'.restarts = lapsed.restarts /\ (lapsed'.save <=> lapsed.save \/ lost # {})
  BY <1>1 DEF IInv, TypeOK
<1>7. TypeOK'
  BY <1>3, <1>4, <1>5, <1>6 DEF IInv, TypeOK, metrics, RowType
<1>8. FiringMapAgrees' /\ NoRepeatWithoutRecovery' /\ FiresOwed' /\ HeldSince'
  BY <1>3, <1>4, <1>6 DEF IInv, FiringMapAgrees, NoRepeatWithoutRecovery, FiresOwed, HeldSince
<1>9. StoreFaithful'
  BY <1>1, <1>3, <1>4, <1>6 DEF IInv, StoreFaithful, TypeOK
<1> QED
  BY <1>7, <1>8, <1>9 DEF IInv

\* A tick ages an alert's two times and leaves it an alert.
LEMMA AgedAlert ==
    ASSUME NEW a \in Alert
    PROVE  LET b == [a EXCEPT !.fired = Older(@), !.resolved = Older(@)]
           IN  b \in Alert /\ b.state = a.state /\ b.acked = a.acked
<1>1. Older(a.fired) \in Age \cup {Absent} /\ Older(a.resolved) \in Age \cup {Absent}
  BY AgeFacts DEF Alert, OptAge
<1> QED
  BY <1>1 DEF Alert

LEMMA TickIInv == ASSUME IInv, Tick PROVE IInv'
<1> DEFINE Aged(f) == [alerts[f] EXCEPT !.fired = Older(@), !.resolved = Older(@)]
<1>1. \A f \in FP : /\ Aged(f) \in Alert
                    /\ Aged(f).state = alerts[f].state
                    /\ Aged(f).acked = alerts[f].acked
  <2>1. \A f \in FP : alerts[f] \in Alert
    BY DEF IInv, TypeOK
  <2> QED
    BY <2>1, AgedAlert
<1>0. alerts' = [f \in FP |-> Aged(f)]
  BY DEF Tick
<1> HIDE DEF Aged
<1>2. /\ alerts' \in [FP -> Alert]
      /\ \A f \in FP : alerts'[f].state = alerts[f].state
      /\ \A f \in FP : alerts'[f].acked = alerts[f].acked
  BY <1>0, <1>1
<1>3. TypeOK'
  <2>1. activeSince' \in [FP -> OptAge] /\ condTrue' \in [FP -> OptAge]
    BY AgeFacts DEF Tick, IInv, TypeOK, OptAge
  <2>2. lastEval' \in [Rules -> Age]
    BY AgeFacts DEF Tick, IInv, TypeOK
  <2> QED
    BY <1>2, <2>1, <2>2 DEF Tick, IInv, TypeOK, metrics, store, OptAge
<1>4. FiringMapAgrees' /\ NoRepeatWithoutRecovery' /\ FiresOwed' /\ StoreFaithful'
  BY <1>2 DEF Tick, IInv, FiringMapAgrees, NoRepeatWithoutRecovery, FiresOwed,
              StoreFaithful, store, Row
<1>5. HeldSince'
  <2> SUFFICES ASSUME NEW f \in FP, activeSince'[f] # Absent
               PROVE  condTrue'[f] # Absent /\ condTrue'[f] >= activeSince'[f]
    BY DEF HeldSince
  <2>1. /\ activeSince[f] \in OptAge /\ condTrue[f] \in OptAge
        /\ activeSince[f] # Absent =>
              condTrue[f] # Absent /\ condTrue[f] >= activeSince[f]
    BY DEF IInv, TypeOK, HeldSince, OptAge
  <2>2. activeSince'[f] = Older(activeSince[f]) /\ condTrue'[f] = Older(condTrue[f])
    BY DEF Tick
  <2> QED
    BY <2>1, <2>2, EvaluatorAssumption DEF Older, OptAge, Age, Absent
<1> QED
  BY <1>3, <1>4, <1>5 DEF IInv

LEMMA RestartIInv == ASSUME IInv, Restart PROVE IInv'
<1>1. TypeOK'
  <2>1. alerts' \in [FP -> Alert] /\ rows' \in [FP -> RowType]
    BY NoAlertType, RowTyped DEF Restart
  <2>2. orphans' \in [FP -> SUBSET {"pending", "firing"}]
    BY LeftFacts DEF Restart, IInv, TypeOK, RowType
  <2>3. activeSince' \in [FP -> OptAge] /\ condTrue' \in [FP -> OptAge]
    BY AgeFacts DEF Restart, IInv, TypeOK, OptAge
  <2>4. lastEval' \in [Rules -> Age]
    BY AgeFacts DEF Restart
  <2>5. lapsed' \in [save : BOOLEAN, restarts : 0 .. MaxRestarts]
    <3>1. lapsed \in [save : BOOLEAN, restarts : 0 .. MaxRestarts]
      BY DEF IInv, TypeOK
    <3>2. /\ lapsed.restarts < MaxRestarts
          /\ lapsed' = [lapsed EXCEPT !.restarts = lapsed.restarts + 1]
      BY DEF Restart
    <3>3. MaxRestarts \in Nat
      BY EvaluatorAssumption
    <3>4. lapsed.restarts + 1 \in 0 .. MaxRestarts
      BY <3>1, <3>2, <3>3
    <3> QED
      BY <3>1, <3>2, <3>4
  <2> QED
    BY <2>1, <2>2, <2>3, <2>4, <2>5
    DEF Restart, IInv, TypeOK, metrics, OptAge, RowType
<1>2. FiringMapAgrees' /\ HeldSince'
  BY DEF Restart, FiringMapAgrees, HeldSince, NoAlert
<1>4. NoRepeatWithoutRecovery' /\ FiresOwed'
  \* the restart itself pays for the transition that may follow
  <2>1. lapsed'.restarts = lapsed.restarts + 1 /\ lapsed.restarts \in Nat
    BY EvaluatorAssumption DEF Restart, IInv, TypeOK
  <2> QED
    BY <2>1 DEF Restart, IInv, TypeOK, NoRepeatWithoutRecovery, FiresOwed
<1>3. StoreFaithful'
  BY DEF Restart, StoreFaithful, IInv, TypeOK
<1> QED
  BY <1>1, <1>2, <1>3, <1>4 DEF IInv

LEMMA EnvironmentIInv ==
    ASSUME IInv, StartRound \/ Metrics \/ Silence \/ EnableRule \/ UNCHANGED vars
    PROVE  IInv'
<1>1. CASE StartRound
  BY <1>1 DEF StartRound, IInv, TypeOK, FiringMapAgrees, NoRepeatWithoutRecovery,
              FiresOwed, HeldSince,
              StoreFaithful, metrics, store, ghosts
<1>2. CASE Metrics
  <2>1. hot' \subseteq FP /\ present' \subseteq FP /\ broken' \subseteq Rules
    BY <1>2 DEF Metrics, Flip, IInv, TypeOK
  <2> QED
    BY <1>2, <2>1 DEF Metrics, IInv, TypeOK, FiringMapAgrees,
       NoRepeatWithoutRecovery, FiresOwed, HeldSince, StoreFaithful, memory, store, ghosts
<1>3. CASE Silence
  BY <1>3 DEF Silence, Flip, IInv, TypeOK, FiringMapAgrees,
     NoRepeatWithoutRecovery, FiresOwed, HeldSince, StoreFaithful, memory, store, ghosts
<1>4. CASE EnableRule
  BY <1>4 DEF EnableRule, Flip, IInv, TypeOK, FiringMapAgrees,
     NoRepeatWithoutRecovery, FiresOwed, HeldSince, StoreFaithful, memory, store, ghosts
<1>5. CASE UNCHANGED vars
  BY <1>5 DEF vars, IInv, TypeOK, FiringMapAgrees, NoRepeatWithoutRecovery, FiresOwed, HeldSince,
              StoreFaithful, metrics, memory, store, ghosts
<1> QED
  BY <1>1, <1>2, <1>3, <1>4, <1>5

LEMMA InitIInv == Init => IInv
<1> SUFFICES ASSUME Init PROVE IInv
  OBVIOUS
<1>1. alerts \in [FP -> Alert] /\ rows \in [FP -> RowType]
  BY NoAlertType, RowTyped DEF Init
<1>2. activeSince \in [FP -> OptAge] /\ condTrue \in [FP -> OptAge]
      /\ lastEval \in [Rules -> Age]
  BY AgeFacts DEF Init
<1>3. lapsed \in [save : BOOLEAN, restarts : 0 .. MaxRestarts]
  BY EvaluatorAssumption DEF Init
<1>4. orphans \in [FP -> SUBSET {"pending", "firing"}] /\ fires \in [FP -> Nat]
  BY DEF Init
<1>5. TypeOK
  BY <1>1, <1>2, <1>3, <1>4 DEF Init, TypeOK, OptAge, RowType
<1> QED
  BY <1>5 DEF Init, IInv, FiringMapAgrees, NoRepeatWithoutRecovery,
              FiresOwed, HeldSince, StoreFaithful,
              NoAlert

LEMMA NextIInv == IInv /\ [Next]_vars => IInv'
BY EvaluateIInv, EndRoundIInv, AcknowledgeIInv, TickIInv, RestartIInv,
   EnvironmentIInv DEF Next

LEMMA AlwaysIInv == Spec => []IInv
<1>1. Init => IInv
  BY InitIInv
<1>2. IInv /\ [Next]_vars => IInv'
  BY NextIInv
<1> QED
  BY <1>1, <1>2, PTL DEF Spec

\* The evaluator's maps keep their types.
THEOREM TypeCorrect == Spec => []TypeOK
<1>1. IInv => TypeOK
  BY DEF IInv
<1> QED
  BY <1>1, AlwaysIInv, PTL

\* On all five paths FiringAlerts names exactly the alerts that fire.
THEOREM MapsAgree == Spec => []FiringMapAgrees
<1>1. IInv => FiringMapAgrees
  BY DEF IInv
<1> QED
  BY <1>1, AlwaysIInv, PTL

\* As long as no save fails, the store's row of every alert in memory is up
\* to date, through evaluations, acknowledgements and restarts.
THEOREM RowsFaithful == Spec => []StoreFaithful
<1>1. IInv => StoreFaithful
  BY DEF IInv
<1> QED
  BY <1>1, AlwaysIInv, PTL

\* Between two evaluations that find its condition not to hold, an alert goes
\* to firing once, and once more for each restart.
THEOREM NoRepeat == Spec => []NoRepeatWithoutRecovery
<1>1. IInv => NoRepeatWithoutRecovery
  BY DEF IInv
<1> QED
  BY <1>1, AlwaysIInv, PTL

-----------------------------------------------------------------------------
(* ForDuration. *)

\* Only an evaluation makes an alert firing.
LEMMA OnlyEvaluationFires ==
    ASSUME IInv, [Next]_vars, NEW f \in FP,
           alerts[f].state # "firing", alerts'[f].state = "firing"
    PROVE  f[1] \in Rules /\ Processes(f[1])
<1>1. alerts'[f] # alerts[f]
  OBVIOUS
<1>2. CASE \E r \in Rules : EvaluateRule(r)
  <2>1. PICK r \in Rules : EvaluateRule(r)
    BY <1>2
  <2>2. Processes(r)
    BY <1>1, <2>1 DEF EvaluateRule, Processes
  <2>3. alerts'[f] = IF f[1] = r THEN NewAlert(r, f) ELSE alerts[f]
    BY <2>2, ProcessedAlerts
  <2> QED
    BY <1>1, <2>2, <2>3
<1>3. CASE EndRound
  BY <1>1, <1>3 DEF EndRound, NoAlert
<1>4. CASE Restart
  BY <1>4 DEF Restart, NoAlert
<1>5. CASE Tick
  <2>1. alerts'[f].state = alerts[f].state
    BY <1>5 DEF Tick, IInv, TypeOK, Alert
  <2> QED
    BY <2>1
<1>6. CASE \E g \in FP : Acknowledge(g)
  <2>1. alerts'[f].state = alerts[f].state
    BY <1>6 DEF Acknowledge, IInv, TypeOK, Alert
  <2> QED
    BY <2>1
<1>7. CASE StartRound \/ Metrics \/ Silence \/ EnableRule \/ UNCHANGED vars
  BY <1>1, <1>7 DEF StartRound, Metrics, Silence, EnableRule, vars, memory
<1> QED
  BY <1>2, <1>3, <1>4, <1>5, <1>6, <1>7 DEF Next

LEMMA ForDurationStep ==
    ASSUME IInv, [Next]_vars, NEW f \in FP,
           alerts[f].state # "firing", alerts'[f].state = "firing"
    PROVE  condTrue'[f] >= ForDuration[f[1]]
<1> DEFINE r == f[1]
<1>1. r \in Rules /\ Processes(r)
  BY OnlyEvaluationFires
<1> HIDE DEF r
<1>2. f[1] = r
  BY DEF r
<1>3. alerts'[f] = NewAlert(r, f)
  BY <1>1, <1>2, ProcessedAlerts
<1>4. alerts[f] \in Alert /\ Resolve(alerts[f]).state # "firing"
  BY ResolveFacts DEF IInv, TypeOK
<1>5. f \in Seen(r) /\ Firing(r, f)
  BY <1>3, <1>4 DEF NewAlert, UnseenResult
<1>6. ShouldFire(r, f)
  BY <1>1, <1>3, <1>5, FiringResultFacts DEF NewAlert, IInv
<1>7. lastEval[r] \in Int /\ EvalInterval[r] \in Int
  BY <1>1, DueFacts DEF IInv
<1>8. condTrue'[f] = IF condTrue[f] = Absent THEN 0 ELSE condTrue[f]
  BY <1>1, <1>2, <1>5, <1>7 DEF Processes, EvaluateRule
<1>9. /\ activeSince[f] \in OptAge /\ condTrue[f] \in OptAge
      /\ activeSince[f] # Absent =>
            condTrue[f] # Absent /\ condTrue[f] >= activeSince[f]
  BY DEF IInv, TypeOK, HeldSince, OptAge
<1>10. ForDuration[r] \in Int /\ AgeCap \in Int
  BY <1>1, EvaluatorAssumption
<1>11. condTrue'[f] >= ActiveNow(f) /\ condTrue'[f] \in Int /\ ActiveNow(f) \in Int
  BY <1>8, <1>9, <1>10 DEF ActiveNow, OptAge, Age, Absent
<1> QED
  BY <1>2, <1>6, <1>10, <1>11 DEF ShouldFire

\* An alert fires only if an evaluation at least ForDuration ago saw its
\* condition hold and no evaluation since has found it not to hold.
THEOREM ForDurationKept == Spec => ForDurationHonoured
<1>1. IInv /\ [Next]_vars =>
        [\A f \in FP :
           alerts[f].state # "firing" /\ alerts'[f].state = "firing"
              => condTrue'[f] >= ForDuration[f[1]]]_vars
  BY ForDurationStep
<1> QED
  BY <1>1, AlwaysIInv, PTL DEF Spec, ForDurationHonoured
=============================================================================
