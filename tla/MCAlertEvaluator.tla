-------------------------- MODULE MCAlertEvaluator --------------------------
(* Instances of AlertEvaluator for TLC: a threshold rule, an absence rule  *)
(* and a composite over them.                                              *)
EXTENDS AlertEvaluator

MCKind == [r \in Rules |-> CASE r = "cpu" -> "query"
                             [] r = "up"  -> "absence"
                             [] r = "all" -> "and"]
MCSeries == [r \in Rules |-> IF r = "cpu" THEN Labels ELSE {"x"}]
MCSubRules == [r \in Rules |-> IF r = "all" THEN Rules \ {"all"} ELSE {}]
MCNameOrder == [r \in Rules |-> CASE r = "cpu" -> 2
                                  [] r = "up"  -> 3
                                  [] r = "all" -> 1]
MCInterval == [r \in Rules |-> 1]
MCFor == [r \in Rules |-> IF r = "all" THEN 0 ELSE 2]
MCKeep == [r \in Rules |-> IF r = "cpu" THEN 2 ELSE 0]
MCNoKeep == [r \in Rules |-> 0]
=============================================================================
