----------------------------- MODULE MCTiering -----------------------------
(* Tiering for TLC: retentions of no, one and two ticks; a row whose       *)
(* timestamp does not read back as text passes for a tick younger.         *)
EXTENDS Tiering

MCShift == [r \in Rows |-> IF r \in Parsed THEN 0 ELSE -1]
MCCleanupAge == [r \in Rows |-> 2]

\* Store.cleanup does not run in time.
MCLater == [r \in Rows |-> MaxTime]

\* tiering.go:38, "ColdRetention is how long to keep data in cold storage":
\* no row is gone from all tiers before.
KeptForColdRetention ==
    \A r \in Rows : ts[r] # -1 => Somewhere(r) \/ Expired(ts[r])
=============================================================================
