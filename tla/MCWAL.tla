------------------------------- MODULE MCWAL -------------------------------
(* WAL for TLC: the .cfg files give the constants.  MCWAL has two          *)
(* checkpoint goroutines (the ticker and ForceCheckpoint), crashes and I/O *)
(* faults; MCWAL_ticker has the ticker alone, for liveness.                *)
EXTENDS WAL
=============================================================================
