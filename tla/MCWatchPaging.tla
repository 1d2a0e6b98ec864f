--------------------------- MODULE MCWatchPaging ---------------------------
(* WatchPaging for TLC.                                                    *)
EXTENDS WatchPaging
=============================================================================
