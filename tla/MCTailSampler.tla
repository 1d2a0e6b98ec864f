--------------------------- MODULE MCTailSampler ---------------------------
(* TailSampler for TLC: a trace with more spans than its buffer holds, one *)
(* of them an error, and a trace that pushes it out.                       *)
EXTENDS TailSampler

MCSpans == 1 .. 4
MCTrace == [s \in MCSpans |-> IF s < 4 THEN "a" ELSE "b"]

\* otlp/traces.go:32, "Drop this span": a span the sampler drops is not in the
\* trace store.
DroppedIsNotStored == dropped \cap stored = {}
=============================================================================
