---------------------------- MODULE SpanSampling ----------------------------
(***************************************************************************)
(* What tail-based sampling promises of the spans it is given, without     *)
(* buffers, locks or goroutines: a span that is accepted is held until it  *)
(* is decided, once and for good, together with other spans of its trace,  *)
(* and a group that holds a marked span (an error, a slow span, a priority *)
(* service) is kept.                                                       *)
(***************************************************************************)
CONSTANTS
    Spans,
    Traces,
    Trace,     \* the trace a span belongs to: [Spans -> Traces]
    Marked     \* the spans that make the sampler keep their group

VARIABLE status

Final == {"passed", "refused", "kept", "dropped"}

Init == status = [s \in Spans |-> "new"]

\* There is no sampler: the span is kept without a decision.
Pass(s) ==
    /\ status[s] = "new"
    /\ status' = [status EXCEPT ![s] = "passed"]

Accept(s) ==
    /\ status[s] = "new"
    /\ status' = [status EXCEPT ![s] = "held"]

\* The trace has too many spans.
Refuse(s) ==
    /\ status[s] = "held"
    /\ status' = [status EXCEPT ![s] = "refused"]

Decide(t, group) ==
    /\ group # {}
    /\ \A s \in group : status[s] = "held" /\ Trace[s] = t
    /\ \E d \in {"kept", "dropped"} :
          /\ group \cap Marked # {} => d = "kept"
          /\ status' = [s \in Spans |-> IF s \in group THEN d ELSE status[s]]

Next ==
    \/ \E s \in Spans : Pass(s) \/ Accept(s) \/ Refuse(s)
    \/ \E t \in Traces, group \in SUBSET Spans : Decide(t, group)

Spec == Init /\ [][Next]_status

\* A span does not stay held.
HeldIsSettled == \A s \in Spans : status[s] = "held" ~> status[s] \in Final
=============================================================================
