---------------------------- MODULE TailSampler ----------------------------
(***************************************************************************)
(* Tail-based sampling of traces: internal/sampling/tail.go, the manager   *)
(* that starts, stops and replaces the sampler (manager.go), the adapter   *)
(* (adapter.go) and the OTLP receiver that asks it about every span        *)
(* (internal/otlp/traces.go).                                              *)
(*                                                                         *)
(* Receivers are gRPC and HTTP handlers.  ProcessSpan holds the manager's  *)
(* mutex for reading while ShouldSample runs; Stop holds it for writing    *)
(* while it flushes.  The cleanup loop takes quiet traces out of the map   *)
(* under tracesMu and finalizes them after, also when its sampler has been *)
(* stopped meanwhile.  The counters are atomics that are added to one by   *)
(* one: a call of ShouldSample or finalizeTrace can be seen between.       *)
(*                                                                         *)
(* The rules of makeDecision that look at the spans (error, latency,       *)
(* priority service, each at rate 1) are the set Marked, the hash of the   *)
(* trace's id under the default rate is the set Lucky.                     *)
(***************************************************************************)
EXTENDS Integers, FiniteSets

CONSTANTS
    Spans, Traces, Trace, Marked,
    Lucky,              \* the traces the default rate keeps
    Unstorable,         \* the spans for which RecordSpan returns an error
    Receivers,
    MaxBufferedTraces,
    MaxSpansPerTrace,
    MaxUpdates          \* bound: UpdateConfig calls

ASSUME SamplerAssumption ==
    /\ IsFiniteSet(Spans) /\ IsFiniteSet(Traces)
    /\ Receivers \cap {"loop", "stop", "gone"} = {}
    /\ Trace \in [Spans -> Traces] /\ Marked \subseteq Spans /\ Lucky \subseteq Traces
    /\ Unstorable \subseteq Spans
    /\ MaxBufferedTraces \in Nat \ {0} /\ MaxSpansPerTrace \in Nat \ {0}
    /\ MaxUpdates \in Nat

VARIABLES
    sampler,     \* the manager's tailSampler: "on", "stopping", "off"
    call,        \* what a receiver is doing
    traces,      \* ts.traces: the spans of a trace's buffer
    firstSeen,   \* the buffers by FirstSeen, 1 the latest; 0: no buffer
    quiet,       \* the traces not updated for BufferTimeout
    taken,       \* buffers out of the map that wait for finalizeTrace
    owing,       \* buffers decided on, whose spans still count as deferred
    counters,    \* the sampler's counters
    kept, dropped, refused,  \* what became of the spans
    passed,      \* spans received while there was no sampler
    stored,      \* the spans in the trace store
    overflow,    \* ghost: how many spans this sampler has refused
    updates

spanFates == <<kept, dropped, refused, passed, stored>>
vars == <<sampler, call, traces, firstSeen, quiet, taken, owing, counters,
          spanFates, overflow, updates>>

Idle == [pc |-> "idle"]
Call == [pc : {"count", "buffer", "store"}, span : Spans]

\* Buffers out of the map, by the goroutine that finalizes them: the cleanup
\* loop, Stop, the loop of a sampler that was stopped, an evicting receiver.
Buffer == [by : {"loop", "stop", "gone"} \cup Receivers, id : Traces,
           spans : SUBSET Spans]
Zero == [total |-> 0, sampled |-> 0, dropped |-> 0, deferred |-> 0]

Buffered == {t \in Traces : firstSeen[t] # 0}
Received ==
    kept \cup dropped \cup refused \cup passed
         \cup (UNION {traces[t] : t \in Traces}) \cup (UNION {b.spans : b \in taken})
         \cup {call[r].span : r \in {q \in Receivers : call[q] # Idle}}

Init ==
    /\ sampler = "on"
    /\ call = [r \in Receivers |-> Idle]
    /\ traces = [t \in Traces |-> {}]
    /\ firstSeen = [t \in Traces |-> 0]
    /\ quiet = {} /\ taken = {} /\ owing = {}
    /\ counters = Zero
    /\ kept = {} /\ dropped = {} /\ refused = {} /\ passed = {} /\ stored = {}
    /\ overflow = 0 /\ updates = 0

-----------------------------------------------------------------------------
(* finalizeTrace.                                                          *)

\* Mutant: HasError is not looked at.
MutKeeps(id, spans) == id \in Lucky

Keeps(id, spans) == spans \cap Marked # {} \/ id \in Lucky

\* The first add.
Counted(c, id, spans) ==
    IF Keeps(id, spans) THEN [c EXCEPT !.sampled = @ + Cardinality(spans)]
                        ELSE [c EXCEPT !.dropped = @ + Cardinality(spans)]

Finalized(id, spans) ==
    /\ kept' = IF Keeps(id, spans) THEN kept \cup spans ELSE kept
    /\ dropped' = IF Keeps(id, spans) THEN dropped ELSE dropped \cup spans
    /\ UNCHANGED <<refused, passed, stored>>

\* Mutant: the spans of a dropped trace stay deferred.
MutUndeferred(c, b) ==
    IF Keeps(b.id, b.spans) THEN [c EXCEPT !.deferred = @ - Cardinality(b.spans)]
                            ELSE c

\* The second add.
Undeferred(c, b) == [c EXCEPT !.deferred = @ - Cardinality(b.spans)]

-----------------------------------------------------------------------------
(* A receiver: ProcessSpan, ShouldSample, bufferSpan, RecordSpan.          *)

\* There is no sampler while UpdateConfig replaces it: DecisionKeep.
ProcessUnsampled(r, s) ==
    /\ call[r] = Idle /\ s \notin Received
    /\ sampler = "off"
    /\ call' = [call EXCEPT ![r] = [pc |-> "store", span |-> s]]
    /\ passed' = passed \cup {s}
    /\ UNCHANGED <<sampler, traces, firstSeen, quiet, taken, owing, counters,
                   kept, dropped, refused, stored, overflow, updates>>

\* ShouldSample counts the span ...
ShouldSample(r, s) ==
    /\ call[r] = Idle /\ s \notin Received
    /\ sampler = "on"
    /\ call' = [call EXCEPT ![r] = [pc |-> "count", span |-> s]]
    /\ counters' = [counters EXCEPT !.total = @ + 1]
    /\ UNCHANGED <<sampler, traces, firstSeen, quiet, taken, owing, spanFates,
                   overflow, updates>>

\* ... and counts it as deferred, before it waits for tracesMu.
CountDeferred(r) ==
    /\ call[r].pc = "count"
    /\ call' = [call EXCEPT ![r].pc = "buffer"]
    /\ counters' = [counters EXCEPT !.deferred = @ + 1]
    /\ UNCHANGED <<sampler, traces, firstSeen, quiet, taken, owing, spanFates,
                   overflow, updates>>

\* FirstSeen is time.Now(): the new buffer is the latest.
Stamped(seen, t) ==
    [u \in Traces |-> CASE u = t -> 1
                        [] u # t /\ seen[u] = 0 -> 0
                        [] OTHER -> seen[u] + 1]

Oldest == {t \in Buffered : \A u \in Buffered : firstSeen[u] <= firstSeen[t]}

\* A receiver holds tracesMu while it finalizes the trace it has evicted.
Evicting(r) == \E b \in owing : b.by = r
TracesMuFree == \A r \in Receivers : ~Evicting(r)

Buffering(r) ==
    /\ call[r].pc = "buffer" /\ TracesMuFree
    /\ call' = [call EXCEPT ![r].pc = "store"]

\* The trace has a buffer: AddSpan, or nothing when it is full.
AddSpan(r) ==
    LET s == call[r].span
        t == Trace[s]
        full == Cardinality(traces[t]) >= MaxSpansPerTrace
    IN  /\ Buffering(r)
        /\ t \in Buffered
        /\ traces' = IF full THEN traces ELSE [traces EXCEPT ![t] = @ \cup {s}]
        /\ quiet' = IF full THEN quiet ELSE quiet \ {t}
        /\ refused' = IF full THEN refused \cup {s} ELSE refused
        /\ overflow' = IF full THEN overflow + 1 ELSE overflow
        /\ UNCHANGED <<sampler, firstSeen, taken, owing, counters, kept, dropped,
                       passed, stored, updates>>

NewBuffer(r) ==
    LET s == call[r].span
        t == Trace[s]
    IN  /\ Buffering(r)
        /\ t \notin Buffered /\ Cardinality(Buffered) < MaxBufferedTraces
        /\ traces' = [traces EXCEPT ![t] = {s}]
        /\ firstSeen' = Stamped(firstSeen, t)
        /\ UNCHANGED <<sampler, quiet, taken, owing, counters, spanFates, overflow,
                       updates>>

\* evictOldestTrace finalizes under tracesMu, then the new buffer is added.
\* Nobody sees the map before tracesMu is free.
EvictOldestTrace(r) ==
    LET s == call[r].span
        t == Trace[s]
    IN  /\ Buffering(r)
        /\ t \notin Buffered /\ Cardinality(Buffered) >= MaxBufferedTraces
        /\ \E o \in Oldest :
              /\ traces' = [traces EXCEPT ![o] = {}, ![t] = {s}]
              /\ firstSeen' = Stamped([firstSeen EXCEPT ![o] = 0], t)
              /\ quiet' = quiet \ {o}
              /\ counters' = Counted(counters, o, traces[o])
              /\ owing' = owing \cup {[by |-> r, id |-> o, spans |-> traces[o]]}
              /\ Finalized(o, traces[o])
        /\ UNCHANGED <<sampler, taken, overflow, updates>>

\* The adapter takes DecisionDefer for a yes: the receiver stores the span,
\* or returns the error of RecordSpan.
RecordSpan(r) ==
    /\ call[r].pc = "store" /\ ~Evicting(r)
    /\ stored' = stored \cup ({call[r].span} \ Unstorable)
    /\ call' = [call EXCEPT ![r] = Idle]
    /\ UNCHANGED <<sampler, traces, firstSeen, quiet, taken, owing, counters, kept,
                   dropped, refused, passed, overflow, updates>>

-----------------------------------------------------------------------------
(* The cleanup loop and UpdateConfig.                                      *)

Expires(t) ==
    /\ t \in Buffered \ quiet
    /\ quiet' = quiet \cup {t}
    /\ UNCHANGED <<sampler, call, traces, firstSeen, taken, owing, counters,
                   spanFates, overflow, updates>>

\* Mutant: the time of the last update outlives the buffer.
MutTake(ids, who) ==
    /\ taken' = taken \cup {[by |-> who, id |-> t, spans |-> traces[t]] : t \in ids}
    /\ traces' = [t \in Traces |-> IF t \in ids THEN {} ELSE traces[t]]
    /\ firstSeen' = [t \in Traces |-> IF t \in ids THEN 0 ELSE firstSeen[t]]
    /\ quiet' = quiet

Take(ids, who) ==
    /\ taken' = taken \cup {[by |-> who, id |-> t, spans |-> traces[t]] : t \in ids}
    /\ traces' = [t \in Traces |-> IF t \in ids THEN {} ELSE traces[t]]
    /\ firstSeen' = [t \in Traces |-> IF t \in ids THEN 0 ELSE firstSeen[t]]
    /\ quiet' = quiet \ ids

\* Mutant: a sampler that replaces another has no cleanup loop.
MutProcessTimedOutTraces ==
    /\ sampler = "on" /\ updates = 0
    /\ ~ \E b \in taken \cup owing : b.by = "loop"
    /\ TracesMuFree /\ quiet # {}
    /\ Take(quiet, "loop")
    /\ UNCHANGED <<sampler, call, owing, counters, spanFates, overflow, updates>>

\* The loop begins a round when it has ended the one before.
ProcessTimedOutTraces ==
    /\ sampler = "on"
    /\ ~ \E b \in taken \cup owing : b.by = "loop"
    /\ TracesMuFree /\ quiet # {}
    /\ Take(quiet, "loop")
    /\ UNCHANGED <<sampler, call, owing, counters, spanFates, overflow, updates>>

\* finalizeTrace decides and makes its first add.  Stop and the loop take one
\* buffer after the other.  "gone": its sampler's counters are read no more.
FinalizeTrace(b) ==
    /\ b \in taken /\ ~ \E c \in owing : c.by = b.by
    /\ taken' = taken \ {b} /\ owing' = owing \cup {b}
    /\ counters' = IF b.by = "gone" THEN counters ELSE Counted(counters, b.id, b.spans)
    /\ Finalized(b.id, b.spans)
    /\ UNCHANGED <<sampler, call, traces, firstSeen, quiet, overflow, updates>>

\* The second add, then onKeep: the errors of RecordSpan are dropped.
TraceFinalized(b) ==
    /\ b \in owing
    /\ owing' = owing \ {b}
    /\ counters' = IF b.by = "gone" THEN counters ELSE Undeferred(counters, b)
    /\ stored' = IF Keeps(b.id, b.spans) THEN stored \cup (b.spans \ Unstorable)
                                         ELSE stored
    /\ UNCHANGED <<sampler, call, traces, firstSeen, quiet, taken, kept, dropped,
                   refused, passed, overflow, updates>>

\* UpdateConfig stops the sampler; m.mu waits for the readers.
Stop ==
    /\ sampler = "on" /\ updates < MaxUpdates
    /\ TracesMuFree /\ \A r \in Receivers : call[r].pc \notin {"count", "buffer"}
    /\ sampler' = "stopping"
    /\ updates' = updates + 1
    /\ Take(Buffered, "stop")
    /\ UNCHANGED <<call, owing, counters, spanFates, overflow>>

Stopped ==
    /\ sampler = "stopping"
    /\ ~ \E b \in taken \cup owing : b.by = "stop"
    /\ sampler' = "off"
    /\ taken' = {[b EXCEPT !.by = "gone"] : b \in taken}
    /\ owing' = {[b EXCEPT !.by = "gone"] : b \in owing}
    /\ UNCHANGED <<call, traces, firstSeen, quiet, counters, spanFates, overflow, updates>>

Start ==
    /\ sampler = "off"
    /\ sampler' = "on"
    /\ counters' = Zero
    /\ overflow' = 0
    /\ UNCHANGED <<call, traces, firstSeen, quiet, taken, owing, spanFates, updates>>

-----------------------------------------------------------------------------
BufferSpan(r) == AddSpan(r) \/ NewBuffer(r) \/ EvictOldestTrace(r)

Next ==
    \/ \E r \in Receivers :
          \/ \E s \in Spans : ProcessUnsampled(r, s) \/ ShouldSample(r, s)
          \/ CountDeferred(r) \/ BufferSpan(r) \/ RecordSpan(r)
    \/ \E t \in Traces : Expires(t)
    \/ ProcessTimedOutTraces
    \/ \E b \in taken : FinalizeTrace(b)
    \/ \E b \in owing : TraceFinalized(b)
    \/ Stop \/ Stopped \/ Start

Spec == Init /\ [][Next]_vars

\* A handler that has begun returns, time passes, the ticker fires, and a
\* goroutine that holds buffers finalizes them.
Fairness ==
    /\ \A r \in Receivers :
          WF_vars(CountDeferred(r) \/ BufferSpan(r) \/ RecordSpan(r))
    /\ \A t \in Traces : WF_vars(Expires(t))
    /\ WF_vars(ProcessTimedOutTraces)
    /\ WF_vars(\E b \in taken : FinalizeTrace(b))
    /\ WF_vars(\E b \in owing : TraceFinalized(b))
    /\ WF_vars(Stopped)

FairSpec == Spec /\ Fairness

-----------------------------------------------------------------------------
(* Properties.                                                             *)

\* The variables hold what the code's types allow.
TypeOK ==
    /\ sampler \in {"on", "stopping", "off"}
    /\ \A r \in Receivers : call[r] = Idle \/ call[r] \in Call
    /\ traces \in [Traces -> SUBSET Spans]
    /\ firstSeen \in [Traces -> Nat]
    /\ quiet \subseteq Buffered
    /\ taken \subseteq Buffer /\ owing \subseteq Buffer
    /\ counters \in [total : Nat, sampled : Nat, dropped : Nat, deferred : Nat]
    /\ kept \cup dropped \cup refused \cup passed \cup stored \subseteq Spans
    /\ overflow \in Nat /\ updates \in 0 .. MaxUpdates

\* The spans of this sampler in a buffer, of the map or one of those in out, or
\* on the way into one.
SpansIn(pcs, out) ==
    (UNION {traces[t] : t \in Traces})
      \cup (UNION {b.spans : b \in {c \in out : c.by # "gone"}})
      \cup {call[r].span : r \in {q \in Receivers : call[q].pc \in pcs}}

Undecided == SpansIn({"count", "buffer"}, taken)
Deferred == SpansIn({"buffer"}, taken \cup owing)

\* What GetStats reads, whatever evictions, timeouts and flushes of different
\* goroutines overlap, and between any two of their adds: a span counted is sampled,
\* dropped, undecided yet or was over MaxSpansPerTrace; the deferred ones are
\* those of the last two kinds, up to the adds under way.  With none under way
\* total = sampled + dropped + deferred.  This is about the counters at every
\* moment: one GetStats loads them one by one, with adds between its loads.
StatsAddUp ==
    sampler # "off" =>
        /\ counters.total =
              counters.sampled + counters.dropped + overflow + Cardinality(Undecided)
        /\ counters.deferred = overflow + Cardinality(Deferred)

\* What SpanSampling sees of a span.
Status(s) ==
    CASE s \in kept    -> "kept"
      [] s \in dropped -> "dropped"
      [] s \in refused -> "refused"
      [] s \in passed  -> "passed"
      [] OTHER -> IF s \in Received THEN "held" ELSE "new"

Sampling == INSTANCE SpanSampling WITH status <- [s \in Spans |-> Status(s)]

\* The sampler, its loop and the manager implement SpanSampling: each span is
\* decided once, with spans of its trace only, marked groups are kept, and no
\* restart decides a span twice or forgets it.
ImplementsSampling == Sampling!Spec

\* ShouldSample answers DecisionDefer; the decision comes: by the timeout, by
\* an eviction or by the flush of Stop.
DeferredIsDecided == Sampling!HeldIsSettled
=============================================================================
