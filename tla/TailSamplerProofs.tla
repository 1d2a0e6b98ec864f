------------------------- MODULE TailSamplerProofs -------------------------
(***************************************************************************)
(* TailSampler implements SpanSampling and its counters add up, for all    *)
(* spans, traces, receivers and limits.                                    *)
(*                                                                         *)
(* A span's status is computed from the sets it is in, so the proof needs  *)
(* that a span is in one place only: on its way into a buffer, in the map, *)
(* in one buffer that was taken out of it, or decided.  IInv says so, and  *)
(* that a receiver about to record a span has left it in one of the other  *)
(* places, so that the end of the call does not change the status.         *)
(***************************************************************************)
EXTENDS TailSampler, FiniteSetTheorems, TLAPS

Typed ==
    /\ call \in [Receivers -> Call \cup {Idle}]
    /\ traces \in [Traces -> SUBSET Spans]
    /\ firstSeen \in [Traces -> Nat]
    /\ taken \subseteq Buffer
    /\ quiet \subseteq Traces

\* The places a span can be in.
Entering(r, s) ==
    r \in Receivers /\ call[r].pc \in {"count", "buffer"} /\ call[r].span = s
InMap(t, s) == t \in Traces /\ s \in traces[t]
InTaken(b, s) == b \in taken /\ s \in b.spans
Decided == kept \cup dropped \cup refused \cup passed
Storing(r, s) == r \in Receivers /\ call[r].pc = "store" /\ call[r].span = s

\* One place at a time.
EnteringAlone ==
    \A r \in Receivers, s \in Spans : Entering(r, s) =>
        /\ s \notin Decided
        /\ \A t \in Traces : ~InMap(t, s)
        /\ \A b \in taken : ~InTaken(b, s)
        /\ \A q \in Receivers : Entering(q, s) => q = r

InMapAlone ==
    \A t \in Traces, s \in Spans : InMap(t, s) =>
        /\ s \notin Decided
        /\ \A b \in taken : ~InTaken(b, s)
        /\ Trace[s] = t

InTakenAlone ==
    \A b \in taken, s \in Spans : InTaken(b, s) =>
        /\ s \notin Decided
        /\ \A c \in taken : InTaken(c, s) => c = b
        /\ Trace[s] = b.id

DecidedOnce ==
    /\ kept \cap dropped = {} /\ kept \cap refused = {} /\ kept \cap passed = {}
    /\ dropped \cap refused = {} /\ dropped \cap passed = {} /\ refused \cap passed = {}

\* What a receiver records is somewhere else already.
StoredElsewhere ==
    \A r \in Receivers, s \in Spans : Storing(r, s) =>
        \/ s \in Decided
        \/ \E t \in Traces : InMap(t, s)
        \/ \E b \in taken : InTaken(b, s)

NoBufferNoSpans == \A t \in Traces : firstSeen[t] = 0 => traces[t] = {}

IInv ==
    /\ Typed
    /\ EnteringAlone /\ InMapAlone /\ InTakenAlone
    /\ DecidedOnce /\ StoredElsewhere /\ NoBufferNoSpans

Held(s) ==
    \/ \E r \in Receivers : Entering(r, s)
    \/ \E t \in Traces : InMap(t, s)
    \/ \E b \in taken : InTaken(b, s)

-----------------------------------------------------------------------------
(* Facts about the definitions.                                            *)

LEMMA IdleIsNoCall ==
    /\ Idle \notin Call
    /\ \A c \in Call : c.pc \in {"count", "buffer", "store"} /\ c.span \in Spans
    /\ Idle.pc = "idle"
BY DEF Idle, Call

LEMMA ReceivedIs ==
    ASSUME Typed, NEW s \in Spans
    PROVE  s \in Received <=>
             s \in Decided \/ Held(s) \/ \E r \in Receivers : Storing(r, s)
<1>1. s \in UNION {traces[t] : t \in Traces} <=> \E t \in Traces : InMap(t, s)
  BY DEF InMap
<1>2. s \in UNION {b.spans : b \in taken} <=> \E b \in taken : InTaken(b, s)
  BY DEF InTaken
<1>3. s \in {call[r].span : r \in {q \in Receivers : call[q] # Idle}} <=>
        \E r \in Receivers : Entering(r, s) \/ Storing(r, s)
  BY IdleIsNoCall DEF Typed, Entering, Storing
<1> QED
  BY <1>1, <1>2, <1>3 DEF Received, Decided, Held

\* With IInv a status depends on the places alone, not on the calls.
LEMMA StatusIs ==
    ASSUME IInv, NEW s \in Spans
    PROVE  Status(s) = CASE s \in kept -> "kept"
                         [] s \in dropped -> "dropped"
                         [] s \in refused -> "refused"
                         [] s \in passed  -> "passed"
                         [] OTHER -> IF Held(s) THEN "held" ELSE "new"
<1>1. s \in Received <=> s \in Decided \/ Held(s)
  BY ReceivedIs DEF IInv, StoredElsewhere, Held
<1> QED
  BY <1>1 DEF Status, Decided

-----------------------------------------------------------------------------
(* IInv is inductive.                                                  *)

LEMMA InitIInv == Init => IInv
<1> SUFFICES ASSUME Init PROVE IInv
  OBVIOUS
<1>1. Typed
  BY SamplerAssumption DEF Init, Typed
<1>2. \A s \in Spans : s \notin Decided /\ ~Held(s) /\ \A r \in Receivers : ~Storing(r, s)
  BY IdleIsNoCall DEF Init, Decided, Held, Entering, InMap, InTaken, Storing
<1> QED
  BY <1>1, <1>2 DEF Init, IInv, Held, EnteringAlone, InMapAlone, InTakenAlone,
     DecidedOnce, StoredElsewhere, NoBufferNoSpans, InMap, InTaken

\* Steps that touch no place.
LEMMA PlacesUnchanged ==
    ASSUME IInv, UNCHANGED <<call, traces, firstSeen, taken, quiet, kept, dropped, refused, passed>>
    PROVE  IInv'
BY DEF IInv, Typed, EnteringAlone, InMapAlone, InTakenAlone, DecidedOnce, StoredElsewhere,
   NoBufferNoSpans, Entering, InMap, InTaken, Decided, Storing

\* A span leaves a call for the rest of bufferSpan.
LEMMA BufferingIs ==
    ASSUME Typed, NEW r \in Receivers, Buffering(r)
    PROVE  LET s == call[r].span
           IN  /\ s \in Spans /\ Trace[s] \in Traces /\ Entering(r, s)
               /\ call' = [call EXCEPT ![r] = [pc |-> "store", span |-> s]]
<1>1. call[r] \in Call
  BY IdleIsNoCall DEF Typed, Buffering
<1>2. [call[r] EXCEPT !.pc = "store"] = [pc |-> "store", span |-> call[r].span]
  BY <1>1 DEF Call
<1> QED
  BY <1>1, <1>2, IdleIsNoCall, SamplerAssumption DEF Buffering, Entering, Typed

LEMMA ProcessUnsampledIInv ==
    ASSUME IInv, NEW r \in Receivers, NEW s \in Spans, ProcessUnsampled(r, s)
    PROVE  IInv'
<1> USE DEF Entering, InMap, InTaken, Decided, Storing, Held, ProcessUnsampled
<1>0. s \notin Decided /\ ~Held(s)
  BY ReceivedIs DEF IInv
<1>1. Typed'
  BY DEF IInv, Typed, Call
<1>2. EnteringAlone'
  BY <1>0, IdleIsNoCall DEF IInv, EnteringAlone, Typed
<1>3. InMapAlone'
  BY <1>0, IdleIsNoCall DEF IInv, InMapAlone, Typed
<1>4. InTakenAlone'
  BY <1>0, IdleIsNoCall DEF IInv, InTakenAlone, Typed
<1>5. DecidedOnce'
  BY <1>0, IdleIsNoCall DEF IInv, DecidedOnce, Typed
<1>6. StoredElsewhere'
  BY <1>0, IdleIsNoCall DEF IInv, StoredElsewhere, Typed
<1>7. NoBufferNoSpans'
  BY <1>0, IdleIsNoCall DEF IInv, NoBufferNoSpans, Typed
<1> QED
  BY <1>1, <1>2, <1>3, <1>4, <1>5, <1>6, <1>7 DEF IInv

LEMMA ShouldSampleIInv ==
    ASSUME IInv, NEW r \in Receivers, NEW s \in Spans, ShouldSample(r, s)
    PROVE  IInv'
<1> USE DEF Entering, InMap, InTaken, Decided, Storing, Held, ShouldSample, spanFates
<1>0. s \notin Decided /\ ~Held(s)
  BY ReceivedIs DEF IInv
<1>1. Typed'
  BY DEF IInv, Typed, Call
<1>2. EnteringAlone'
  BY <1>0, IdleIsNoCall DEF IInv, EnteringAlone, Typed
<1>3. InMapAlone'
  BY <1>0, IdleIsNoCall DEF IInv, InMapAlone, Typed
<1>4. InTakenAlone'
  BY <1>0, IdleIsNoCall DEF IInv, InTakenAlone, Typed
<1>5. DecidedOnce'
  BY <1>0, IdleIsNoCall DEF IInv, DecidedOnce, Typed
<1>6. StoredElsewhere'
  BY <1>0, IdleIsNoCall DEF IInv, StoredElsewhere, Typed
<1>7. NoBufferNoSpans'
  BY <1>0, IdleIsNoCall DEF IInv, NoBufferNoSpans, Typed
<1> QED
  BY <1>1, <1>2, <1>3, <1>4, <1>5, <1>6, <1>7 DEF IInv

LEMMA CountDeferredIs ==
    ASSUME Typed, NEW r \in Receivers, CountDeferred(r)
    PROVE  LET s == call[r].span
           IN  /\ s \in Spans /\ call[r].pc = "count" /\ Entering(r, s)
               /\ call' = [call EXCEPT ![r] = [pc |-> "buffer", span |-> s]]
<1>1. call[r] \in Call
  BY IdleIsNoCall DEF Typed, CountDeferred
<1>2. [call[r] EXCEPT !.pc = "buffer"] = [pc |-> "buffer", span |-> call[r].span]
  BY <1>1 DEF Call
<1> QED
  BY <1>1, <1>2, IdleIsNoCall DEF CountDeferred, Entering, Typed

\* The second add of ShouldSample moves no span.
LEMMA CountDeferredPlaces ==
    ASSUME Typed, NEW r \in Receivers, CountDeferred(r)
    PROVE  /\ Typed'
           /\ \A q \in Receivers, u \in Spans : Entering(q, u)' <=> Entering(q, u)
           /\ \A q \in Receivers, u \in Spans : Storing(q, u)' <=> Storing(q, u)
           /\ UNCHANGED <<traces, firstSeen, taken, quiet, kept, dropped, refused, passed>>
<1>0. PICK s \in Spans :
        /\ s = call[r].span /\ call[r].pc = "count"
        /\ call' = [call EXCEPT ![r] = [pc |-> "buffer", span |-> s]]
  BY CountDeferredIs
<1>1. UNCHANGED <<traces, firstSeen, taken, quiet, kept, dropped, refused, passed>>
  BY DEF CountDeferred, spanFates
<1>2. Typed'
  BY <1>0, <1>1 DEF Typed, Call
<1>3. ASSUME NEW q \in Receivers, NEW u \in Spans
      PROVE  (Entering(q, u)' <=> Entering(q, u)) /\ (Storing(q, u)' <=> Storing(q, u))
  BY <1>0 DEF Entering, Storing, Typed
<1> QED
  BY <1>1, <1>2, <1>3

LEMMA CountDeferredIInv ==
    ASSUME IInv, NEW r \in Receivers, CountDeferred(r)
    PROVE  IInv'
<1>1. /\ Typed'
      /\ \A q \in Receivers, u \in Spans : Entering(q, u)' <=> Entering(q, u)
      /\ \A q \in Receivers, u \in Spans : Storing(q, u)' <=> Storing(q, u)
      /\ UNCHANGED <<traces, firstSeen, taken, quiet, kept, dropped, refused, passed>>
  BY CountDeferredPlaces DEF IInv
<1>2. /\ \A t \in Traces, u \in Spans : InMap(t, u)' <=> InMap(t, u)
      /\ \A b, u : InTaken(b, u)' <=> InTaken(b, u)
      /\ Decided' = Decided
  BY <1>1 DEF InMap, InTaken, Decided
<1> QED
  BY <1>1, <1>2 DEF IInv, EnteringAlone, InMapAlone, InTakenAlone, DecidedOnce,
     StoredElsewhere, NoBufferNoSpans

LEMMA AddSpanIInv ==
    ASSUME IInv, NEW r \in Receivers, AddSpan(r)
    PROVE  IInv'
<1> USE DEF Entering, InMap, InTaken, Decided, Storing, Held, AddSpan
<1> DEFINE s == call[r].span
<1>0. /\ s \in Spans /\ Trace[s] \in Traces /\ Entering(r, s)
      /\ call' = [call EXCEPT ![r] = [pc |-> "store", span |-> s]]
  BY BufferingIs DEF IInv
<1>1. Typed'
  BY <1>0 DEF IInv, Typed, Call
<1>2. EnteringAlone'
  BY <1>0, IdleIsNoCall DEF IInv, EnteringAlone, Typed
<1>3. InMapAlone'
  BY <1>0, IdleIsNoCall DEF IInv, InMapAlone, EnteringAlone, Typed
<1>4. InTakenAlone'
  BY <1>0, IdleIsNoCall DEF IInv, InTakenAlone, EnteringAlone, Typed
<1>5. DecidedOnce'
  BY <1>0, IdleIsNoCall DEF IInv, DecidedOnce, EnteringAlone
<1>6. StoredElsewhere'
  BY <1>0, IdleIsNoCall DEF IInv, StoredElsewhere, Typed
<1>7. NoBufferNoSpans'
  BY <1>0 DEF IInv, NoBufferNoSpans, Typed, Buffered
<1> QED
  BY <1>1, <1>2, <1>3, <1>4, <1>5, <1>6, <1>7 DEF IInv

LEMMA NewBufferIInv ==
    ASSUME IInv, NEW r \in Receivers, NewBuffer(r)
    PROVE  IInv'
<1> USE DEF Entering, InMap, InTaken, Decided, Storing, Held, NewBuffer, spanFates
<1> DEFINE s == call[r].span
<1>0. /\ s \in Spans /\ Trace[s] \in Traces /\ Entering(r, s)
      /\ call' = [call EXCEPT ![r] = [pc |-> "store", span |-> s]]
  BY BufferingIs DEF IInv
<1>a. traces[Trace[s]] = {}
  BY <1>0 DEF IInv, NoBufferNoSpans, Buffered
<1>1. Typed'
  BY <1>0 DEF IInv, Typed, Call, Stamped
<1>2. EnteringAlone'
  BY <1>0, <1>a, IdleIsNoCall DEF IInv, EnteringAlone, Typed
<1>3. InMapAlone'
  BY <1>0, <1>a, IdleIsNoCall DEF IInv, InMapAlone, EnteringAlone, Typed
<1>4. InTakenAlone'
  BY <1>0, <1>a, IdleIsNoCall DEF IInv, InTakenAlone, EnteringAlone, Typed
<1>5. DecidedOnce'
  BY <1>0, <1>a, IdleIsNoCall DEF IInv, DecidedOnce, EnteringAlone
<1>6. StoredElsewhere'
  BY <1>0, <1>a, IdleIsNoCall DEF IInv, StoredElsewhere, Typed
<1>7. NoBufferNoSpans'
  BY <1>0 DEF IInv, NoBufferNoSpans, Typed, Stamped
<1> QED
  BY <1>1, <1>2, <1>3, <1>4, <1>5, <1>6, <1>7 DEF IInv

LEMMA EvictOldestTraceIInv ==
    ASSUME IInv, NEW r \in Receivers, EvictOldestTrace(r)
    PROVE  IInv'
<1> USE DEF Entering, InMap, InTaken, Decided, Storing, Held, EvictOldestTrace, Finalized
<1> DEFINE s == call[r].span
<1>0. /\ s \in Spans /\ Trace[s] \in Traces /\ Entering(r, s)
      /\ call' = [call EXCEPT ![r] = [pc |-> "store", span |-> s]]
  BY BufferingIs DEF IInv
<1>a. traces[Trace[s]] = {}
  BY <1>0 DEF IInv, NoBufferNoSpans, Buffered
<1>b. PICK o \in Oldest :
         /\ traces' = [traces EXCEPT ![o] = {}, ![Trace[s]] = {s}]
         /\ firstSeen' = Stamped([firstSeen EXCEPT ![o] = 0], Trace[s])
         /\ quiet' = quiet \ {o}
         /\ Finalized(o, traces[o])
  OBVIOUS
<1>c. o \in Traces /\ o # Trace[s] /\ taken' = taken
  BY <1>b DEF Oldest, Buffered
<1> HIDE DEF EvictOldestTrace
<1>1. Typed'
  BY <1>0, <1>b, <1>c DEF IInv, Typed, Call, Stamped
<1>2. EnteringAlone'
  BY <1>0, <1>a, <1>b, <1>c, IdleIsNoCall DEF IInv, EnteringAlone, InMapAlone, Typed
<1>3. InMapAlone'
  BY <1>0, <1>a, <1>b, <1>c, IdleIsNoCall DEF IInv, InMapAlone, EnteringAlone, Typed
<1>4. InTakenAlone'
  BY <1>0, <1>a, <1>b, <1>c, IdleIsNoCall DEF IInv, InTakenAlone, EnteringAlone, InMapAlone, Typed
<1>5. DecidedOnce'
  BY <1>0, <1>a, <1>b, <1>c, IdleIsNoCall DEF IInv, DecidedOnce, InMapAlone, Typed
<1>6. StoredElsewhere'
  BY <1>0, <1>a, <1>b, <1>c, IdleIsNoCall DEF IInv, StoredElsewhere, Typed
<1>7. NoBufferNoSpans'
  BY <1>0, <1>b, <1>c DEF IInv, NoBufferNoSpans, Typed, Stamped
<1> QED
  BY <1>1, <1>2, <1>3, <1>4, <1>5, <1>6, <1>7 DEF IInv

LEMMA RecordSpanIInv ==
    ASSUME IInv, NEW r \in Receivers, RecordSpan(r)
    PROVE  IInv'
<1> USE DEF Entering, InMap, InTaken, Decided, Storing, Held, RecordSpan
<1>1. Typed'
  BY IdleIsNoCall DEF IInv, Typed
<1>2. EnteringAlone'
  BY IdleIsNoCall DEF IInv, EnteringAlone, Typed
<1>3. InMapAlone'
  BY IdleIsNoCall DEF IInv, InMapAlone, Typed
<1>4. InTakenAlone'
  BY IdleIsNoCall DEF IInv, InTakenAlone, Typed
<1>5. DecidedOnce'
  BY IdleIsNoCall DEF IInv, DecidedOnce, Typed
<1>6. StoredElsewhere'
  BY IdleIsNoCall DEF IInv, StoredElsewhere, Typed
<1>7. NoBufferNoSpans'
  BY IdleIsNoCall DEF IInv, NoBufferNoSpans, Typed
<1> QED
  BY <1>1, <1>2, <1>3, <1>4, <1>5, <1>6, <1>7 DEF IInv

LEMMA TakeIInv ==
    ASSUME IInv, NEW ids \in SUBSET Traces, NEW who \in {"loop", "stop"}, Take(ids, who),
           UNCHANGED <<call, kept, dropped, refused, passed>>
    PROVE  IInv'
<1> USE DEF Entering, InMap, InTaken, Decided, Storing, Held, Take
<1>0. \A b : b \in taken' <=>
           b \in taken \/ \E t \in ids : b = [by |-> who, id |-> t, spans |-> traces[t]]
  OBVIOUS
<1>a. \A b \in taken', s \in Spans : InTaken(b, s)' =>
           \/ b \in taken /\ InTaken(b, s)
           \/ \E t \in ids : InMap(t, s) /\ b = [by |-> who, id |-> t, spans |-> traces[t]]
  BY <1>0
<1>b. \A t \in Traces, s \in Spans : InMap(t, s)' <=> InMap(t, s) /\ t \notin ids
  BY DEF IInv, Typed
<1>c. \A t \in ids, s \in Spans : InMap(t, s) => \E b \in taken' : InTaken(b, s)'
  <2> SUFFICES ASSUME NEW t \in ids, NEW s \in Spans, InMap(t, s)
               PROVE  \E b \in taken' : InTaken(b, s)'
    OBVIOUS
  <2> DEFINE b == [by |-> who, id |-> t, spans |-> traces[t]]
  <2>1. b \in taken' /\ s \in b.spans
    BY <1>0
  <2> QED
    BY <2>1
<1>1. Typed'
  BY <1>0 DEF IInv, Typed, Buffer
<1>2. EnteringAlone'
  BY <1>0, <1>a, <1>b DEF IInv, EnteringAlone, InMapAlone, Typed
<1>3. InMapAlone'
  BY <1>0, <1>a, <1>b DEF IInv, InMapAlone, EnteringAlone, Typed
<1>4. InTakenAlone'
  BY <1>0, <1>a, <1>b DEF IInv, InTakenAlone, EnteringAlone, InMapAlone, Typed
<1>5. DecidedOnce'
  BY <1>0, <1>a, <1>b DEF IInv, DecidedOnce, InMapAlone, Typed
<1>6. StoredElsewhere'
  BY <1>0, <1>b, <1>c DEF IInv, StoredElsewhere, Typed
<1>7. NoBufferNoSpans'
  BY <1>0, <1>a, <1>b DEF IInv, NoBufferNoSpans, Typed
<1> QED
  BY <1>1, <1>2, <1>3, <1>4, <1>5, <1>6, <1>7 DEF IInv

LEMMA FinalizeTraceIInv ==
    ASSUME IInv, NEW b \in taken, FinalizeTrace(b)
    PROVE  IInv'
<1> USE DEF Entering, InMap, InTaken, Decided, Storing, Held, FinalizeTrace, Finalized
<1>0. b \in Buffer
  BY DEF IInv, Typed
<1>1. Typed'
  BY <1>0 DEF IInv, Typed
<1>2. EnteringAlone'
  BY <1>0 DEF IInv, EnteringAlone, Typed
<1>3. InMapAlone'
  BY <1>0 DEF IInv, InMapAlone, Typed
<1>4. InTakenAlone'
  BY <1>0 DEF IInv, InTakenAlone, Typed
<1>5. DecidedOnce'
  BY <1>0 DEF IInv, DecidedOnce, InTakenAlone, Typed, Buffer
<1>6. StoredElsewhere'
  BY <1>0 DEF IInv, StoredElsewhere, Typed
<1>7. NoBufferNoSpans'
  BY <1>0 DEF IInv, NoBufferNoSpans, Typed
<1> QED
  BY <1>1, <1>2, <1>3, <1>4, <1>5, <1>6, <1>7 DEF IInv

LEMMA StoppedIInv ==
    ASSUME IInv, Stopped
    PROVE  IInv'
<1> USE DEF Entering, InMap, InTaken, Decided, Storing, Held, Stopped, spanFates
<1> DEFINE Gone(b) == [b EXCEPT !.by = "gone"]
<1>0. \A b \in taken : Gone(b) \in Buffer /\ Gone(b).spans = b.spans /\ Gone(b).id = b.id
  BY DEF IInv, Typed, Buffer
<1>a. /\ \A b \in taken : Gone(b) \in taken'
      /\ \A c \in taken' : \E b \in taken : c = Gone(b)
  OBVIOUS
<1>b. \A c \in taken', s \in Spans : InTaken(c, s)' =>
           \E b \in taken : InTaken(b, s) /\ c = Gone(b) /\ c.id = b.id
  <2> SUFFICES ASSUME NEW c \in taken', NEW s \in Spans, InTaken(c, s)'
               PROVE  \E b \in taken : InTaken(b, s) /\ c = Gone(b) /\ c.id = b.id
    OBVIOUS
  <2>1. PICK b \in taken : c = Gone(b)
    BY <1>a
  <2> HIDE DEF Gone
  <2>2. s \in b.spans /\ c.id = b.id
    BY <2>1, <1>0
  <2> QED
    BY <2>1, <2>2
<1> HIDE DEF Gone
<1>1. Typed'
  BY <1>0, <1>a DEF IInv, Typed
<1>2. EnteringAlone'
  BY <1>0, <1>b DEF IInv, EnteringAlone, Typed
<1>3. InMapAlone'
  BY <1>0, <1>b DEF IInv, InMapAlone, Typed
<1>4. InTakenAlone'
  BY <1>0, <1>b DEF IInv, InTakenAlone, Typed
<1>5. DecidedOnce'
  BY <1>0, <1>b DEF IInv, DecidedOnce, Typed
<1>6. StoredElsewhere'
  BY <1>0, <1>a DEF IInv, StoredElsewhere, Typed
<1>7. NoBufferNoSpans'
  BY <1>0, <1>b DEF IInv, NoBufferNoSpans, Typed
<1> QED
  BY <1>1, <1>2, <1>3, <1>4, <1>5, <1>6, <1>7 DEF IInv

LEMMA ExpiresIInv ==
    ASSUME IInv, NEW t \in Traces, Expires(t)
    PROVE  IInv'
<1> USE DEF Entering, InMap, InTaken, Decided, Storing, Held, Expires, spanFates
<1>1. Typed'
  BY IdleIsNoCall DEF IInv, Typed
<1>2. EnteringAlone'
  BY IdleIsNoCall DEF IInv, EnteringAlone, Typed
<1>3. InMapAlone'
  BY IdleIsNoCall DEF IInv, InMapAlone, Typed
<1>4. InTakenAlone'
  BY IdleIsNoCall DEF IInv, InTakenAlone, Typed
<1>5. DecidedOnce'
  BY IdleIsNoCall DEF IInv, DecidedOnce, Typed
<1>6. StoredElsewhere'
  BY IdleIsNoCall DEF IInv, StoredElsewhere, Typed
<1>7. NoBufferNoSpans'
  BY IdleIsNoCall DEF IInv, NoBufferNoSpans, Typed
<1> QED
  BY <1>1, <1>2, <1>3, <1>4, <1>5, <1>6, <1>7 DEF IInv

LEMMA NextIInv == IInv /\ [Next]_vars => IInv'
<1> SUFFICES ASSUME IInv, [Next]_vars PROVE IInv'
  OBVIOUS
<1>1. ASSUME NEW r \in Receivers, NEW s \in Spans,
             ProcessUnsampled(r, s) \/ ShouldSample(r, s)
      PROVE  IInv'
  BY <1>1, ProcessUnsampledIInv, ShouldSampleIInv
<1>2. ASSUME NEW r \in Receivers, CountDeferred(r) \/ BufferSpan(r) \/ RecordSpan(r)
      PROVE  IInv'
  BY <1>2, CountDeferredIInv, AddSpanIInv, NewBufferIInv, EvictOldestTraceIInv,
     RecordSpanIInv DEF BufferSpan
<1>3. ASSUME NEW t \in Traces, Expires(t) PROVE IInv'
  BY <1>3, ExpiresIInv
<1>4. CASE ProcessTimedOutTraces
  <2>1. quiet \subseteq Traces
    BY DEF IInv, Typed
  <2> QED
    BY <1>4, <2>1, TakeIInv DEF ProcessTimedOutTraces, spanFates
<1>5. CASE \E b \in taken : FinalizeTrace(b)
  BY <1>5, FinalizeTraceIInv
<1>10. CASE \E b \in owing : TraceFinalized(b)
  BY <1>10, PlacesUnchanged DEF TraceFinalized
<1>6. CASE Stop
  BY <1>6, TakeIInv DEF Stop, spanFates, Buffered
<1>7. CASE Stopped
  BY <1>7, StoppedIInv
<1>8. CASE Start
  BY <1>8, PlacesUnchanged DEF Start, spanFates
<1>9. CASE UNCHANGED vars
  BY <1>9, PlacesUnchanged DEF vars, spanFates
<1> QED
  BY <1>1, <1>2, <1>3, <1>4, <1>5, <1>6, <1>7, <1>8, <1>9, <1>10 DEF Next

LEMMA AlwaysIInv == Spec => []IInv
<1> QED
  BY InitIInv, NextIInv, PTL DEF Spec

-----------------------------------------------------------------------------
(* Every step is a step of SpanSampling or leaves its status alone.        *)

View == [s \in Spans |-> Status(s)]

StatusByPlace ==
    \A s \in Spans :
        Status(s) = CASE s \in kept -> "kept"
                      [] s \in dropped -> "dropped"
                      [] s \in refused -> "refused"
                      [] s \in passed  -> "passed"
                      [] OTHER -> IF Held(s) THEN "held" ELSE "new"

LEMMA IInvStatus == IInv => StatusByPlace
BY StatusIs DEF StatusByPlace

LEMMA IInvStatusNext == IInv' => StatusByPlace'
BY IInvStatus, PTL

\* Spans may move between the places that hold them.
LEMMA MoveStep ==
    ASSUME StatusByPlace, StatusByPlace', UNCHANGED <<kept, dropped, refused, passed>>,
           \A s \in Spans : Held(s)' <=> Held(s)
    PROVE  UNCHANGED View
<1>1. \A s \in Spans : Status(s)' = Status(s)
  BY DEF StatusByPlace
<1> QED
  BY <1>1 DEF View

LEMMA PassStep ==
    ASSUME StatusByPlace, StatusByPlace', NEW s \in Spans, s \notin Decided, ~Held(s),
           passed' = passed \cup {s}, UNCHANGED <<kept, dropped, refused>>,
           \A u \in Spans : Held(u)' <=> Held(u)
    PROVE  Sampling!Next
<1>1. Status(s) = "new" /\ Status(s)' = "passed"
  BY DEF StatusByPlace, Decided
<1>2. \A u \in Spans \ {s} : Status(u)' = Status(u)
  BY DEF StatusByPlace
<1>3. Sampling!Pass(s)
  BY <1>1, <1>2 DEF Sampling!Pass
<1> QED
  BY <1>3 DEF Sampling!Next

LEMMA AcceptStep ==
    ASSUME StatusByPlace, StatusByPlace', NEW s \in Spans, s \notin Decided, ~Held(s),
           UNCHANGED <<kept, dropped, refused, passed>>,
           \A u \in Spans : Held(u)' <=> Held(u) \/ u = s
    PROVE  Sampling!Next
<1>1. Status(s) = "new" /\ Status(s)' = "held"
  BY DEF StatusByPlace, Decided
<1>2. \A u \in Spans \ {s} : Status(u)' = Status(u)
  BY DEF StatusByPlace
<1>3. Sampling!Accept(s)
  BY <1>1, <1>2 DEF Sampling!Accept
<1> QED
  BY <1>3 DEF Sampling!Next

LEMMA RefuseStep ==
    ASSUME StatusByPlace, StatusByPlace', NEW s \in Spans, s \notin Decided, Held(s),
           refused' = refused \cup {s}, UNCHANGED <<kept, dropped, passed>>,
           \A u \in Spans \ {s} : Held(u)' <=> Held(u)
    PROVE  Sampling!Next
<1>1. Status(s) = "held" /\ Status(s)' = "refused"
  BY DEF StatusByPlace, Decided
<1>2. \A u \in Spans \ {s} : Status(u)' = Status(u)
  BY DEF StatusByPlace
<1>3. Sampling!Refuse(s)
  BY <1>1, <1>2 DEF Sampling!Refuse
<1> QED
  BY <1>3 DEF Sampling!Next

\* finalizeTrace, from the map or after the buffer was taken out of it.
LEMMA DecideStep ==
    ASSUME StatusByPlace, StatusByPlace', NEW t \in Traces, NEW group \in SUBSET Spans,
           \A s \in group : s \notin Decided /\ Held(s) /\ Trace[s] = t,
           Finalized(t, group),
           \A s \in Spans : s \notin group => (Held(s)' <=> Held(s))
    PROVE  Sampling!Next \/ UNCHANGED View
<1> DEFINE d == IF Keeps(t, group) THEN "kept" ELSE "dropped"
<1>1. \A s \in group : Status(s) = "held" /\ Status(s)' = d
  BY DEF StatusByPlace, Decided, Finalized
<1>2. \A s \in Spans \ group : Status(s)' = Status(s)
  BY DEF StatusByPlace, Finalized
<1>3. CASE group = {}
  BY <1>2, <1>3 DEF View
<1>4. CASE group # {}
  <2>1. d \in {"kept", "dropped"} /\ (group \cap Marked # {} => d = "kept")
    BY DEF Keeps
  <2>2. View' = [s \in Spans |-> IF s \in group THEN d ELSE View[s]]
    BY <1>1, <1>2 DEF View
  <2>3. Sampling!Decide(t, group)
    BY <1>1, <1>4, <2>1, <2>2 DEF Sampling!Decide, View
  <2> QED
    BY <2>3 DEF Sampling!Next
<1> QED
  BY <1>3, <1>4

-----------------------------------------------------------------------------
(* The actions, one at a time.                                             *)

LEMMA ProcessUnsampledStep ==
    ASSUME IInv, IInv', NEW r \in Receivers, NEW s \in Spans, ProcessUnsampled(r, s)
    PROVE  Sampling!Next
<1>1. s \notin Decided /\ ~Held(s)
  BY ReceivedIs DEF IInv, ProcessUnsampled
<1>2. \A u \in Spans : Held(u)' <=> Held(u)
  BY IdleIsNoCall DEF ProcessUnsampled, Held, Entering, InMap, InTaken, IInv, Typed
<1> QED
  BY <1>1, <1>2, IInvStatus, IInvStatusNext, PassStep DEF ProcessUnsampled

LEMMA ShouldSampleStep ==
    ASSUME IInv, IInv', NEW r \in Receivers, NEW s \in Spans, ShouldSample(r, s)
    PROVE  Sampling!Next
<1>1. s \notin Decided /\ ~Held(s)
  BY ReceivedIs DEF IInv, ShouldSample
<1>2. \A u \in Spans : Held(u)' <=> Held(u) \/ u = s
  BY IdleIsNoCall DEF ShouldSample, Held, Entering, InMap, InTaken, IInv, Typed
<1> QED
  BY <1>1, <1>2, IInvStatus, IInvStatusNext, AcceptStep DEF ShouldSample, spanFates

LEMMA CountDeferredStep ==
    ASSUME IInv, IInv', NEW r \in Receivers, CountDeferred(r)
    PROVE  UNCHANGED View
<1>1. /\ \A q \in Receivers, u \in Spans : Entering(q, u)' <=> Entering(q, u)
      /\ UNCHANGED <<traces, taken, kept, dropped, refused, passed>>
  BY CountDeferredPlaces DEF IInv
<1>2. \A u \in Spans : Held(u)' <=> Held(u)
  BY <1>1 DEF Held, InMap, InTaken
<1> QED
  BY <1>1, <1>2, IInvStatus, IInvStatusNext, MoveStep

LEMMA AddSpanStep ==
    ASSUME IInv, IInv', NEW r \in Receivers, AddSpan(r)
    PROVE  Sampling!Next \/ UNCHANGED View
<1> DEFINE s == call[r].span
           full == Cardinality(traces[Trace[s]]) >= MaxSpansPerTrace
<1>0. /\ s \in Spans /\ Trace[s] \in Traces /\ Entering(r, s)
      /\ call' = [call EXCEPT ![r] = [pc |-> "store", span |-> s]]
  BY BufferingIs DEF IInv, AddSpan
<1>1. s \notin Decided /\ Held(s)
  BY <1>0 DEF IInv, EnteringAlone, Held
<1>2. /\ traces' = IF full THEN traces ELSE [traces EXCEPT ![Trace[s]] = @ \cup {s}]
      /\ refused' = IF full THEN refused \cup {s} ELSE refused
      /\ UNCHANGED <<taken, kept, dropped, passed>>
  BY DEF AddSpan
<1> HIDE DEF full, s
<1>3. \A u \in Spans \ {s} : Held(u)' <=> Held(u)
  BY <1>0, <1>2 DEF Held, Entering, InMap, InTaken, IInv, Typed
<1>4. CASE full
  BY <1>0, <1>1, <1>2, <1>3, <1>4, IInvStatus, IInvStatusNext, RefuseStep
<1>5. CASE ~full
  <2>1. \A u \in Spans : u = s => Held(u)'
    BY <1>0, <1>2, <1>5 DEF Held, InMap, IInv, Typed
  <2> QED
    BY <2>1, <1>1, <1>2, <1>3, <1>5, IInvStatus, IInvStatusNext, MoveStep
<1> QED
  BY <1>4, <1>5

LEMMA NewBufferStep ==
    ASSUME IInv, IInv', NEW r \in Receivers, NewBuffer(r)
    PROVE  UNCHANGED View
<1> DEFINE s == call[r].span
<1>0. /\ s \in Spans /\ Trace[s] \in Traces /\ Entering(r, s)
      /\ call' = [call EXCEPT ![r] = [pc |-> "store", span |-> s]]
  BY BufferingIs DEF IInv, NewBuffer
<1>1. traces[Trace[s]] = {}
  BY <1>0 DEF IInv, NoBufferNoSpans, Buffered, NewBuffer
<1>2. /\ traces' = [traces EXCEPT ![Trace[s]] = {s}]
      /\ UNCHANGED <<taken, kept, dropped, refused, passed>>
  BY DEF NewBuffer, spanFates
<1> HIDE DEF s
<1>3. \A u \in Spans : Held(u)' <=> Held(u)
  BY <1>0, <1>1, <1>2 DEF Held, Entering, InMap, InTaken, IInv, Typed
<1> QED
  BY <1>2, <1>3, IInvStatus, IInvStatusNext, MoveStep

LEMMA EvictOldestTraceStep ==
    ASSUME IInv, IInv', NEW r \in Receivers, EvictOldestTrace(r)
    PROVE  Sampling!Next \/ UNCHANGED View
<1> DEFINE s == call[r].span
<1>0. /\ s \in Spans /\ Trace[s] \in Traces /\ Entering(r, s)
      /\ call' = [call EXCEPT ![r] = [pc |-> "store", span |-> s]]
  BY BufferingIs DEF IInv, EvictOldestTrace
<1>1. traces[Trace[s]] = {}
  BY <1>0 DEF IInv, NoBufferNoSpans, Buffered, EvictOldestTrace
<1>2. PICK o \in Oldest :
         /\ traces' = [traces EXCEPT ![o] = {}, ![Trace[s]] = {s}]
         /\ Finalized(o, traces[o])
  BY DEF EvictOldestTrace
<1>3. o \in Traces /\ o # Trace[s] /\ taken' = taken
  BY DEF Oldest, Buffered, EvictOldestTrace
<1> HIDE DEF s
<1>4. /\ traces[o] \subseteq Spans
      /\ \A u \in traces[o] : u \notin Decided /\ Held(u) /\ Trace[u] = o
  BY <1>3 DEF IInv, Typed, InMapAlone, InMap, Held
<1>5. \A u \in Spans : u \notin traces[o] => (Held(u)' <=> Held(u))
  BY <1>0, <1>1, <1>2, <1>3 DEF Held, Entering, InMap, InTaken, IInv, Typed
<1> QED
  BY <1>2, <1>3, <1>4, <1>5, IInvStatus, IInvStatusNext, DecideStep

LEMMA RecordSpanStep ==
    ASSUME IInv, IInv', NEW r \in Receivers, RecordSpan(r)
    PROVE  UNCHANGED View
<1>1. \A u \in Spans : Held(u)' <=> Held(u)
  BY IdleIsNoCall DEF RecordSpan, Held, Entering, InMap, InTaken, IInv, Typed
<1> QED
  BY <1>1, IInvStatus, IInvStatusNext, MoveStep DEF RecordSpan

LEMMA TakeStep ==
    ASSUME IInv, IInv', NEW ids \in SUBSET Traces, NEW who, Take(ids, who),
           UNCHANGED <<call, kept, dropped, refused, passed>>
    PROVE  UNCHANGED View
<1> DEFINE Out(t) == [by |-> who, id |-> t, spans |-> traces[t]]
<1>1. \A b : b \in taken' <=> b \in taken \/ \E t \in ids : b = Out(t)
  BY DEF Take
<1>2. \A t \in Traces : Out(t).spans = traces[t]
  OBVIOUS
<1>3. \A t \in Traces, u \in Spans : InMap(t, u)' <=> InMap(t, u) /\ t \notin ids
  BY DEF Take, InMap, IInv, Typed
<1> HIDE DEF Out
<1>4. \A u \in Spans : (\E b \in taken' : InTaken(b, u)') <=>
                       (\E b \in taken : InTaken(b, u)) \/ \E t \in ids : InMap(t, u)
  BY <1>1, <1>2 DEF InTaken, InMap
<1>5. \A u \in Spans : Held(u)' <=> Held(u)
  BY <1>3, <1>4 DEF Held, Entering
<1> QED
  BY <1>5, IInvStatus, IInvStatusNext, MoveStep

LEMMA FinalizeTraceStep ==
    ASSUME IInv, IInv', NEW b \in taken, FinalizeTrace(b)
    PROVE  Sampling!Next \/ UNCHANGED View
<1>1. b.id \in Traces /\ b.spans \subseteq Spans
  BY DEF IInv, Typed, Buffer
<1>2. \A u \in b.spans : u \notin Decided /\ Held(u) /\ Trace[u] = b.id
  BY <1>1 DEF IInv, InTakenAlone, InTaken, Held
<1>3. \A u \in Spans : u \notin b.spans => (Held(u)' <=> Held(u))
  BY DEF FinalizeTrace, Held, Entering, InMap, InTaken
<1>4. Finalized(b.id, b.spans)
  BY DEF FinalizeTrace
<1> QED
  BY <1>1, <1>2, <1>3, <1>4, IInvStatus, IInvStatusNext, DecideStep

LEMMA StoppedStep ==
    ASSUME IInv, IInv', Stopped
    PROVE  UNCHANGED View
<1> DEFINE Gone(b) == [b EXCEPT !.by = "gone"]
<1>1. \A b \in taken : Gone(b).spans = b.spans
  BY DEF IInv, Typed, Buffer
<1>2. \A c : c \in taken' <=> \E b \in taken : c = Gone(b)
  BY DEF Stopped
<1> HIDE DEF Gone
<1>3. \A u \in Spans : (\E c \in taken' : InTaken(c, u)') <=> (\E b \in taken : InTaken(b, u))
  BY <1>1, <1>2 DEF InTaken
<1>4. \A u \in Spans : Held(u)' <=> Held(u)
  BY <1>3 DEF Stopped, Held, Entering, InMap
<1> QED
  BY <1>4, IInvStatus, IInvStatusNext, MoveStep DEF Stopped, spanFates

\* Steps that touch no place.
LEMMA QuietStep ==
    ASSUME IInv, IInv', UNCHANGED <<call, traces, taken, kept, dropped, refused, passed>>
    PROVE  UNCHANGED View
<1>1. \A u \in Spans : Held(u)' <=> Held(u)
  BY DEF Held, Entering, InMap, InTaken
<1> QED
  BY <1>1, IInvStatus, IInvStatusNext, MoveStep

LEMMA NextMaps == IInv /\ IInv' /\ [Next]_vars => Sampling!Next \/ UNCHANGED View
<1> SUFFICES ASSUME IInv, IInv', [Next]_vars
             PROVE  Sampling!Next \/ UNCHANGED View
  OBVIOUS
<1>1. ASSUME NEW r \in Receivers, NEW s \in Spans,
             ProcessUnsampled(r, s) \/ ShouldSample(r, s)
      PROVE  Sampling!Next
  BY <1>1, ProcessUnsampledStep, ShouldSampleStep
<1>2. ASSUME NEW r \in Receivers, CountDeferred(r) \/ BufferSpan(r) \/ RecordSpan(r)
      PROVE  Sampling!Next \/ UNCHANGED View
  BY <1>2, CountDeferredStep, AddSpanStep, NewBufferStep, EvictOldestTraceStep,
     RecordSpanStep DEF BufferSpan
<1>3. ASSUME NEW t \in Traces, Expires(t)
      PROVE  UNCHANGED View
  BY <1>3, QuietStep DEF Expires, spanFates
<1>4. CASE ProcessTimedOutTraces
  <2>1. quiet \subseteq Traces
    BY DEF IInv, Typed
  <2> QED
    BY <1>4, <2>1, TakeStep DEF ProcessTimedOutTraces, spanFates
<1>5. CASE \E b \in taken : FinalizeTrace(b)
  BY <1>5, FinalizeTraceStep
<1>10. CASE \E b \in owing : TraceFinalized(b)
  BY <1>10, QuietStep DEF TraceFinalized
<1>6. CASE Stop
  BY <1>6, TakeStep DEF Stop, spanFates, Buffered
<1>7. CASE Stopped
  BY <1>7, StoppedStep
<1>8. CASE Start
  BY <1>8, QuietStep DEF Start, spanFates
<1>9. CASE UNCHANGED vars
  BY <1>9, QuietStep DEF vars, spanFates
<1> QED
  BY <1>1, <1>2, <1>3, <1>4, <1>5, <1>6, <1>7, <1>8, <1>9, <1>10 DEF Next

LEMMA InitMaps == Init => Sampling!Init
<1> SUFFICES ASSUME Init PROVE Sampling!Init
  OBVIOUS
<1>1. \A s \in Spans : ~Held(s) /\ s \notin Decided
  BY IdleIsNoCall DEF Init, Decided, Held, Entering, InMap, InTaken
<1>2. \A s \in Spans : Status(s) = "new"
  BY <1>1, InitIInv, IInvStatus DEF StatusByPlace, Decided
<1> QED
  BY <1>2 DEF Sampling!Init

\* ImplementsSampling, for all spans, traces, receivers and limits: what
\* bufferSpan, the evictions, the cleanup loop, finalizeTrace and the manager's
\* Stop and Start do to the spans is what SpanSampling allows.
THEOREM Implements == Spec => ImplementsSampling
<1>1. IInv /\ IInv' /\ [Next]_vars => [Sampling!Next]_View
  BY NextMaps
<1> QED
  BY <1>1, InitMaps, AlwaysIInv, PTL DEF Spec, ImplementsSampling, Sampling!Spec, View

-----------------------------------------------------------------------------
(* The manager: a sampler that is being stopped has no buffers and no      *)
(* callers, and once it is off only its old loop still holds some.         *)

Managed ==
    /\ sampler \in {"on", "stopping", "off"}
    /\ quiet \subseteq Buffered
    /\ sampler # "on" =>
          /\ \A r \in Receivers : call[r].pc \notin {"count", "buffer"}
          /\ \A t \in Traces : firstSeen[t] = 0
    /\ sampler = "off" => \A b \in taken \cup owing : b.by = "gone"

LEMMA InitManaged == Init => Managed
BY DEF Init, Managed, Buffered

LEMMA TakeManaged ==
    ASSUME IInv, Managed, NEW ids \in SUBSET Traces, NEW who, Take(ids, who), call' = call,
           sampler = "on",
           \/ sampler' = "on"
           \/ /\ sampler' = "stopping" /\ ids = Buffered
              /\ \A r \in Receivers : call[r].pc \notin {"count", "buffer"}
    PROVE  Managed'
<1>1. \A t \in Traces : firstSeen'[t] = IF t \in ids THEN 0 ELSE firstSeen[t]
  BY DEF Take
<1>2. quiet' \subseteq Buffered'
  BY <1>1 DEF Managed, Take, Buffered
<1>3. sampler' = "stopping" => \A t \in Traces : firstSeen'[t] = 0
  BY <1>1 DEF Buffered
<1> QED
  BY <1>2, <1>3 DEF Managed

LEMMA BufferSpanManaged ==
    ASSUME IInv, Managed, NEW r \in Receivers, BufferSpan(r)
    PROVE  Managed' /\ sampler = "on" /\ sampler' = "on"
<1>1. call[r].pc = "buffer" /\ sampler = "on" /\ sampler' = sampler
  BY DEF BufferSpan, AddSpan, NewBuffer, EvictOldestTrace, Buffering, Managed
<1>2. quiet' \subseteq Buffered'
  <2>1. CASE AddSpan(r)
    BY <2>1 DEF AddSpan, Managed, Buffered
  <2>2. CASE NewBuffer(r)
    <3>1. \A t \in Traces : firstSeen[t] # 0 => firstSeen'[t] # 0
      BY <2>2 DEF NewBuffer, Stamped, IInv, Typed
    <3> QED
      BY <2>2, <3>1 DEF NewBuffer, Managed, Buffered
  <2>3. CASE EvictOldestTrace(r)
    <3>1. PICK o \in Oldest :
            /\ firstSeen' = Stamped([firstSeen EXCEPT ![o] = 0], Trace[call[r].span])
            /\ quiet' = quiet \ {o}
      BY <2>3 DEF EvictOldestTrace
    <3>2. \A t \in Traces : t # o /\ firstSeen[t] # 0 => firstSeen'[t] # 0
      BY <3>1 DEF Stamped, IInv, Typed
    <3> QED
      BY <3>1, <3>2 DEF Managed, Buffered
  <2> QED
    BY <2>1, <2>2, <2>3 DEF BufferSpan
<1> QED
  BY <1>1, <1>2 DEF Managed

LEMMA CountDeferredManaged ==
    ASSUME IInv, Managed, NEW r \in Receivers, CountDeferred(r)
    PROVE  Managed' /\ sampler = "on" /\ sampler' = "on"
<1>1. sampler = "on" /\ UNCHANGED <<sampler, quiet, firstSeen>>
  BY DEF CountDeferred, Managed
<1> QED
  BY <1>1 DEF Managed, Buffered

-----------------------------------------------------------------------------
(* The buffers between the two adds of finalizeTrace.                      *)

InOwing(b, s) == b \in owing /\ s \in b.spans

Owed ==
    /\ owing \subseteq Buffer
    /\ \A b \in owing, s \in Spans : InOwing(b, s) =>
          /\ s \in Decided
          /\ \A c \in owing : InOwing(c, s) => c = b

LEMMA StoppedGone ==
    ASSUME NEW S, S \subseteq Buffer
    PROVE  LET Gone(b) == [b EXCEPT !.by = "gone"]
           IN  \A b \in S : /\ Gone(b) \in Buffer /\ Gone(b).by = "gone"
                            /\ Gone(b).spans = b.spans /\ Gone(b).id = b.id
BY DEF Buffer

LEMMA NextManaged == IInv /\ Owed /\ Managed /\ [Next]_vars => Managed'
<1> SUFFICES ASSUME IInv, Owed, Managed, [Next]_vars PROVE Managed'
  OBVIOUS
<1>1. ASSUME NEW r \in Receivers, NEW s \in Spans,
             ProcessUnsampled(r, s) \/ ShouldSample(r, s)
      PROVE  Managed'
  BY <1>1 DEF ProcessUnsampled, ShouldSample, Managed, Buffered, IInv, Typed
<1>2. ASSUME NEW r \in Receivers, RecordSpan(r) PROVE Managed'
  BY <1>2, IdleIsNoCall DEF RecordSpan, Managed, Buffered, IInv, Typed
<1>3. ASSUME NEW t \in Traces, Expires(t) PROVE Managed'
  BY <1>3 DEF Expires, Managed, Buffered
<1>4. CASE ProcessTimedOutTraces
  <2>1. quiet \subseteq Traces
    BY DEF IInv, Typed
  <2> QED
    BY <1>4, <2>1, TakeManaged DEF ProcessTimedOutTraces
<1>5. ASSUME NEW b \in taken, FinalizeTrace(b) PROVE Managed'
  BY <1>5 DEF FinalizeTrace, Managed, Buffered
<1>6. ASSUME NEW b \in owing, TraceFinalized(b) PROVE Managed'
  BY <1>6 DEF TraceFinalized, Managed, Buffered
<1>7. CASE Stop
  BY <1>7, TakeManaged DEF Stop, Buffered
<1>8. CASE Stopped
  <2>1. \A b \in taken \cup owing : [b EXCEPT !.by = "gone"].by = "gone"
    BY StoppedGone DEF IInv, Typed, Owed
  <2>2. \A c \in taken' \cup owing' : c.by = "gone"
    BY <1>8, <2>1 DEF Stopped
  <2> QED
    BY <1>8, <2>2 DEF Stopped, Managed, Buffered
<1>9. CASE Start
  BY <1>9 DEF Start, Managed, Buffered
<1>10. CASE UNCHANGED vars
  BY <1>10 DEF vars, Managed, Buffered
<1> QED
  BY <1>1, <1>2, <1>3, <1>4, <1>5, <1>6, <1>7, <1>8, <1>9, <1>10, BufferSpanManaged,
     CountDeferredManaged DEF Next

LEMMA OwedLess ==
    ASSUME Owed, owing' \subseteq owing, Decided \subseteq Decided'
    PROVE  Owed'
BY DEF Owed, InOwing

LEMMA OwedMore ==
    ASSUME Owed, NEW b \in Buffer, owing' = owing \cup {b}, Decided \subseteq Decided',
           \A s \in b.spans : s \notin Decided /\ s \in Decided'
    PROVE  Owed'
<1>1. \A c \in owing', s \in Spans : InOwing(c, s)' =>
        (c \in owing /\ InOwing(c, s)) \/ (c = b /\ s \in b.spans)
  BY DEF InOwing
<1>2. \A c \in owing, s \in Spans : InOwing(c, s) => s \in Decided /\ s \notin b.spans
  BY DEF Owed
<1> QED
  BY <1>1, <1>2 DEF Owed

LEMMA FinalizedDecides ==
    ASSUME NEW id, NEW group, Finalized(id, group)
    PROVE  Decided \subseteq Decided' /\ group \subseteq Decided'
BY DEF Finalized, Decided

LEMMA EvictOldestTraceOwed ==
    ASSUME IInv, Owed, NEW r \in Receivers, EvictOldestTrace(r)
    PROVE  Owed'
<1>1. PICK o \in Oldest :
        /\ owing' = owing \cup {[by |-> r, id |-> o, spans |-> traces[o]]}
        /\ Finalized(o, traces[o])
  BY DEF EvictOldestTrace
<1>2. o \in Traces /\ traces[o] \subseteq Spans
  BY DEF Oldest, Buffered, IInv, Typed
<1>3. PICK b \in Buffer : b.spans = traces[o] /\ owing' = owing \cup {b}
  BY <1>1, <1>2 DEF Buffer
<1>4. \A s \in b.spans : s \notin Decided
  BY <1>2, <1>3 DEF IInv, InMapAlone, InMap
<1> QED
  BY <1>1, <1>3, <1>4, FinalizedDecides, OwedMore

LEMMA FinalizeTraceOwed ==
    ASSUME IInv, Owed, NEW b \in taken, FinalizeTrace(b)
    PROVE  Owed'
<1>1. /\ b \in Buffer /\ b.spans \subseteq Spans
      /\ owing' = owing \cup {b} /\ Finalized(b.id, b.spans)
  BY DEF FinalizeTrace, IInv, Typed, Buffer
<1>2. \A s \in b.spans : s \notin Decided
  BY <1>1 DEF IInv, InTakenAlone, InTaken
<1> QED
  BY <1>1, <1>2, FinalizedDecides, OwedMore

LEMMA StoppedOwed ==
    ASSUME IInv, Owed, Stopped
    PROVE  Owed'
<1> DEFINE Gone(b) == [b EXCEPT !.by = "gone"]
<1>1. \A b \in owing : Gone(b) \in Buffer /\ Gone(b).spans = b.spans
  BY StoppedGone DEF Owed
<1>2. \A c \in owing' : \E b \in owing : c = Gone(b)
  BY DEF Stopped
<1>3. Decided' = Decided
  BY DEF Stopped, spanFates, Decided
<1> HIDE DEF Gone
<1>4. owing' \subseteq Buffer
  BY <1>1, <1>2
<1>5. ASSUME NEW c \in owing', NEW d \in owing', NEW s \in Spans, InOwing(c, s)'
      PROVE  s \in Decided /\ (InOwing(d, s)' => d = c)
  <2>1. PICK b \in owing : c = Gone(b)
    BY <1>2
  <2>2. PICK a \in owing : d = Gone(a)
    BY <1>2
  <2>3. InOwing(b, s) /\ (InOwing(d, s)' => InOwing(a, s))
    BY <1>1, <1>5, <2>1, <2>2 DEF InOwing
  <2> QED
    BY <2>1, <2>2, <2>3 DEF Owed
<1> QED
  BY <1>3, <1>4, <1>5 DEF Owed

LEMMA NextOwed == IInv /\ Owed /\ [Next]_vars => Owed'
<1> SUFFICES ASSUME IInv, Owed, [Next]_vars PROVE Owed'
  OBVIOUS
<1>1. ASSUME NEW r \in Receivers, NEW s \in Spans,
             ProcessUnsampled(r, s) \/ ShouldSample(r, s)
      PROVE  Owed'
  BY <1>1, OwedLess DEF ProcessUnsampled, ShouldSample, spanFates, Decided
<1>2. ASSUME NEW r \in Receivers, CountDeferred(r) \/ AddSpan(r) \/ NewBuffer(r) \/ RecordSpan(r)
      PROVE  Owed'
  BY <1>2, OwedLess DEF CountDeferred, AddSpan, NewBuffer, RecordSpan, spanFates, Decided
<1>3. CASE \/ \E t \in Traces : Expires(t)
           \/ \E b \in owing : TraceFinalized(b)
           \/ ProcessTimedOutTraces \/ Stop \/ Start \/ UNCHANGED vars
  BY <1>3, OwedLess
  DEF Expires, TraceFinalized, ProcessTimedOutTraces, Stop, Start, vars, spanFates, Decided
<1> QED
  BY <1>1, <1>2, <1>3, EvictOldestTraceOwed, FinalizeTraceOwed, StoppedOwed
  DEF Next, BufferSpan

LEMMA InitOwed == Init => Owed
BY DEF Init, Owed

-----------------------------------------------------------------------------
(* The counters.  Undecided and Deferred, by place.                        *)

Counters == [total : Nat, sampled : Nat, dropped : Nat, deferred : Nat]

Accounts ==
    /\ counters \in Counters /\ overflow \in Nat
    /\ StatsAddUp

Waiting(r, s) == r \in Receivers /\ call[r].pc = "buffer" /\ call[r].span = s

UndecidedAt(s) ==
    \/ \E r \in Receivers : Entering(r, s)
    \/ \E t \in Traces : InMap(t, s)
    \/ \E b \in taken : b.by # "gone" /\ InTaken(b, s)

DeferredAt(s) ==
    \/ \E r \in Receivers : Waiting(r, s)
    \/ \E t \in Traces : InMap(t, s)
    \/ \E b \in taken : b.by # "gone" /\ InTaken(b, s)
    \/ \E b \in owing : b.by # "gone" /\ InOwing(b, s)

ByPlace ==
    /\ Undecided \subseteq Spans /\ IsFiniteSet(Undecided) /\ Cardinality(Undecided) \in Nat
    /\ Deferred \subseteq Spans /\ IsFiniteSet(Deferred) /\ Cardinality(Deferred) \in Nat
    /\ \A s \in Spans : s \in Undecided <=> UndecidedAt(s)
    /\ \A s \in Spans : s \in Deferred <=> DeferredAt(s)

LEMMA PlacesAre == IInv /\ Owed => ByPlace
<1> SUFFICES ASSUME IInv, Owed PROVE ByPlace
  OBVIOUS
<1>1. \A s : s \in UNION {traces[t] : t \in Traces} <=> \E t \in Traces : InMap(t, s)
  BY DEF InMap
<1>2. \A s : s \in UNION {b.spans : b \in {c \in taken : c.by # "gone"}} <=>
              \E b \in taken : b.by # "gone" /\ InTaken(b, s)
  BY DEF InTaken
<1>3. \A s : s \in UNION {b.spans : b \in {c \in taken \cup owing : c.by # "gone"}} <=>
              \/ \E b \in taken : b.by # "gone" /\ InTaken(b, s)
              \/ \E b \in owing : b.by # "gone" /\ InOwing(b, s)
  BY DEF InTaken, InOwing
<1>4. \A s : s \in {call[r].span : r \in {q \in Receivers : call[q].pc \in {"count", "buffer"}}}
              <=> \E r \in Receivers : Entering(r, s)
  BY DEF Entering
<1>5. \A s : s \in {call[r].span : r \in {q \in Receivers : call[q].pc \in {"buffer"}}}
              <=> \E r \in Receivers : Waiting(r, s)
  BY DEF Waiting
<1>6. \A s : s \in Undecided <=> UndecidedAt(s)
  BY <1>1, <1>2, <1>4 DEF Undecided, SpansIn, UndecidedAt
<1>7. \A s : s \in Deferred <=> DeferredAt(s)
  BY <1>1, <1>3, <1>5 DEF Deferred, SpansIn, DeferredAt
<1>8. \A s : UndecidedAt(s) \/ DeferredAt(s) => s \in Spans
  BY IdleIsNoCall DEF UndecidedAt, DeferredAt, Entering, Waiting, InMap, InTaken, InOwing,
     IInv, Typed, Owed, Buffer
<1>9. Undecided \subseteq Spans /\ Deferred \subseteq Spans
  BY <1>6, <1>7, <1>8
<1>10. /\ IsFiniteSet(Undecided) /\ Cardinality(Undecided) \in Nat
       /\ IsFiniteSet(Deferred) /\ Cardinality(Deferred) \in Nat
  BY <1>9, SamplerAssumption, FS_Subset, FS_CardinalityType
<1> QED
  BY <1>6, <1>7, <1>9, <1>10 DEF ByPlace

LEMMA PlacesAreNext == IInv' /\ Owed' => ByPlace'
BY PlacesAre, PTL

LEMMA CardinalityLess ==
    ASSUME NEW S, IsFiniteSet(S), NEW T, T \subseteq S
    PROVE  /\ Cardinality(S) \in Nat /\ Cardinality(T) \in Nat
           /\ Cardinality(T) <= Cardinality(S)
           /\ Cardinality(S \ T) = Cardinality(S) - Cardinality(T)
<1>1. S \cap T = T
  OBVIOUS
<1>2. Cardinality(S \ T) = Cardinality(S) - Cardinality(S \cap T)
  BY FS_Difference
<1>3. IsFiniteSet(T) /\ Cardinality(T) <= Cardinality(S)
  BY FS_Subset
<1>4. Cardinality(S) \in Nat /\ Cardinality(T) \in Nat
  BY <1>3, FS_CardinalityType
<1> QED
  BY <1>1, <1>2, <1>3, <1>4

\* What a step does to the two sets, by what it does to the places.
LEMMA UndecidedSame ==
    ASSUME ByPlace, ByPlace', \A s \in Spans : UndecidedAt(s)' <=> UndecidedAt(s)
    PROVE  Undecided' = Undecided
BY DEF ByPlace

LEMMA DeferredSame ==
    ASSUME ByPlace, ByPlace', \A s \in Spans : DeferredAt(s)' <=> DeferredAt(s)
    PROVE  Deferred' = Deferred
BY DEF ByPlace

LEMMA UndecidedMore ==
    ASSUME ByPlace, ByPlace', NEW s \in Spans, ~UndecidedAt(s),
           \A u \in Spans : UndecidedAt(u)' <=> UndecidedAt(u) \/ u = s
    PROVE  Cardinality(Undecided') = Cardinality(Undecided) + 1
<1>1. Undecided' = Undecided \cup {s} /\ s \notin Undecided
  BY DEF ByPlace
<1> QED
  BY <1>1, FS_AddElement DEF ByPlace

LEMMA DeferredMore ==
    ASSUME ByPlace, ByPlace', NEW s \in Spans, ~DeferredAt(s),
           \A u \in Spans : DeferredAt(u)' <=> DeferredAt(u) \/ u = s
    PROVE  Cardinality(Deferred') = Cardinality(Deferred) + 1
<1>1. Deferred' = Deferred \cup {s} /\ s \notin Deferred
  BY DEF ByPlace
<1> QED
  BY <1>1, FS_AddElement DEF ByPlace

LEMMA UndecidedLess ==
    ASSUME ByPlace, ByPlace', NEW group \in SUBSET Spans, \A s \in group : UndecidedAt(s),
           \A u \in Spans : UndecidedAt(u)' <=> UndecidedAt(u) /\ u \notin group
    PROVE  /\ Cardinality(group) \in Nat
           /\ Cardinality(Undecided') = Cardinality(Undecided) - Cardinality(group)
<1>1. Undecided' = Undecided \ group /\ group \subseteq Undecided
  BY DEF ByPlace
<1> QED
  BY <1>1, CardinalityLess DEF ByPlace

LEMMA DeferredLess ==
    ASSUME ByPlace, ByPlace', NEW group \in SUBSET Spans, \A s \in group : DeferredAt(s),
           \A u \in Spans : DeferredAt(u)' <=> DeferredAt(u) /\ u \notin group
    PROVE  /\ Cardinality(group) \in Nat
           /\ Cardinality(Deferred') = Cardinality(Deferred) - Cardinality(group)
<1>1. Deferred' = Deferred \ group /\ group \subseteq Deferred
  BY DEF ByPlace
<1> QED
  BY <1>1, CardinalityLess DEF ByPlace

\* Spans may move between the places.
LEMMA SameAccounts ==
    ASSUME ByPlace, ByPlace', Accounts, UNCHANGED <<counters, overflow>>,
           sampler' # "off" => sampler # "off",
           sampler' # "off" => \A s \in Spans : /\ UndecidedAt(s)' <=> UndecidedAt(s)
                                                /\ DeferredAt(s)' <=> DeferredAt(s)
    PROVE  Accounts'
<1>1. sampler' # "off" => Undecided' = Undecided /\ Deferred' = Deferred
  BY UndecidedSame, DeferredSame
<1> QED
  BY <1>1 DEF Accounts, StatsAddUp

\* The counters as numbers.
LEMMA CountersAre ==
    ASSUME Accounts
    PROVE  \E to, sa, dr, de \in Nat :
             /\ counters = [total |-> to, sampled |-> sa, dropped |-> dr, deferred |-> de]
             /\ sampler # "off" => /\ to = sa + dr + overflow + Cardinality(Undecided)
                                   /\ de = overflow + Cardinality(Deferred)
<1>1. PICK to, sa, dr, de \in Nat :
        counters = [total |-> to, sampled |-> sa, dropped |-> dr, deferred |-> de]
  BY DEF Accounts, Counters
<1> QED
  BY <1>1 DEF Accounts, StatsAddUp

\* The first add of finalizeTrace.
LEMMA FinalizedAccounts ==
    ASSUME ByPlace, ByPlace', Accounts, sampler # "off", sampler' # "off",
           overflow' = overflow, NEW id, NEW group \in SUBSET Spans,
           counters' = Counted(counters, id, group),
           \A s \in group : UndecidedAt(s),
           \A s \in Spans : UndecidedAt(s)' <=> UndecidedAt(s) /\ s \notin group,
           \A s \in Spans : DeferredAt(s)' <=> DeferredAt(s)
    PROVE  Accounts'
<1>1. PICK n \in Nat :
        /\ n = Cardinality(group)
        /\ Cardinality(Undecided') = Cardinality(Undecided) - n
  BY UndecidedLess
<1>2. PICK to, sa, dr, de \in Nat :
        /\ counters = [total |-> to, sampled |-> sa, dropped |-> dr, deferred |-> de]
        /\ to = sa + dr + overflow + Cardinality(Undecided)
        /\ de = overflow + Cardinality(Deferred)
  BY CountersAre
<1>3. \/ counters' = [total |-> to, sampled |-> sa + n, dropped |-> dr, deferred |-> de]
      \/ counters' = [total |-> to, sampled |-> sa, dropped |-> dr + n, deferred |-> de]
  BY <1>1, <1>2 DEF Counted
<1>4. Cardinality(Undecided) \in Nat /\ overflow \in Nat /\ Deferred' = Deferred
  BY DeferredSame DEF ByPlace, Accounts
<1>5. counters'.total =
        counters'.sampled + counters'.dropped + overflow + Cardinality(Undecided')
  BY <1>1, <1>2, <1>3, <1>4
<1>6. counters' \in Counters /\ counters'.deferred = overflow + Cardinality(Deferred)
  BY <1>1, <1>2, <1>3 DEF Counters
<1> QED
  BY <1>4, <1>5, <1>6 DEF Accounts, StatsAddUp

LEMMA ShouldSampleAccounts ==
    ASSUME IInv, ByPlace, ByPlace', Accounts, NEW r \in Receivers, NEW s \in Spans,
           ShouldSample(r, s)
    PROVE  Accounts'
<1>1. ~UndecidedAt(s)
  BY ReceivedIs DEF IInv, ShouldSample, Held, UndecidedAt
<1>2. \A u \in Spans : UndecidedAt(u)' <=> UndecidedAt(u) \/ u = s
  BY IdleIsNoCall DEF ShouldSample, UndecidedAt, Entering, InMap, InTaken, IInv, Typed
<1>3. \A u \in Spans : DeferredAt(u)' <=> DeferredAt(u)
  BY IdleIsNoCall
  DEF ShouldSample, DeferredAt, Waiting, InMap, InTaken, InOwing, IInv, Typed
<1>4. Cardinality(Undecided') = Cardinality(Undecided) + 1 /\ Deferred' = Deferred
  BY <1>1, <1>2, <1>3, UndecidedMore, DeferredSame
<1>5. PICK to, sa, dr, de \in Nat :
        /\ counters = [total |-> to, sampled |-> sa, dropped |-> dr, deferred |-> de]
        /\ to = sa + dr + overflow + Cardinality(Undecided)
        /\ de = overflow + Cardinality(Deferred)
  BY CountersAre DEF ShouldSample
<1>6. /\ counters' = [total |-> to + 1, sampled |-> sa, dropped |-> dr, deferred |-> de]
      /\ overflow' = overflow
  BY <1>5 DEF ShouldSample
<1>7. Cardinality(Undecided) \in Nat /\ overflow \in Nat
  BY DEF ByPlace, Accounts
<1>8. counters' \in Counters
  BY <1>6 DEF Counters
<1> QED
  BY <1>4, <1>5, <1>6, <1>7, <1>8 DEF Accounts, StatsAddUp

LEMMA CountDeferredAccounts ==
    ASSUME IInv, Owed, Managed, ByPlace, ByPlace', Accounts, NEW r \in Receivers,
           CountDeferred(r)
    PROVE  Accounts'
<1>1. PICK s \in Spans :
        /\ s = call[r].span /\ call[r].pc = "count" /\ Entering(r, s)
        /\ call' = [call EXCEPT ![r] = [pc |-> "buffer", span |-> s]]
  BY CountDeferredIs DEF IInv
<1>2. /\ UNCHANGED <<traces, taken, owing, sampler, overflow>> /\ sampler = "on"
      /\ counters' = [counters EXCEPT !.deferred = @ + 1]
  BY CountDeferredManaged DEF CountDeferred
<1>3. ~DeferredAt(s)
  <2>1. \A q \in Receivers : ~Waiting(q, s)
    BY <1>1 DEF Waiting, Entering, IInv, EnteringAlone
  <2>2. \A b \in owing : ~InOwing(b, s)
    BY <1>1 DEF Owed, IInv, EnteringAlone
  <2> QED
    BY <1>1, <2>1, <2>2 DEF DeferredAt, IInv, EnteringAlone
<1>4. \A u \in Spans : DeferredAt(u)' <=> DeferredAt(u) \/ u = s
  <2>1. \A u \in Spans :
          (\E q \in Receivers : Waiting(q, u)') <=> (\E q \in Receivers : Waiting(q, u)) \/ u = s
    BY <1>1 DEF Waiting, IInv, Typed
  <2> QED
    BY <1>2, <2>1 DEF DeferredAt, InMap, InTaken, InOwing
<1>5. \A u \in Spans : UndecidedAt(u)' <=> UndecidedAt(u)
  BY <1>2, CountDeferredPlaces DEF UndecidedAt, InMap, InTaken, IInv
<1>6. Cardinality(Deferred') = Cardinality(Deferred) + 1 /\ Undecided' = Undecided
  BY <1>3, <1>4, <1>5, DeferredMore, UndecidedSame
<1>7. PICK to, sa, dr, de \in Nat :
        /\ counters = [total |-> to, sampled |-> sa, dropped |-> dr, deferred |-> de]
        /\ to = sa + dr + overflow + Cardinality(Undecided)
        /\ de = overflow + Cardinality(Deferred)
  BY <1>2, CountersAre
<1>8. counters' = [total |-> to, sampled |-> sa, dropped |-> dr, deferred |-> de + 1]
  BY <1>2, <1>7
<1>9. Cardinality(Deferred) \in Nat /\ overflow \in Nat
  BY DEF ByPlace, Accounts
<1>10. counters' \in Counters
  BY <1>8 DEF Counters
<1> QED
  BY <1>2, <1>6, <1>7, <1>8, <1>9, <1>10 DEF Accounts, StatsAddUp

LEMMA AddSpanAccounts ==
    ASSUME IInv, Owed, Managed, ByPlace, ByPlace', Accounts, NEW r \in Receivers, AddSpan(r)
    PROVE  Accounts'
<1>0. PICK s \in Spans :
        /\ s = call[r].span /\ Trace[s] \in Traces /\ Entering(r, s)
        /\ call' = [call EXCEPT ![r] = [pc |-> "store", span |-> s]]
  BY BufferingIs DEF IInv, AddSpan
<1> DEFINE full == Cardinality(traces[Trace[s]]) >= MaxSpansPerTrace
<1>1. Waiting(r, s) /\ UndecidedAt(s) /\ DeferredAt(s) /\ sampler = "on" /\ sampler' = "on"
  BY <1>0, BufferSpanManaged
  DEF UndecidedAt, DeferredAt, Waiting, BufferSpan, AddSpan, Buffering
<1>2. /\ traces' = IF full THEN traces ELSE [traces EXCEPT ![Trace[s]] = @ \cup {s}]
      /\ overflow' = IF full THEN overflow + 1 ELSE overflow
      /\ UNCHANGED <<taken, owing, counters>>
  BY <1>0 DEF AddSpan
<1> HIDE DEF full
<1>3. \A u \in Spans \ {s} : UndecidedAt(u)' <=> UndecidedAt(u)
  BY <1>0, <1>2 DEF UndecidedAt, Entering, InMap, InTaken, IInv, Typed
<1>3d. \A u \in Spans \ {s} : DeferredAt(u)' <=> DeferredAt(u)
  BY <1>0, <1>2 DEF DeferredAt, Waiting, InMap, InTaken, InOwing, IInv, Typed
<1>4. CASE full
  <2>1. ~UndecidedAt(s)' /\ ~DeferredAt(s)'
    <3>1. \A q \in Receivers : ~Entering(q, s)' /\ ~Waiting(q, s)'
      BY <1>0, IdleIsNoCall DEF Entering, Waiting, IInv, EnteringAlone, Typed
    <3>2. \A t \in Traces : ~InMap(t, s)'
      BY <1>0, <1>2, <1>4 DEF IInv, EnteringAlone, InMap
    <3>3. \A b \in taken' : ~InTaken(b, s)'
      BY <1>0, <1>2 DEF IInv, EnteringAlone, InTaken
    <3>4. \A b \in owing' : ~InOwing(b, s)'
      BY <1>0, <1>2 DEF IInv, EnteringAlone, Owed, InOwing
    <3> QED
      BY <3>1, <3>2, <3>3, <3>4 DEF UndecidedAt, DeferredAt
  <2>2. Undecided' = Undecided \ {s} /\ s \in Undecided
    BY <1>0, <1>1, <1>3, <2>1 DEF ByPlace
  <2>3. Deferred' = Deferred \ {s} /\ s \in Deferred
    BY <1>0, <1>1, <1>3d, <2>1 DEF ByPlace
  <2>4. /\ Cardinality(Undecided') = Cardinality(Undecided) - 1
        /\ Cardinality(Deferred') = Cardinality(Deferred) - 1
    BY <2>2, <2>3, FS_RemoveElement DEF ByPlace
  <2>5. overflow' = overflow + 1 /\ overflow \in Nat /\ counters' = counters
    BY <1>2, <1>4 DEF Accounts
  <2>6. PICK to, sa, dr, de \in Nat :
          /\ counters = [total |-> to, sampled |-> sa, dropped |-> dr, deferred |-> de]
          /\ to = sa + dr + overflow + Cardinality(Undecided)
          /\ de = overflow + Cardinality(Deferred)
    BY <1>1, CountersAre
  <2>7. Cardinality(Undecided) \in Nat /\ Cardinality(Deferred) \in Nat
    BY DEF ByPlace
  <2> QED
    BY <2>4, <2>5, <2>6, <2>7 DEF Accounts, StatsAddUp
<1>5. CASE ~full
  <2>1. InMap(Trace[s], s)'
    BY <1>0, <1>2, <1>5 DEF InMap, IInv, Typed
  <2>2. UndecidedAt(s)' /\ DeferredAt(s)'
    BY <1>0, <2>1 DEF UndecidedAt, DeferredAt
  <2>3. \A u \in Spans : /\ UndecidedAt(u)' <=> UndecidedAt(u)
                         /\ DeferredAt(u)' <=> DeferredAt(u)
    <3> SUFFICES ASSUME NEW u \in Spans
                 PROVE  /\ UndecidedAt(u)' <=> UndecidedAt(u)
                        /\ DeferredAt(u)' <=> DeferredAt(u)
      OBVIOUS
    <3>1. CASE u = s
      BY <1>1, <2>2, <3>1
    <3>2. CASE u # s
      BY <1>3, <1>3d, <3>2
    <3> QED
      BY <3>1, <3>2
  <2> QED
    BY <1>1, <1>2, <1>5, <2>3, SameAccounts
<1> QED
  BY <1>4, <1>5

LEMMA NewBufferAccounts ==
    ASSUME IInv, Managed, ByPlace, ByPlace', Accounts, NEW r \in Receivers, NewBuffer(r)
    PROVE  Accounts'
<1>0. PICK s \in Spans :
        /\ s = call[r].span /\ Trace[s] \in Traces /\ Entering(r, s)
        /\ call' = [call EXCEPT ![r] = [pc |-> "store", span |-> s]]
  BY BufferingIs DEF IInv, NewBuffer
<1>1. traces[Trace[s]] = {} /\ sampler = "on" /\ call[r].pc = "buffer"
  BY <1>0, BufferSpanManaged
  DEF IInv, NoBufferNoSpans, Buffered, BufferSpan, NewBuffer, Buffering
<1>2. /\ traces' = [traces EXCEPT ![Trace[s]] = {s}]
      /\ UNCHANGED <<sampler, taken, owing, counters, overflow>>
  BY <1>0 DEF NewBuffer
<1>3. \A u \in Spans : UndecidedAt(u)' <=> UndecidedAt(u)
  BY <1>0, <1>1, <1>2 DEF UndecidedAt, Entering, InMap, InTaken, IInv, Typed
<1>4. \A u \in Spans : DeferredAt(u)' <=> DeferredAt(u)
  BY <1>0, <1>1, <1>2 DEF DeferredAt, Waiting, InMap, InTaken, InOwing, IInv, Typed
<1> QED
  BY <1>1, <1>2, <1>3, <1>4, SameAccounts

LEMMA EvictOldestTraceAccounts ==
    ASSUME IInv, Owed, Managed, ByPlace, ByPlace', Accounts, NEW r \in Receivers,
           EvictOldestTrace(r)
    PROVE  Accounts'
<1>0. PICK s \in Spans :
        /\ s = call[r].span /\ Trace[s] \in Traces /\ Entering(r, s)
        /\ call' = [call EXCEPT ![r] = [pc |-> "store", span |-> s]]
  BY BufferingIs DEF IInv, EvictOldestTrace
<1>1. /\ traces[Trace[s]] = {} /\ sampler = "on" /\ UNCHANGED <<sampler, taken, overflow>>
      /\ call[r].pc = "buffer"
  BY <1>0, BufferSpanManaged
  DEF IInv, NoBufferNoSpans, Buffered, BufferSpan, EvictOldestTrace, Buffering
<1>2. PICK o \in Oldest :
         /\ traces' = [traces EXCEPT ![o] = {}, ![Trace[s]] = {s}]
         /\ counters' = Counted(counters, o, traces[o])
         /\ owing' = owing \cup {[by |-> r, id |-> o, spans |-> traces[o]]}
  BY <1>0 DEF EvictOldestTrace
<1>3. o \in Traces /\ o # Trace[s]
  BY <1>0 DEF Oldest, Buffered, EvictOldestTrace
<1>4. PICK group : group = traces[o]
  OBVIOUS
<1>4b. PICK b : b.spans = group /\ b.by = r /\ owing' = owing \cup {b}
  BY <1>2, <1>4
<1>4c. b.by # "gone"
  BY <1>4b, SamplerAssumption
<1>5. /\ group \in SUBSET Spans /\ s \notin group
      /\ \A u \in group : UndecidedAt(u) /\ DeferredAt(u)
  BY <1>0, <1>3, <1>4 DEF IInv, Typed, EnteringAlone, InMap, UndecidedAt, DeferredAt
<1>6. \A u \in group : ~UndecidedAt(u)'
  <2> SUFFICES ASSUME NEW u \in group PROVE ~UndecidedAt(u)'
    OBVIOUS
  <2>1. InMap(o, u) /\ u \in Spans /\ u # s
    BY <1>3, <1>4, <1>5 DEF InMap
  <2>2. \A q \in Receivers : ~Entering(q, u)'
    BY <1>0, <1>3, <2>1 DEF Entering, IInv, EnteringAlone, Typed
  <2>3. \A t \in Traces : ~InMap(t, u)'
    BY <1>0, <1>1, <1>2, <1>3, <2>1 DEF InMap, IInv, InMapAlone, Typed
  <2>4. \A c \in taken' : ~InTaken(c, u)'
    BY <1>1, <1>3, <2>1 DEF InTaken, IInv, InMapAlone
  <2> QED
    BY <2>2, <2>3, <2>4 DEF UndecidedAt
<1>7. \A u \in Spans : u \notin group => (UndecidedAt(u)' <=> UndecidedAt(u))
  BY <1>0, <1>1, <1>2, <1>3, <1>4 DEF UndecidedAt, Entering, InMap, InTaken, IInv, Typed
<1>8. \A u \in Spans : UndecidedAt(u)' <=> UndecidedAt(u) /\ u \notin group
  BY <1>6, <1>7
<1>9. \A u \in group : DeferredAt(u)'
  <2>1. b \in owing'
    BY <1>4b
  <2> QED
    BY <1>4b, <1>4c, <2>1 DEF DeferredAt, InOwing
<1>10. \A u \in Spans : u \notin group => (DeferredAt(u)' <=> DeferredAt(u))
  <2> SUFFICES ASSUME NEW u \in Spans, u \notin group
               PROVE  DeferredAt(u)' <=> DeferredAt(u)
    OBVIOUS
  <2>1. (\E c \in owing' : c.by # "gone" /\ InOwing(c, u)') <=>
          \E c \in owing : c.by # "gone" /\ InOwing(c, u)
    BY <1>4b DEF InOwing
  <2>2. (\E c \in taken' : c.by # "gone" /\ InTaken(c, u)') <=>
          \E c \in taken : c.by # "gone" /\ InTaken(c, u)
    BY <1>1 DEF InTaken
  <2>3. \A q \in Receivers \ {r} : Waiting(q, u)' <=> Waiting(q, u)
    BY <1>0 DEF Waiting, IInv, Typed
  <2>4. ~Waiting(r, u)' /\ (Waiting(r, u) <=> u = s)
    BY <1>0, <1>1 DEF Waiting, IInv, Typed
  <2>5. \A t \in Traces : InMap(t, u)' <=> InMap(t, u) \/ (t = Trace[s] /\ u = s)
    BY <1>0, <1>1, <1>2, <1>3, <1>4 DEF InMap, IInv, Typed
  <2> QED
    BY <1>0, <2>1, <2>2, <2>3, <2>4, <2>5 DEF DeferredAt
<1>11. \A u \in Spans : DeferredAt(u)' <=> DeferredAt(u)
  BY <1>5, <1>9, <1>10
<1> QED
  BY <1>1, <1>2, <1>4, <1>5, <1>8, <1>11, FinalizedAccounts

LEMMA TakeAccounts ==
    ASSUME IInv, ByPlace, ByPlace', Accounts, NEW ids \in SUBSET Traces,
           NEW who \in {"loop", "stop"}, Take(ids, who), sampler # "off",
           UNCHANGED <<call, owing, counters, overflow>>
    PROVE  Accounts'
<1> DEFINE Out(t) == [by |-> who, id |-> t, spans |-> traces[t]]
<1>1. \A b : b \in taken' <=> b \in taken \/ \E t \in ids : b = Out(t)
  BY DEF Take
<1>2. \A t \in Traces : Out(t).spans = traces[t] /\ Out(t).by # "gone"
  OBVIOUS
<1>3. \A t \in Traces, u \in Spans : InMap(t, u)' <=> InMap(t, u) /\ t \notin ids
  BY DEF Take, InMap, IInv, Typed
<1> HIDE DEF Out
<1>4. \A u \in Spans :
        (\E b \in taken' : b.by # "gone" /\ InTaken(b, u)') <=>
          (\E b \in taken : b.by # "gone" /\ InTaken(b, u)) \/ \E t \in ids : InMap(t, u)
  BY <1>1, <1>2 DEF InTaken, InMap
<1>5. \A u \in Spans : UndecidedAt(u)' <=> UndecidedAt(u)
  BY <1>3, <1>4 DEF UndecidedAt, Entering
<1>6. \A u \in Spans : DeferredAt(u)' <=> DeferredAt(u)
  BY <1>3, <1>4 DEF DeferredAt, Waiting, InOwing
<1> QED
  BY <1>5, <1>6, SameAccounts

LEMMA FinalizeTraceAccounts ==
    ASSUME IInv, Owed, Managed, ByPlace, ByPlace', Accounts, NEW b \in taken,
           FinalizeTrace(b)
    PROVE  Accounts'
<1>1. b.id \in Traces /\ b.spans \in SUBSET Spans
  BY DEF IInv, Typed, Buffer
<1>2. /\ UNCHANGED <<sampler, call, traces, overflow>>
      /\ taken' = taken \ {b} /\ owing' = owing \cup {b}
  BY DEF FinalizeTrace
<1>3. \A u \in Spans : u \notin b.spans => (UndecidedAt(u)' <=> UndecidedAt(u))
  BY <1>2 DEF UndecidedAt, Entering, InMap, InTaken
<1>4. \A u \in b.spans : /\ \A q \in Receivers : ~Entering(q, u)
                         /\ \A t \in Traces : ~InMap(t, u)
                         /\ \A c \in taken : InTaken(c, u) => c = b
  BY <1>1 DEF InTaken, IInv, EnteringAlone, InMapAlone, InTakenAlone
<1>5. \A u \in b.spans : ~UndecidedAt(u)'
  BY <1>2, <1>4 DEF UndecidedAt, Entering, InMap, InTaken
<1>6. \A u \in Spans : DeferredAt(u)' <=> DeferredAt(u)
  <2> SUFFICES ASSUME NEW u \in Spans PROVE DeferredAt(u)' <=> DeferredAt(u)
    OBVIOUS
  <2>1. \/ \E c \in taken' : c.by # "gone" /\ InTaken(c, u)'
        \/ \E c \in owing' : c.by # "gone" /\ InOwing(c, u)'
        <=>
        \/ \E c \in taken : c.by # "gone" /\ InTaken(c, u)
        \/ \E c \in owing : c.by # "gone" /\ InOwing(c, u)
    BY <1>2 DEF InTaken, InOwing
  <2>2. /\ \A q \in Receivers : Waiting(q, u)' <=> Waiting(q, u)
        /\ \A t \in Traces : InMap(t, u)' <=> InMap(t, u)
    BY <1>2 DEF Waiting, InMap
  <2> QED
    BY <2>1, <2>2 DEF DeferredAt
<1>7. CASE b.by = "gone"
  <2>1. \A u \in b.spans : ~UndecidedAt(u)
    BY <1>4, <1>7 DEF UndecidedAt
  <2>2. \A u \in Spans : UndecidedAt(u)' <=> UndecidedAt(u)
    BY <1>3, <1>5, <2>1
  <2> QED
    BY <1>2, <1>6, <1>7, <2>2, SameAccounts DEF FinalizeTrace
<1>8. CASE b.by # "gone"
  <2>1. \A u \in b.spans : UndecidedAt(u)
    BY <1>8 DEF UndecidedAt, InTaken
  <2>2. sampler # "off"
    BY <1>8 DEF Managed
  <2>3. counters' = Counted(counters, b.id, b.spans)
    BY <1>8 DEF FinalizeTrace
  <2>4. \A u \in Spans : UndecidedAt(u)' <=> UndecidedAt(u) /\ u \notin b.spans
    BY <1>3, <1>5
  <2> QED
    BY <1>1, <1>2, <1>6, <2>1, <2>2, <2>3, <2>4, FinalizedAccounts
<1> QED
  BY <1>7, <1>8

\* The second add of finalizeTrace.
LEMMA TraceFinalizedAccounts ==
    ASSUME IInv, Owed, Managed, ByPlace, ByPlace', Accounts, NEW b \in owing,
           TraceFinalized(b)
    PROVE  Accounts'
<1>1. b.spans \in SUBSET Spans
  BY DEF Owed, Buffer
<1>2. UNCHANGED <<sampler, call, traces, taken, overflow>> /\ owing' = owing \ {b}
  BY DEF TraceFinalized
<1>3. \A u \in Spans : UndecidedAt(u)' <=> UndecidedAt(u)
  BY <1>2 DEF UndecidedAt, Entering, InMap, InTaken
<1>4. \A u \in Spans : u \notin b.spans => (DeferredAt(u)' <=> DeferredAt(u))
  BY <1>2 DEF DeferredAt, Waiting, InMap, InTaken, InOwing
<1>5. ASSUME NEW u \in b.spans
      PROVE  /\ \A q \in Receivers : ~Waiting(q, u)
             /\ \A t \in Traces : ~InMap(t, u)
             /\ \A c \in taken : ~InTaken(c, u)
             /\ \A c \in owing : InOwing(c, u) => c = b
  <2>1. u \in Spans /\ u \in Decided
    BY <1>1 DEF Owed, InOwing
  <2>2. \A q \in Receivers : Waiting(q, u) => Entering(q, u)
    BY DEF Waiting, Entering
  <2> QED
    BY <2>1, <2>2 DEF IInv, EnteringAlone, InMapAlone, InTakenAlone, Owed, InOwing
<1>6. \A u \in b.spans : ~DeferredAt(u)'
  BY <1>2, <1>5 DEF DeferredAt, Waiting, InMap, InTaken, InOwing
<1>7. CASE b.by = "gone"
  <2>1. \A u \in b.spans : ~DeferredAt(u)
    BY <1>5, <1>7 DEF DeferredAt
  <2>2. \A u \in Spans : DeferredAt(u)' <=> DeferredAt(u)
    BY <1>4, <1>6, <2>1
  <2> QED
    BY <1>2, <1>3, <1>7, <2>2, SameAccounts DEF TraceFinalized
<1>8. CASE b.by # "gone"
  <2>1. \A u \in b.spans : DeferredAt(u)
    BY <1>8 DEF DeferredAt, InOwing
  <2>2. sampler # "off" /\ Undecided' = Undecided
    BY <1>3, <1>8, UndecidedSame DEF Managed
  <2>3. counters' = Undeferred(counters, b)
    BY <1>8 DEF TraceFinalized
  <2>4. \A u \in Spans : DeferredAt(u)' <=> DeferredAt(u) /\ u \notin b.spans
    BY <1>4, <1>6
  <2>5. PICK n \in Nat :
          n = Cardinality(b.spans) /\ Cardinality(Deferred') = Cardinality(Deferred) - n
    BY <1>1, <2>1, <2>4, DeferredLess
  <2>6. PICK to, sa, dr, de \in Nat :
          /\ counters = [total |-> to, sampled |-> sa, dropped |-> dr, deferred |-> de]
          /\ to = sa + dr + overflow + Cardinality(Undecided)
          /\ de = overflow + Cardinality(Deferred)
    BY <2>2, CountersAre
  <2>7. counters' = [total |-> to, sampled |-> sa, dropped |-> dr, deferred |-> de - n]
    BY <2>3, <2>5, <2>6 DEF Undeferred
  <2>8. /\ Cardinality(Deferred) \in Nat /\ Cardinality(Deferred') \in Nat
        /\ overflow \in Nat /\ overflow' = overflow
    BY <1>2 DEF ByPlace, Accounts
  <2>9. de - n = overflow + Cardinality(Deferred') /\ de - n \in Nat
    BY <2>5, <2>6, <2>8
  <2>10. counters' \in Counters
    BY <2>7, <2>9 DEF Counters
  <2> QED
    BY <2>2, <2>6, <2>7, <2>8, <2>9, <2>10 DEF Accounts, StatsAddUp
<1> QED
  BY <1>7, <1>8

LEMMA StartAccounts ==
    ASSUME IInv, Managed, ByPlace', Start
    PROVE  Accounts'
<1>1. \A u \in Spans : ~UndecidedAt(u)'
  BY DEF Start, Managed, IInv, NoBufferNoSpans, UndecidedAt, Entering, InMap, InTaken
<1>2. \A u \in Spans : ~DeferredAt(u)'
  BY DEF Start, Managed, IInv, NoBufferNoSpans, DeferredAt, Waiting, InMap, InTaken, InOwing
<1>3. Undecided' = {} /\ Deferred' = {}
  BY <1>1, <1>2 DEF ByPlace
<1>4. counters' = Zero /\ overflow' = 0
  BY DEF Start
<1> QED
  BY <1>3, <1>4, FS_EmptySet DEF Accounts, StatsAddUp, Zero, Counters

LEMMA InitAccounts == Init => Accounts
<1> SUFFICES ASSUME Init PROVE Accounts
  OBVIOUS
<1>1. \A u \in Spans : ~UndecidedAt(u) /\ ~DeferredAt(u)
  BY IdleIsNoCall
  DEF Init, UndecidedAt, DeferredAt, Entering, Waiting, InMap, InTaken, InOwing
<1>2. Undecided = {} /\ Deferred = {}
  BY <1>1, InitIInv, InitOwed, PlacesAre DEF ByPlace
<1> QED
  BY <1>2, FS_EmptySet DEF Init, Accounts, StatsAddUp, Zero, Counters

\* Steps that leave the sampler's counters and its spans alone.
LEMMA AsideAccounts ==
    ASSUME IInv, ByPlace, ByPlace', Accounts,
           UNCHANGED <<sampler, traces, taken, owing, counters, overflow>>,
           \A q \in Receivers, u \in Spans : /\ Entering(q, u)' <=> Entering(q, u)
                                             /\ Waiting(q, u)' <=> Waiting(q, u)
    PROVE  Accounts'
<1>1. \A u \in Spans : UndecidedAt(u)' <=> UndecidedAt(u)
  BY DEF UndecidedAt, InMap, InTaken
<1>2. \A u \in Spans : DeferredAt(u)' <=> DeferredAt(u)
  BY DEF DeferredAt, InMap, InTaken, InOwing
<1> QED
  BY <1>1, <1>2, SameAccounts

LEMMA NextAccounts ==
    IInv /\ IInv' /\ Owed /\ Owed' /\ Managed /\ Accounts /\ [Next]_vars => Accounts'
<1> SUFFICES ASSUME IInv, IInv', Owed, Owed', Managed, Accounts, [Next]_vars PROVE Accounts'
  OBVIOUS
<1>0. ByPlace /\ ByPlace'
  BY PlacesAre, PlacesAreNext
<1>1. ASSUME NEW r \in Receivers, NEW s \in Spans, ProcessUnsampled(r, s) PROVE Accounts'
  BY <1>0, <1>1, IdleIsNoCall, AsideAccounts
  DEF ProcessUnsampled, Entering, Waiting, IInv, Typed
<1>2. ASSUME NEW r \in Receivers, NEW s \in Spans, ShouldSample(r, s) PROVE Accounts'
  BY <1>0, <1>2, ShouldSampleAccounts
<1>3. ASSUME NEW r \in Receivers, CountDeferred(r) PROVE Accounts'
  BY <1>0, <1>3, CountDeferredAccounts
<1>4. ASSUME NEW r \in Receivers, BufferSpan(r) PROVE Accounts'
  BY <1>0, <1>4, AddSpanAccounts, NewBufferAccounts, EvictOldestTraceAccounts DEF BufferSpan
<1>5. ASSUME NEW r \in Receivers, RecordSpan(r) PROVE Accounts'
  BY <1>0, <1>5, IdleIsNoCall, AsideAccounts DEF RecordSpan, Entering, Waiting, IInv, Typed
<1>6. CASE (\E t \in Traces : Expires(t)) \/ UNCHANGED vars
  BY <1>0, <1>6, AsideAccounts DEF Expires, vars, Entering, Waiting
<1>7. CASE ProcessTimedOutTraces
  <2>1. quiet \subseteq Traces
    BY DEF IInv, Typed
  <2> QED
    BY <1>0, <1>7, <2>1, TakeAccounts DEF ProcessTimedOutTraces
<1>8. CASE \E b \in taken : FinalizeTrace(b)
  BY <1>0, <1>8, FinalizeTraceAccounts
<1>9. CASE \E b \in owing : TraceFinalized(b)
  BY <1>0, <1>9, TraceFinalizedAccounts
<1>10. CASE Stop
  BY <1>0, <1>10, TakeAccounts DEF Stop, Buffered
<1>11. CASE Stopped
  BY <1>0, <1>11, SameAccounts DEF Stopped
<1>12. CASE Start
  BY <1>0, <1>12, StartAccounts
<1> QED
  BY <1>1, <1>2, <1>3, <1>4, <1>5, <1>6, <1>7, <1>8, <1>9, <1>10, <1>11, <1>12 DEF Next

\* GetStats adds up for every limit and every number of receivers, traces and
\* samplers, and between any two adds to the counters: a span counted in total
\* is sampled, dropped, refused or undecided; deferred counts the refused ones
\* and those that wait in bufferSpan, in a buffer or between the two adds of
\* finalizeTrace.
THEOREM StatsAreRight == Spec => []StatsAddUp
<1>1. Accounts => StatsAddUp
  BY DEF Accounts
<1> QED
  BY <1>1, InitIInv, NextIInv, InitOwed, NextOwed, InitManaged, NextManaged, InitAccounts,
     NextAccounts, PTL DEF Spec

-----------------------------------------------------------------------------
(* TypeOK.                                                                 *)

Fates ==
    /\ kept \cup dropped \cup refused \cup passed \cup stored \subseteq Spans
    /\ updates \in 0 .. MaxUpdates

LEMMA NextFates == IInv /\ Owed /\ Fates /\ [Next]_vars => Fates'
<1> SUFFICES ASSUME IInv, Owed, Fates, [Next]_vars PROVE Fates'
  OBVIOUS
<1>0. /\ \A r \in Receivers : call[r].pc \in {"buffer", "store"} => call[r].span \in Spans
      /\ \A t \in Traces : traces[t] \subseteq Spans
      /\ \A b \in taken \cup owing : b.spans \subseteq Spans
  BY IdleIsNoCall DEF IInv, Typed, Owed, Buffer
<1>1. ASSUME NEW r \in Receivers, NEW s \in Spans,
             ProcessUnsampled(r, s) \/ ShouldSample(r, s)
      PROVE  Fates'
  BY <1>1 DEF ProcessUnsampled, ShouldSample, spanFates, Fates
<1>2. ASSUME NEW r \in Receivers, BufferSpan(r) PROVE Fates'
  BY <1>0, <1>2 DEF BufferSpan, AddSpan, NewBuffer, EvictOldestTrace, Buffering, Finalized,
     Oldest, Buffered, spanFates, Fates
<1>3. ASSUME NEW r \in Receivers, CountDeferred(r) \/ RecordSpan(r) PROVE Fates'
  BY <1>0, <1>3 DEF CountDeferred, RecordSpan, spanFates, Fates
<1>4. ASSUME NEW b \in taken, FinalizeTrace(b) PROVE Fates'
  BY <1>0, <1>4 DEF FinalizeTrace, Finalized, Fates
<1>7. ASSUME NEW b \in owing, TraceFinalized(b) PROVE Fates'
  BY <1>0, <1>7 DEF TraceFinalized, Fates
<1>5. CASE Stop
  BY <1>5, SamplerAssumption DEF Stop, spanFates, Fates
<1>6. CASE \/ \E t \in Traces : Expires(t)
           \/ ProcessTimedOutTraces \/ Stopped \/ Start \/ UNCHANGED vars
  BY <1>6 DEF Expires, ProcessTimedOutTraces, Stopped, Start, vars, spanFates, Fates
<1> QED
  BY <1>1, <1>2, <1>3, <1>4, <1>5, <1>6, <1>7 DEF Next

\* The maps, the buffers and the counters stay well typed; no counter of
\* GetStats is ever negative.
THEOREM TypeCorrect == Spec => []TypeOK
<1>1. Init => Fates
  BY SamplerAssumption DEF Init, Fates
<1>2. IInv /\ Owed /\ Managed /\ Accounts /\ Fates => TypeOK
  BY DEF IInv, Typed, Owed, Managed, Accounts, Counters, Fates, TypeOK
<1> QED
  BY <1>1, <1>2, InitIInv, NextIInv, InitOwed, NextOwed, InitManaged, NextManaged,
     InitAccounts, NextAccounts, NextFates, PTL DEF Spec
=============================================================================
