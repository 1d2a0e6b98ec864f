CONSTANTS
    Spans <- MCSpans
    Traces = {"a", "b"}
    Trace <- MCTrace
    Marked = {3}
    Lucky = {}
    Unstorable = {2}
    Receivers = {"grpc", "http"}
    MaxBufferedTraces = 1
    MaxSpansPerTrace = 2
    MaxUpdates = 1
SPECIFICATION Spec
CHECK_DEADLOCK FALSE
INVARIANT DroppedIsNotStored
