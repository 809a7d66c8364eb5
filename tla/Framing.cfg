\* Callers may stop sending, and then nothing more happens.
CHECK_DEADLOCK FALSE
SPECIFICATION FramingSpec
CONSTANTS
    Writers = {c1, c2}
    p1 = p1
    p2 = p2
    p3 = p3
    Payloads = {p1, p2, p3}
    Size <- MCSize
    MaxSize = 2
    HeaderBytes = 2
    SumBytes = 2
    BufferBytes = 3
    MaxCalls = 3
    None = None
INVARIANTS
    FramingTypeOK
    RefusedForCause
PROPERTIES
    ImplementsChannel
    CallReturns
    SentArrives
