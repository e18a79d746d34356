SPECIFICATION FairSpec
CONSTANTS
    q = q
    b1 = b1
    b2 = b2
    c = c
    d1 = d1
    d2 = d2
    NoOp = NoOp
    Ops = {q, d1, d2}
    Queued = {q}
    Admitted = {q}
    ClassOf <- MCClassOf
    LaneOf <- MCLaneOf
    KeyOf <- MCKeyOf
    ObservedAt <- MCObservedAt
    LaneCap = 1
    MergeMax = 1
    MaxKeys = 1
INVARIANTS
    AnswerIsTrue
    ShutdownDrainsClassA
PROPERTIES
    EveryCallerAnswered
