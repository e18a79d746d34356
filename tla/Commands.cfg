SPECIFICATION Spec
CONSTANTS
    c1 = c1
    c2 = c2
    c3 = c3
    r1 = r1
    r2 = r2
    k1 = k1
    b1 = b1
    b2 = b2
    Calls = {c1, c2, c3}
    Requests = {r1, r2}
    Keys = {k1}
    Bodies = {b1, b2}
    MaxStalls = 1
SYMMETRY MCSymmetry
CHECK_DEADLOCK FALSE
INVARIANTS
    TypeOK
    AppliedOnce
    AnswerIsTrue
    CommittedIsReplayed
    DecisionStands
PROPERTIES
    OutcomeIsFinal
