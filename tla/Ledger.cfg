SPECIFICATION Spec
CONSTANTS
    a1 = a1
    a2 = a2
    t1 = t1
    t2 = t2
    t3 = t3
    branch = branch
    d1 = d1
    d2 = d2
    NoCall = NoCall
    Agents = {a1, a2}
    Calls = {t1, t2, t3}
    AgentOf <- MCAgentOf
    Targets <- MCTargets
    TargetOf <- MCTargetOf
    Dispositions = {d1, d2}
    MaxRenewals = 1
CHECK_DEADLOCK FALSE
CONSTRAINT FirstEffectsGoWell
SYMMETRY Redelivered
INVARIANTS
    TypeOK
    OneWritePerEffect
    OverlapOnlyIfCleared
    SettledIsTrue
    CompletedIsTrue
PROPERTIES
    DispositionStands
    KeepsPromise
