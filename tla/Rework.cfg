SPECIFICATION Spec
CONSTANTS
    States <- MCStates
    Initial = "build"
    NoState = "none"
    Gates <- MCGates
    Ends <- MCEnds
    Tasks <- MCTasks
    Phases <- MCPhases
    Rework <- MCRework
    Moves <- MCMoves
    LoopMax <- MCLoopOnce
    t1 = t1
    t2 = t2
    t3 = t3
    MaxStages = 3
    MaxCommands = 1
    MaxRestarts = 1
    MaxQueue = 2
SYMMETRY MCSymmetry
CHECK_DEADLOCK FALSE
INVARIANTS
    TypeOK
    NeverStalls
    CompletedIsClean
    SkippedIsInert
    RequestedIsAwaited
PROPERTIES
    CompletedIsFinal
    BudgetHolds
