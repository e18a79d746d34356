SPECIFICATION Spec
CONSTANTS
    States <- MCStates
    Initial = "build"
    NoState = "none"
    Gates <- MCGates
    Ends <- MCEnds
    Tasks <- MCTasks
    Phases <- MCPhases
    Rework <- MCNoRework
    Moves <- MCMoves
    LoopMax <- MCLoopThrice
    t1 = t1
    t2 = t2
    t3 = t3
    MaxStages = 4
    MaxCommands = 0
    MaxRestarts = 0
    MaxQueue = 2
CHECK_DEADLOCK FALSE
INVARIANT GateRoutes
