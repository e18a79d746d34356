SPECIFICATION Spec
CONSTANTS
    States <- MCStates
    Initial = "build"
    NoState = "none"
    Gates <- MCGates
    Ends <- MCEnds
    Tasks <- MCOneTask
    Phases <- MCBarePhases
    Rework <- MCNoRework
    Moves <- MCMoves
    LoopMax <- MCGateOnce
    t1 = t1
    t2 = t2
    t3 = t3
    MaxStages = 3
    MaxCommands = 2
    MaxRestarts = 0
    MaxQueue = 2
CHECK_DEADLOCK FALSE
PROPERTY LoopIsBounded
