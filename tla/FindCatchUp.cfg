SPECIFICATION Spec
CONSTANTS
    States <- MCStates
    Initial = "build"
    NoState = "none"
    Gates = {}
    Ends <- MCEnds
    Tasks <- MCTasks
    Phases <- MCLinePhases
    Rework <- MCNoRework
    Moves <- MCLineMoves
    LoopMax <- MCLoopOnce
    t1 = t1
    t2 = t2
    t3 = t3
    MaxStages = 4
    MaxCommands = 2
    MaxRestarts = 1
    MaxQueue = 2
CHECK_DEADLOCK FALSE
INVARIANT CatchUpWakes
