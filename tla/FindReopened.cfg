SPECIFICATION Spec
CONSTANTS
    States <- MCTwoStates
    Initial = "build"
    NoState = "none"
    Gates = {}
    Ends <- MCEnds
    Tasks <- MCOneTask
    Phases <- MCTwoPhases
    Rework <- MCNoRework
    Moves <- MCTwoMoves
    LoopMax <- MCLoopThrice
    t1 = t1
    t2 = t2
    t3 = t3
    MaxStages = 5
    MaxCommands = 4
    MaxRestarts = 0
    MaxQueue = 0
CONSTRAINT MCUnsettled
CHECK_DEADLOCK FALSE
PROPERTY CompletedIsTerminal
