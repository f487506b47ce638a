SPECIFICATION MainSpec
CONSTANTS
    gnustl = gnustl
    game = game
    n1 = n1
    n2 = n2
    Boot <- MCBoot
    Names = {n1, n2}
    Images <- MCImages
    Libs <- MCLibs
    Base <- MCBase
    Delay = 2
    Arm = 1
    Limit = 3
    MaxSwaps = 4
    Buttons = {1}
    Sticks = {0, 1, 2}
    Near = {0, 1}
    Fingers = {1, 2, 3}
    MaxReports = 3
    MaxRuns = 3
    MaxFaults = 2
    MaxLines = 1
    Parts = {"loader", "hooks", "loop", "pad", "wait", "log"}
INVARIANTS Transparent NoFalseStall LogKept
PROPERTIES StartsReady WaitEnds LoopResponds InputFollows TranslateStarts
CHECK_DEADLOCK FALSE
