SPECIFICATION Spec
CONSTANTS
    Inputs <- LongRun
    Ways <- NoWays
    MaxBlock = 22
    HashSizes = {1, 97}
    Capacities = {0, 1, 8, 12, 15, 17, 19, 22, 26}
    Accelerations = {1, 3}
    KB64 = 32
    KB4 = 20
    GB1 = 50
    GB2 = 100
    Window = 32
    Slack <- Spare
    Lost = {1, 2, 5, 7, 12}
INVARIANT LastLiteralsKept
CHECK_DEADLOCK FALSE
