SPECIFICATION Spec
CONSTANTS
    p1 = p1  p2 = p2  host = host  user = user
    Procs = {p1}
    Alerts = {1, 2, 3, 4}
    At <- MCAt
    Keys <- MCKeys
    Severe = {1, 3, 4}
    Files <- MCFiles
    MaxLines = 4
    Periods <- MCPeriods
    Entities = {host, user}
    Noise = {}
    MaxDegree = 2
    Window = 1
    MaxCommands = 4
INVARIANTS
    ClosingWasLogged
CHECK_DEADLOCK FALSE
