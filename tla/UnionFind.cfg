SPECIFICATION Spec
CONSTANTS
    host = host  user = user
    Entities = {host, user}
    Noise = {}
    MaxDegree = 3
    Window = 1
    NumAlerts = 4
    MaxTime = 2
INVARIANTS
    TypeOK
    ParentsDescend
    GroupsFollowLinks
    GroupsAsPromised
PROPERTIES
    Terminates
CHECK_DEADLOCK FALSE
