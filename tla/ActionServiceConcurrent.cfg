SPECIFICATION TriagedSpec
CONSTANTS
    p1 = p1  p2 = p2
    snapshot = snapshot  isolate = isolate  notify = notify
    alice = alice  sam = sam
    Procs = {p1, p2}
    Actions <- MCActions
    Users = {alice, sam}
    PolicyActor = PolicyActor
    System = System
    Nothing = Nothing
    DependsOn <- MCDependsOn
    ApprovalFree = {notify}
    Policies <- OnlyEqual
    Triages <- MCTriages
    Outcomes = {"ok"}
    MaxClock = 0
    MaxCommands = 4
SYMMETRY Interchangeable
INVARIANTS
    TypeOK
    StartIsApproved
    DependencyRan
    CallNamesApprover
    CallsAreBracketed
    StatusWasLogged
CHECK_DEADLOCK FALSE
