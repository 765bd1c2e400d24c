SPECIFICATION Spec
CONSTANTS
    p1 = p1  p2 = p2
    snapshot = snapshot  isolate = isolate  notify = notify
    alice = alice  sam = sam
    Procs = {p1, p2}
    Actions <- MCActions
    Users = {alice}
    PolicyActor = PolicyActor
    System = System
    Nothing = Nothing
    DependsOn <- MCDependsOn
    ApprovalFree = {notify}
    Policies <- OnlyRelaxed
    Triages <- MCTriages
    Outcomes = {"ok"}
    MaxClock = 0
    MaxCommands = 2
INVARIANTS
    ChainIntact
CHECK_DEADLOCK FALSE
