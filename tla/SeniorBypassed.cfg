SPECIFICATION Spec
CONSTANTS
    p1 = p1  p2 = p2
    snapshot = snapshot  isolate = isolate  notify = notify
    alice = alice  sam = sam
    Procs = {p1}
    Actions <- MCActions
    Users = {alice}
    PolicyActor = PolicyActor
    System = System
    Nothing = Nothing
    DependsOn <- MCDependsOn
    ApprovalFree = {notify}
    Policies <- RelaxedCritical
    Triages <- OnlyContainment
    Outcomes = {"ok"}
    MaxClock = 0
    MaxCommands = 7
INVARIANTS
    HighImpactHasSenior
CHECK_DEADLOCK FALSE
