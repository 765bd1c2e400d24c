SPECIFICATION Spec
CONSTANTS
    p1 = p1  p2 = p2
    snapshot = snapshot  isolate = isolate  notify = notify
    alice = alice  sam = sam
    Procs = {p1}
    Actions <- MCActions
    Users = {alice}
    PolicyActor = PolicyActor
    System = System
    Nothing = Nothing
    DependsOn <- MCDependsOn
    ApprovalFree = {notify}
    Policies <- RelaxedStrict
    Triages <- FullTriage
    Outcomes = {"ok", "failed"}
    MaxClock = 2
    MaxCommands = 5
INVARIANTS
    ChainIntact
    StatusMatchesLog
    SettledOnce
    ProtectedNotCalled
PROPERTIES
    LifecycleRefined
CHECK_DEADLOCK FALSE
