SPECIFICATION Spec
CONSTANTS
    RawValues <- MCRawValues
    Canonical <- MCCanonical
    DomainOfUrl <- MCDomainOfUrl
    Dotted <- MCDotted
    NoiseUsers = {"system"}
    Assets = {"dc01", "ws-7"}
    CriticalHosts = {"dc01"}
    HighHosts = {"ws-7"}
    Privileged = {"alice"}
    Indicators <- MCIndicators
    Volume = 2
    OwnerOf <- MCOwnerOf
    InternalIps = {"10.0.0.9"}
    ProtectedHosts = {"dc01"}
    ProtectedUsers = {"bob"}
    ProtectedIps = {"198.51.100.7"}
    Entities <- MCEntities
    Noise <- MCNoise
    MaxDegree = 2
    Window = 2
    Records <- MCRecords
    Length = 3
    Severe = 2
    Periods <- MCPeriods
INVARIANTS
    TypeOK
    LargerRanksHigher
    SpreadStaysContained
    IsolationHasSnapshot
    VendorSpellingsAreGuarded
    SameAddressTogether
PROPERTIES
    TriageIsRepeatable
CHECK_DEADLOCK FALSE
