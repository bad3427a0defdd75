SPECIFICATION Spec
CONSTANTS
    b1 = b1  m1 = m1  m2 = m2  o1 = o1  o2 = o2  o3 = o3
    Binding = {b1}
    Message = {m1}
    Owner = {o1, o2, o3}
    NoOwner = NoOwner
    CoalesceSeconds = 0
    LeaseSeconds = 1
    BaseBackoff = 1
    MaxBackoff = 1
    MaxAttempts = 1
    Kind <- RootOnly
    SystemMail = {}
    ProcessTimeout = 2
    WakesPerHour = 1
    Hour = 1
    DiesMidTurn = TRUE
    SurvivesTerm = TRUE
    SignalUnreadable = FALSE
    MaxCrashes = 1
    MaxTurns = 0
    MaxRefusals = 0
    MaxRequeues = 1
SYMMETRY SymmetricOwners
INVARIANTS
    InflightOwnsRows
    AttemptBound
PROPERTY SecondWakeOnlyAfterLease
