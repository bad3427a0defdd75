SPECIFICATION Spec
CONSTANTS
    b1 = b1  m1 = m1  m2 = m2  o1 = o1  o2 = o2  o3 = o3
    Binding = {b1}
    Message = {m1, m2}
    Owner = {o1}
    NoOwner = NoOwner
    CoalesceSeconds = 1
    LeaseSeconds = 2
    BaseBackoff = 1
    MaxBackoff = 2
    MaxAttempts = 2
    Kind <- AllKinds
    SystemMail = {}
    ProcessTimeout = 2
    WakesPerHour = 1
    Hour = 2
    DiesMidTurn = FALSE
    SurvivesTerm = FALSE
    SignalUnreadable = FALSE
    MaxCrashes = 0
    MaxTurns = 0
    MaxRefusals = 1
    MaxRequeues = 0
SYMMETRY SymmetricMessages
INVARIANTS
    DeliveredMeansTaken
    DashboardTruthful
    HourlyLimit
PROPERTY ImplementsContract
