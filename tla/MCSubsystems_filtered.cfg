SPECIFICATION SubsystemsSpec
CONSTANTS
    Focuses = {"mail"}
    t1 = t1  t2 = t2  t3 = t3  p1 = p1  p2 = p2
    r1 = r1  r2 = r2  r3 = r3  r4 = r4
    c1 = c1  c2 = c2  g1 = g1  g2 = g2  v1 = v1  k1 = k1  k2 = k2
    w1 = w1  w2 = w2  d1 = d1  d2 = d2  n1 = n1  n2 = n2
    Sessions = {"s1"}
    MaxEvents = 2
    Files = {1, 2, 3}
    MaxFaults = 2
    MaxRegistrations = 2
    Writers = {t1, t2, t3}
    Processes = {p1, p2}
    ProcessOf <- TwoProcesses
    AsyncLocks = {1, 2, 3}
    NoWriter = NoWriter
    MaxEntries = 4
    MaxLockFaults = 1
    Requests = {r1, r2, r3, r4}
    Paths = {"a", "b", "c"}
    PathsOf <- FourRequests
    RepoOf <- TwoRepositories
    Awaited = {r1, r2, r4}
    MaxBatch = 3
    MergeLimit = 2
    QueueSize = 3
    MaxCommitFaults = 2
    Consumers = {1, 2, 3}
    Unchanged = {2}
    MaxSwitchFaults = 3
    Callers = {c1, c2}
    Gateways = {g1, g2}
    Previews = {v1}
    Keys = {k1, k2}
    NoPreview = NoPreview
    NoCaller = NoCaller
    LocalApproval = TRUE
    MaxPerHour = 1
    MaxGatewayFaults = 1
    Generated = {"home", "mcp"}
    MaxChanges = 2
    McpProfile <- TwoProfiles
    MaxToolFaults = 3
    MaxIds = 2
    MaxLaunches = 2
    MaxChildFaults = 2
    Messages = {"m"}
    Watchers = {w1, w2}
    Deliverers = {d1, d2}
    NoDeliverer = NoDeliverer
    Grace = 2
    MaxMailFaults = 1
    Letters = {"a"}
    Carriers = {n1, n2}
    ChannelOf <- TmuxAndHook
    MaxLaunchIds = 2
    MaxDeliveryFaults = 1
    x1 = x1  x2 = x2
    Runners = {x1, x2}
    Detached = {x1}
    NoRunner = NoRunner
    MaxLaunchRows = 2
    MaxLaunchFaults = 1

PROPERTIES
    LeftOutKeepsSignal
CHECK_DEADLOCK FALSE
