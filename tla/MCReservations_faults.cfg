SPECIFICATION Spec
CONSTANTS
    a1 = a1  a2 = a2  file = file  glob = glob  tool = tool
    Agent = {a1, a2}
    NoAgent = NoAgent
    Path = {file, tool}
    Matches <- FileAndTool
    Glob = {}
    Virtual = {tool}
    MaxRow = 1
    MaxLeft = 2
    MaxForced = 1
    MaxFailures = 2

INVARIANT ReleaseIsRecorded
PROPERTY SweepSparesTheLiving
SYMMETRY SymmetricAgents
