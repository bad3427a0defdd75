SPECIFICATION Spec
CONSTANTS
    a1 = a1  a2 = a2  file = file  glob = glob  tool = tool
    Agent = {a1, a2}
    NoAgent = NoAgent
    Path = {file}
    Matches <- FileAlone
    Glob = {}
    Virtual = {}
    MaxRow = 1
    MaxLeft = 1
    MaxForced = 0
    MaxFailures = 0

INVARIANT RenewalIsRecorded
SYMMETRY SymmetricAgents
