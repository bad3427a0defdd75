SPECIFICATION Spec
CONSTANTS
    a1 = a1  a2 = a2  file = file  glob = glob  tool = tool
    Agent = {a1, a2}
    NoAgent = NoAgent
    Path = {file, glob}
    Matches <- FileAndGlob
    Glob = {glob}
    Virtual = {}
    MaxRow = 2
    MaxLeft = 1
    MaxForced = 0
    MaxFailures = 0

INVARIANTS ConflictOnlyByRevival RecordsCover
SYMMETRY SymmetricAgents
