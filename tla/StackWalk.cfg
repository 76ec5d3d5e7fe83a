SPECIFICATION Spec
CONSTANTS
    Modules = {"exe", "lib"}
    MaxLoads = 3
    Modulus = 256
    Cpus = {"x86", "amd64", "arm"}
    Code <- MCCode
    StackTop = 120
    Garbage <- MCGarbage
    MaxCalls = 3
    MaxWork = 5
    MaxFrames = 3
    ScanWords = 4
INVARIANTS WalkFindsTheCallers BuffersOutliveModules
CHECK_DEADLOCK FALSE
