SPECIFICATION SpecAll
CONSTANTS
    \* One uploader process at a time, restarted and killed at will.
    Senders = {s1}
    MaxReports = 2
    TicksPerDay = 2
    MaxTick = 3
    MaxAccepted = 5
    MaxKills = 2
    \* The file writer.
    PageSize = 32
    Sizes = {1, 12, 40}
    Strings <- Texts
    MaxObjects = 3
    kInvalidMDRVA = 1000
    \* The maps: six addresses.
    Modulus = 6
    e1 = e1
    e2 = e2
    TextEnd = TextEnd
    Entries = {e1, e2}
    MaxStores = 3
    \* Line programs and functions.
    MaxRows = 2
    MaxFunctions = 2
    \* Two entries of call frame information, four instructions.
    Registers = {"r4", "lr"}
    ReturnAddress = "lr"
    Offsets = {1}
    Kinds = {"undefined", "offset", "register"}
    FDEs <- TwoFDEs
    MaxInstructions = 4
    Overrun = FALSE
INVARIANTS ThrottlesExactly LookupsAgree LocationsHold LinesSurvive RulesSurvive
CHECK_DEADLOCK FALSE
