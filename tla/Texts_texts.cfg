SPECIFICATION Spec
CONSTANTS
    Nicks = {"ann", "bob"}
    Members = {"ann"}
    Channel = "#c"
    Tab = "server"
    Matches <- MyMatches
    HostMask <- MyHostMask
    Vars <- MyVars
    StartsWith <- MyStartsWith
    MaxWritten = 2
    NumberLimit = 2
    TimeLimit = 2
    Back = 1
    Starts <- MyStarts
    Settable <- MySettable
    Maskings <- MyMaskings
    MaxMessages = 3
    MaxActs = 1
    MaxTime = 2
    MaxStops = 2
INVARIANTS ShownOnce ConfigWhole IgnoresKept ReplayRecent
CHECK_DEADLOCK FALSE
