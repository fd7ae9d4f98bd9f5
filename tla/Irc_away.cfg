SPECIFICATION IrcSpec
CONSTANTS
    Chans = {"c1", "c2"}
    Modes = {"m"}
    Friend = "f"
    NoNick = "-"
    Nicks <- MyNicks
    AutoJoin <- TwoChannels
    MaxTabs = 3
    MaxLines = 8
    Scenarios <- AwayScenarios
INVARIANT AwayRestored
CHECK_DEADLOCK FALSE
