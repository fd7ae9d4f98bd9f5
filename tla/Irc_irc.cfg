SPECIFICATION IrcSpec
CONSTANTS
    Chans = {"c1", "c2"}
    Modes = {"m"}
    Friend = "f"
    NoNick = "-"
    Nicks <- MyNicks
    AutoJoin <- TwoChannels
    MaxTabs = 3
    MaxLines = 8
    Scenarios <- MixedScenarios
INVARIANTS ViewFollows Answered Rejoined NotifyFollows
CHECK_DEADLOCK FALSE
