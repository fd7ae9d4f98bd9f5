SPECIFICATION Spec
CONSTANTS
    Tabs <- MyTabs
    Cmds <- MyCmds
    CommandList <- MyCommands
    Limit = 2
    MaxText = 4
    Wide = {7}
    Newline = 9
    Output <- MyOutput
    MaxRead = 3
    Scripts <- TypedScripts
INVARIANTS LevelKept SayWhole LinesWhole ChildrenOwned TimersExact
CHECK_DEADLOCK FALSE
