\* The user connects, disconnects, closes and edits the server list; system
\* calls succeed.
SPECIFICATION FairSpec
CONSTANTS
    Tags = {t1, t2, t3, t4}
    NoTag = NoTag
    UserActions = {"server", "discon", "close", "netremove", "set"}
    ConnectOutcomes = {"ok"}
    EomCommands = {"none"}
INVARIANTS ConnectionIsOwn ReconnectOwned
PROPERTIES DisconnectIsFinal AttemptEnds ComesBack
CHECK_DEADLOCK FALSE
