SPECIFICATION Spec
CONSTANTS
    Tags = {t1, t2, t3, t4, t5}
    NoTag = NoTag
    UserActions = {"server", "discon", "reconnect", "close", "netremove", "set"}
    ConnectOutcomes = {"ok", "pipe", "fork"}
    EomCommands = {"none", "discon"}
SYMMETRY TagSymmetry
INVARIANTS CallbacksOwned NothingLeaked
CHECK_DEADLOCK FALSE
