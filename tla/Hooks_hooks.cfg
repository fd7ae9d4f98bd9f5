\* Two plugins, three hooks in a life, walks within walks.
SPECIFICATION HooksSpec
CONSTANTS
    Hooks = {h1, h2, h3}
    NoHook = NoHook
    Plugins = {p1, p2}
    NoPlugin = NoPlugin
    Events = {"print"}
    Pris = {0, 1}
    MaxDepth = 2
SYMMETRY HookSymmetry
INVARIANTS CallbacksOwned EveryHookCalled
CHECK_DEADLOCK FALSE
