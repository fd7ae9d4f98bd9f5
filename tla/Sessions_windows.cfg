\* Two servers, three windows between them.
SPECIFICATION Spec
CONSTANTS
    Windows = {w1, w2, w3}
    Servers = {v1, v2}
    NoWindow = NoWindow
    NoServer = NoServer
SYMMETRY AddressSymmetry
INVARIANTS PointersFollowed NoGhost
PROPERTIES OneQuitEach LoopsShrink
CHECK_DEADLOCK FALSE
