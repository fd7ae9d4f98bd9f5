SPECIFICATION Spec
CONSTANTS
    Dccs = {d1, d2}
    Files = {f1}
    NoFile = NoFile
    Size = 2
    ProxyKinds = {"none", "socks5"}
    FastSends = {TRUE, FALSE}
    Limit = 1
    ChatRates = {0, 1}
    Mixed = FALSE
    Given = {1}
SYMMETRY DccSymmetry
INVARIANTS SourcesOwned ReceivedWhole StreamUnbroken SumsExact ProxyAsked
CHECK_DEADLOCK FALSE
