SPECIFICATION ModesSpec
CONSTANTS
    Users <- MyUsers
    Me = "me"
    NickModes <- MyNickModes
    TypeA = {"b"}
    TypeB = {"k"}
    TypeC = {"l"}
    TypeD = {"m"}
    Announced = 4
    Length <- MyLength
    Room = 11
    TypedNicks <- MyNicks
    TypedMasks <- MyMasks
    Host <- MyHost
    Typed <- MyTyped
    MaxCommands = 2
    MaxOthers = 1
INVARIANTS TargetsReached ModesAgree
CHECK_DEADLOCK FALSE
