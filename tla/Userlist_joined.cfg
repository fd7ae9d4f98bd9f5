\* Four nicks, ops and voices, every order the preference offers.
SPECIFICATION Spec
CONSTANTS
    Ids = {u1, u2, u3, u4, u5}
    NoUser = NoUser
    Nicks = {1, 2, 3, 4}
    NickPrefixes <- OpVoice
    SortModes = {0, 1, 2, 3}
    MaySwitch = FALSE
    DupSorts = {1, 3}
SYMMETRY IdSymmetry
INVARIANTS SameUsers FindsEveryUser BooksAgree
