\* Two lines at a time and QUIT, of 2 and 10 seconds, the IRC server counting
\* along; the clock set back or throttling switched up to twice.
SPECIFICATION FairSpec
CONSTANTS
    Ids = {l1, l2}
    Quit = Quit
    NoLine = NoLine
    Extras = {0, 8}
    MaxTimers = 2
    MaxSince = 11
    MaxStep = 1
    MaxMeddled = 2
INVARIANTS TimerWhenQueued
PROPERTIES ImplementsLanes NeverFloods UrgentLeaves
