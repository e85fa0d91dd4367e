SPECIFICATION FairSpec
CONSTANTS
    o1 = o1
    o2 = o2
    Operators = {o1, o2}
    Sends <- PagesAndDashboard
    Hasty = FALSE
    Teardown = Teardown
    Ids = {i1, i2, i3}
    Clients = {k1}
    Null = Null
INVARIANTS TypeOK OneServer JoinsSound ExitIsQuiet
PROPERTIES StoppedTakesNone CommandAnswered QuitEnds
\* The process ends at quit().
CHECK_DEADLOCK FALSE
