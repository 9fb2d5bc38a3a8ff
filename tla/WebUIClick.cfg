SPECIFICATION FairSpec
CONSTANTS
    c1 = c1
    c2 = c2
    f1 = f1
    f2 = f2
    i1 = i1
    i2 = i2
    Nothing = Nothing
    ClientIds <- MCClients
    Inside <- MCSame
    Fetches <- MCFetches
    Timers <- MCTimers
    MaxReports = 2
    MaxRestarts = 0
PROPERTIES
    ClickSwitches
