SPECIFICATION Spec
CONSTANTS
    a1 = a1
    a2 = a2
    s1 = s1
    s2 = s2
    c1 = c1
    c2 = c2
    v1 = v1
    Agents <- MCAgentsTwo
    Servers <- MCOneServer
    Urls <- MCOneUrl
    Responsive <- MCOneServer
    ClientIds <- MCIds
    IdsOf <- MCCollided
    Viewers <- MCViewers
    MAX_CLIENTS = 2
    HISTORY_SIZE = 2
    MaxReports = 3
    MaxStops = 0
    MaxDeaths = 1
    MaxVisits = 0
INVARIANTS
    StoredOnce
    StoredInOrder
