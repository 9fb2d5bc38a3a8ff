SPECIFICATION FairSpec
CONSTANTS
    a1 = a1
    a2 = a2
    s1 = s1
    s2 = s2
    c1 = c1
    c2 = c2
    v1 = v1
    Agents <- MCAgentsOne
    Servers <- MCTwoServers
    Urls <- MCTwoUrls
    Responsive <- MCTwoServers
    ClientIds <- MCIds
    IdsOf <- MCNamed
    Viewers <- MCViewers
    MAX_CLIENTS = 2
    HISTORY_SIZE = 2
    MaxReports = 1
    MaxStops = 2
    MaxDeaths = 1
    MaxVisits = 1
PROPERTIES
    BecomesKnown
