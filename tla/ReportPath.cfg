SPECIFICATION Spec
CONSTANTS
    Machines <- MCMachines
    SkippedByC <- MCSkippedByC
    SkippedByGo <- MCSkippedByGo
    MAX_NETWORKS = 3
    KILO = 8
    MANTISSA = 65536
    ID_SIZE = 4
    HOSTNAME_SIZE = 3
    IPV4_SIZE = 3
    ServerOffset = 1
    MaxReports = 3
CHECK_DEADLOCK FALSE
INVARIANTS
    ArrivesAsCollected
    RowsAreClients
    DataIsReadable
    NetworksAreMap
    ClientsAgree
    TextsAreRight
PROPERTY RowsStay
