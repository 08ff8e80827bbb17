SPECIFICATION Spec
CONSTANTS
    c1 = c1
    Clients <- MCClients
    Nodes <- MCNodes
    ApiEvents <- MCApiEvents
    HistoryMaxlen = 7
    StreamNode = 2
    PerMillisecond = 4
    Radix = 3
    MaxFaults = 1
INVARIANTS
    OnlyOvertakenLost
PROPERTIES
    ImplementsFeed
    TerminalReachesClients
