SPECIFICATION Spec
CONSTANTS
    Topologies <- MCTopologies
    MaxRequests = 2
    Channels <- MCChannels
    Messages <- MCMessages
    Entries <- MCEntries
    MaxPending = 2
    Budgets <- MCBudgets
INVARIANTS TimerMatchesPage TablesRight
PROPERTIES PositionsKept PageSettles
CHECK_DEADLOCK FALSE
