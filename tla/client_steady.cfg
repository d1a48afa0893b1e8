\* Two prefixes, two gateways, an interface that stays active.
CONSTANTS
    None = None
    h1 = h1  h2 = h2  i1 = i1  i2 = i2  d1 = d1  d2 = d2
    Ports = {1, 2}
    Ifaces = {i1}
    PortOf <- MCPortOf
    Dsts = {d1, d2}
    Hosts = {h1, h2}
    IfOf <- MCIfOf
    InitialUp = {i1}
    MultiPath = FALSE
    MaxRoutes = 2
    MaxChanges = 0
    MaxLosses = 0
    MaxPortConfigs = 0
SPECIFICATION FairSpec
INVARIANTS RulesMatchRoutes
 
CHECK_DEADLOCK FALSE
