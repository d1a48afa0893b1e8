\* Changed routes, second routes to a prefix, lost neighbours, a port that flaps.
CONSTANTS
    None = None
    h1 = h1  h2 = h2  i1 = i1  i2 = i2  d1 = d1  d2 = d2
    Ports = {1}
    Ifaces = {i1}
    PortOf <- MCPortOf
    Dsts = {d1}
    Hosts = {h1, h2}
    IfOf <- MCIfOf
    InitialUp = {}
    MultiPath = TRUE
    MaxRoutes = 2
    MaxChanges = 1
    MaxLosses = 1
    MaxPortConfigs = 2
SYMMETRY MCSymmetry
SPECIFICATION Spec
INVARIANTS GatewayKnown UnresolvedKnown SentAfterUp
CHECK_DEADLOCK FALSE
