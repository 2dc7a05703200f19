SPECIFICATION CooperativeSpec
CONSTANTS
    s1 = s1
    s2 = s2
    h1 = h1
    p1 = p1
    None = None
    Servers <- MCServers
    Handlers <- MCHandlers
    Players = {p1}
INVARIANT TypeOK
INVARIANT StoppedProxyWillBeRemoved
INVARIANT ConnectedProxyServes
PROPERTY ServedProxyDropped
PROPERTY PlayersGaugeSettles
CHECK_DEADLOCK FALSE
