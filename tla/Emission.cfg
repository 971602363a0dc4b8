SPECIFICATION SpecAnyClock
CONSTANTS
    MaxIfaces = 1
    InterfaceName = {"wg"}
    NumericName <- NoNumericNames
    NodeId = {n1, n2}
    NodeName = {laptop, phone}
    PeerId = {p1, p2}
    Pools <- GrowingPool
    Lans <- SiteLans
    HubLans <- WideHub
    Requests = {}
    NoRow = NoRow
    Unset = Unset
SYMMETRY Symmetry
INVARIANTS OnlyNetworkErrors EmittedUnambiguous RemoteCoverage OkMeansMesh
    OwnLanExcludedWhenClean
PROPERTY OnlyClockOverlaps
