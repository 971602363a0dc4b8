SPECIFICATION Spec
CONSTANTS
    MaxIfaces = 2
    InterfaceName = {"wg", "2"}
    NumericName <- Digits
    NodeId = {n1}
    NodeName = {laptop}
    PeerId = {p1, p2}
    Pools <- ShrunkPools
    Lans <- NoLans
    HubLans <- NoLans
    Requests = {3}
    NoRow = NoRow
    Unset = Unset
SYMMETRY Symmetry
PROPERTY ShrinkRejected
