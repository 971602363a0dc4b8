SPECIFICATION Spec
CONSTANTS
    MaxIfaces = 1
    InterfaceName = {"wg"}
    NumericName <- NoNumericNames
    NodeId = {n1, n2}
    NodeName = {laptop, phone}
    PeerId = {p1, p2}
    Pools <- AddressPools
    Lans <- NoLans
    HubLans <- NoLans
    Requests = {3}
    NoRow = NoRow
    Unset = Unset
SYMMETRY Symmetry
PROPERTY ClearExpiresReactivates
