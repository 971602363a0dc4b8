SPECIFICATION Spec
CONSTANTS
    MaxIfaces = 1
    InterfaceName = {"wg"}
    NumericName <- NoNumericNames
    NodeId = {n1, n2}
    NodeName = {laptop, phone}
    PeerId = {p1, p2}
    Pools <- TablePools
    Lans <- TwoLans
    HubLans <- NoLans
    Requests = {8}
    NoRow = NoRow
    Unset = Unset
SYMMETRY Symmetry
INVARIANTS TypeOK NoOrphanPeers ReclamationFreesSlots
    AllocationAgreesWithActivation LedgerFaithful
    HubTableUnambiguous RefusedOnlyForNetworks
PROPERTY ImplementsClaims
