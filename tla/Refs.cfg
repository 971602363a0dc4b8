SPECIFICATION RefSpec
CONSTANTS
    MaxIfaces = 2
    InterfaceName = {"wg", "2"}
    NumericName <- Digits
    NodeId = {n1}
    NodeName = {laptop}
    PeerId = {p1, p2}
    Pools <- TwoPools
    Lans <- NoLans
    HubLans <- NoLans
    Requests = {}
    NoRow = NoRow
    Unset = Unset
SYMMETRY Symmetry
INVARIANTS RefTypeOK HistoryOutlivesRows HistoryScoped
PROPERTIES KeptInPool InterfacesIsolated RemovesWhatWasNamed ReferencesNotRedirected
CHECK_DEADLOCK FALSE
