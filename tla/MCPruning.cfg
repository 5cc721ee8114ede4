CONSTANTS
    Peers = {p1, p2, p3}
    TrustedPeers = {p1}
    AttSubnets = {a1, a2}
    SyncSubnets = {c1}
    MIN_SYNC_COMMITTEE_PEERS = 1
    TARGET_PEERS = 1
    TARGET_OUTBOUND = 1
SYMMETRY Sym
SPECIFICATION Spec
INVARIANTS TypeOK OutboundFloor TrustedKept SyncFloor
