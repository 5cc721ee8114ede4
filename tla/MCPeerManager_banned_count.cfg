CONSTANTS
    Peers = {p1, p2}
    IPs = {i1, i2}
    p3 = p3
    i1 = i1
    i2 = i2
    a1 = a1
    MAX_DC_PEERS = 1
    MAX_BANNED_PEERS = 1
    BANNED_PEERS_PER_IP_THRESHOLD = 1
    MIN_SCORE <- MCMinScore
    MIN_SCORE_BEFORE_BAN <- MCMinScore
    MIN_SCORE_BEFORE_DISCONNECT <- MCMinScoreBeforeDisconnect
    MAX_SCORE = 1
    Penalty <- MCPenalty
    DisablePeerScoring = FALSE
    AttSubnets = {a1}
    SyncSubnets = {}
    MIN_SYNC_COMMITTEE_PEERS = 2
    TargetPeers = 1
    ConfigTrusted = {}
    TrustedCandidates = {p1}
    PeerIp <- MCPeerIp
    PeerAtt <- MCPeerAtt
    PeerSync <- MCPeerSync
    ReportActions = {"Fatal", "LowToleranceError"}
    MaxQueue = 1
    MaxDial = 1
    TimerEvents = FALSE
    DutyEvents = FALSE
    TargetSubnetPeers = 1
SPECIFICATION Spec
INVARIANT BannedCountConsistent
