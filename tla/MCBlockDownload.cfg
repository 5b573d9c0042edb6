CONSTANTS
    g = g
    b1 = b1
    b2 = b2
    b3 = b3
    b4 = b4
    x = x
    y = y
    z = z
    None = None
    Genesis = g
    Block = {g, b1, b2, b3, b4, x, y, z}
    Parent <- MCParent
    nHeight <- MCnHeight
    PeerTip <- MCPeerTip
    Invalid = {x}
    Refused = {y}
    Malformed = {z}
    RecentHeight = 2
    Peer = {1, 2}
    Outbound = {1, 2}
    Prompt = {2}
    BLOCK_DOWNLOAD_WINDOW = 3
    MAX_BLOCKS_IN_TRANSIT_PER_PEER = 2
    BLOCK_STALLING_TIMEOUT = 0
    HEADERS_DOWNLOAD_TIMEOUT = 0
    BLOCK_DOWNLOAD_TIMEOUT_BASE = 1
    BLOCK_DOWNLOAD_TIMEOUT_PER_PEER = 1
    CHAIN_SYNC_TIMEOUT = 0
    HEADERS_RESPONSE_TIME = 0
    MAX_OUTBOUND_PEERS_TO_PROTECT_FROM_DISCONNECT = 1
    MIN_BLOCKS_TO_KEEP = 2
    MAX_HEADERS_RESULTS = 2
    MAX_BLOCKS_TO_ANNOUNCE = 2
SPECIFICATION FairSpec
INVARIANTS TypeOK InFlightExact NothingSkipped
PROPERTY Synced
