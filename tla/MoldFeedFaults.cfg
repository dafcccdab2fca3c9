SPECIFICATION FeedSpec
CONSTANTS
    max_delay_ = 2
    mtu_ = 12
    HeaderSize = 2
    MaxBlocks = 2
    Lens = {1, 5, 8}
    Gaps = {0, 1, 2}
    MaxCount = 3
    MaxIdleSends = 2
    NetworkFaults = {"lost", "duplicated", "reordered"}
    SocketErrors = TRUE
    MaxWire = 3
    MaxMismatches = 1
INVARIANTS
    FeedTypeOK NoSilentGap
    PacketsFit StreamPreserved DelayBounded
CHECK_DEADLOCK FALSE
