SPECIFICATION FeedSpec
CONSTANTS
    max_delay_ = 2
    mtu_ = 12
    HeaderSize = 2
    MaxBlocks = 2
    Lens = {1, 4, 8}
    Gaps = {0, 1, 2}
    MaxCount = 5
    MaxIdleSends = 0
    NetworkFaults = {}
    SocketErrors = FALSE
    MaxWire = 3
    MaxMismatches = 1
INVARIANTS OnlyQueueUnhandled SleepsMatchIntervals
PROPERTIES ImplementsStream SentIsHandled
CHECK_DEADLOCK FALSE
