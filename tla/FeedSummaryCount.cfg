SPECIFICATION Spec
CONSTANTS
    SampleLimit = 100
    Buckets = 2
    MaxRate = 2
    MaxInterarrival = 4
    MaxLatency = 2
    Intervals = {0, 1}
    Timestamps = {0, 2, 5, 9, 20}
    Latencies = {0, 3}
    Quantiles = {0, 25, 50, 67, 90, 100}
    MaxSamples = 4
INVARIANT SummaryCountsSamples
CHECK_DEADLOCK FALSE
