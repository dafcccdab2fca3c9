SPECIFICATION Spec
CONSTANTS
    MaxSessions = 3
    FileLen = 2
    Failures = {"construct", "launch", "setup", "open", "send"}
INVARIANTS TypeOK ControlMatchesThread StopsFlowing
PROPERTY RunningEnds
