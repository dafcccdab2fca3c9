SPECIFICATION Spec
CONSTANTS
    MaxSessions = 3
    FileLen = 2
    Failures = {}
PROPERTY StoppingEnds
