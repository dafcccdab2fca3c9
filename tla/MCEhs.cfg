SPECIFICATION Spec
CONSTANTS
    Connections = {c1, c2}
    Paths = {p1, p2}
    HandlerResults = {"200", "400", "500", "throws"}
    MaxEvents = 3
    PeerResets = TRUE
SYMMETRY Symmetry
INVARIANTS TypeOK ConnectionsAccounted ResponsesAccounted KeepsAccepting
CHECK_DEADLOCK FALSE
