SPECIFICATION Spec
CONSTANTS
    Entities = {e1, e2}
    Bridges = {b1, b2}
    Values = {v1, v2}
    Writers = {w1}
    Failures = {"load lost", "load applied", "delete", "rollback", "crash"}
    MaxFaults = 1
SYMMETRY Renamings
INVARIANTS LinkedDescribed
PROPERTIES AtomicWrites SavedAsSent SharedBridgesSurvive
