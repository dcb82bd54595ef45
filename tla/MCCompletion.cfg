CONSTANTS
    f1 = f1
    e1 = e1
    w1 = w1
    w2 = w2
    Files = {f1}
    Entities = {e1}
    Writers = {w1}
    MaxFaults = 2
SPECIFICATION FairSpec
INVARIANTS
    RegisteredWasPublished
PROPERTIES
    UploadKeptUntilTTL
    PromotionCompletes
    GarbageCollected
    OrphansPurged
