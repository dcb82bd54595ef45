CONSTANTS
    f1 = f1
    e1 = e1
    w1 = w1
    w2 = w2
    r1 = r1
    Files = {f1}
    Entities = {e1}
    Writers = {w1, w2}
    Readers = {r1}
    MaxFaults = 2
SPECIFICATION DownloadSpec
SYMMETRY WriterSymmetry
CONSTRAINT FewAtOnce
INVARIANTS
    ServedWasPublished
    MissIsTransient
    ReferencedHeld
    ReferencedDescribed
PROPERTIES
    LastCopyUnreferenced
    ImplementsRegistry
