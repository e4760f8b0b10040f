\* Every page and every update, two readers and two updates at a time, one of
\* which changes what the page shows, and up to one fault or import. Liveness:
\* no symmetry.
SPECIFICATION FairSpec
CONSTANTS
    Pages <- AllPages
    Updates <- AllUpdates
    Readers = {r1, r2}
    Writers = {w1, w2}
    MaxVersion = 1
    MaxFaults = 1
    None = None
INVARIANTS
    TypeOK
    ChangesInvalidateCovered
PROPERTIES
    EventuallyFresh
