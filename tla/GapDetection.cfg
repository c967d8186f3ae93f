\* Every way to cut six versions into batches, reported in every order.
SPECIFICATION Spec
CONSTANTS
    NoBatch = NoBatch
    StartVersion = 3
    EndVersion = 8
INVARIANTS
    TypeOK
    NextIsFirstMissing
    SeenIsBehindGap
    StatusCoversReported
PROPERTIES
    NeverRewinds
    PrefixCompletes
