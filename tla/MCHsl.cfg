CONSTANTS
    Samples <- MCSamples
SPECIFICATION Spec
INVARIANTS
    TypeOK
    SentBackIsNear
    OrderKept
    LitStaysLit
CHECK_DEADLOCK FALSE
