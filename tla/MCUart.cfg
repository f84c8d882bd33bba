CONSTANTS
    FifoLen = 3
    DirectLimit = 2
    RxFull = 2
    TxEmpty = 2
    BuffSize = 4
    QueueLen = 2
    MaxChunk = 4
    Loads <- MCLoads
SPECIFICATION Spec
INVARIANTS
    NothingLost
    ReceptionArmed
PROPERTIES
    ReceivedIsDelivered
    WrittenIsSent
