CONSTANTS
    RxLen = 2
    TxLen = 2
    Slots = 2
    MaxRx = 5
    MaxTx = 4
SPECIFICATION LiveSpec
CHECK_DEADLOCK FALSE
INVARIANTS
    BuffersSound
    ReaderWoken
PROPERTIES
    TransfersReturn
