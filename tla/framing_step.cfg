SPECIFICATION FairSpec
CONSTANTS
    Header = 2
    Body = {0, 1, 2}
    MaxPacket = 4
INVARIANTS TypeOK InStep NothingLost RefusesOnlySplit
PROPERTY Handled
CHECK_DEADLOCK FALSE
