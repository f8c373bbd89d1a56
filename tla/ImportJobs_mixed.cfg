SPECIFICATION Spec
CONSTANTS
    b1 = b1
    b2 = b2
    b3 = b3
    None = None
    Jobs = {j1}
    Workers = {w1}
    Bytes = {b1, b3}
    BodyOf <- TwoBodies
    Stamps = {1, 2, 3, 4, 5, 6}
    Sources <- OneSource
    Env <- RecoveryAndEdit
CHECK_DEADLOCK FALSE
INVARIANTS IrOfItsRawAsset
