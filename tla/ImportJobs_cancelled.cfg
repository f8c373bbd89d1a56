SPECIFICATION Spec
CONSTANTS
    b1 = b1
    b2 = b2
    b3 = b3
    None = None
    Jobs = {j1}
    Workers = {w1}
    Bytes = {b1}
    BodyOf <- OneBody
    Stamps = {1, 2}
    Sources <- OneSource
    Env <- PauseAndLateCancel
CHECK_DEADLOCK FALSE
INVARIANTS CancelledIsUnpublished
