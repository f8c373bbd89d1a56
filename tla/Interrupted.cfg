SPECIFICATION MCSpec
CONSTANTS
    b1 = b1
    b2 = b2
    b3 = b3
    None = None
    j1 = j1
    j2 = j2
    j3 = j3
    j4 = j4
    w1 = w1
    w2 = w2
    Jobs = {j1, j2, j3, j4}
    Workers = {w1, w2}
    Bytes = {b1, b2, b3}
    BodyOf <- TwoBodies
    Stamps = {1, 2, 3, 4, 5, 6}
    Sources <- SourcesOf
    Env <- EventsOf
CHECK_DEADLOCK FALSE
SYMMETRY InterruptedSymmetry
INVARIANTS TypeOK  WorkIsAttended QuarantineCanBeLeft ImportsAreCoherent
PROPERTIES FinishedWorkIsReused
