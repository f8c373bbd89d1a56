SPECIFICATION DispatchSpec
CONSTANTS
    a1 = a1
    a2 = a2
    b1 = b1
    c1 = c1
    q1 = q1
    None = None
    Calls = {a1, a2, b1}
    Interactive = {}
    GroupOf <- Documents
    SignalOf <- TaskSignals
    Need <- OneToken
    Used = {2}
    Maxima = {1}
    Limits <- OneCall
    Env = {"cancel"}
CHECK_DEADLOCK FALSE
INVARIANTS WaitersAreQueued
