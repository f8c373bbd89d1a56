SPECIFICATION FairSpec
CONSTANTS
    Docs = {d1}
    Models = {m1}
    Workers = {w1}
    Scopes = {s1}
    MaxCandidates = 1
    MaxEvents = 4
    Envs = {{"retry", "invalid"}}
    None = None
CHECK_DEADLOCK FALSE
PROPERTIES SuccessfulRetryClears
