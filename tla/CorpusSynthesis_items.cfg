SPECIFICATION Spec
CONSTANTS
    d1 = d1
    d2 = d2
    i1 = i1
    i2 = i2
    x = x
    Docs = {d1, d2}
    Identities = {i1, i2}
    Mentions <- MCMentions
    Items = {x}
    MaxCandidates = 2
    MaxGenerations = 8
    MaxEvents = 5
    Envs = {{"direct"}}
    None = None
CHECK_DEADLOCK FALSE
PROPERTIES UnaffectedItemsKept
