SPECIFICATION MCSpec
CONSTANTS
    b1 = b1
    b2 = b2
    b3 = b3
    Jobs = {j1, j2, j3}
    Workers = {w1, w2}
    Bytes = {b1, b2, b3}
    BodyOf <- OneBody
    Stamps = {1, 2}
    Sources <- TwoOrThreeContents
    Env <- LossAndDamage
    d1 = d1
    d2 = d2
    i1 = i1
    i2 = i2
    x = x
    a1 = a1
    a2 = a2
    s1 = s1
    o1 = o1
    o2 = o2
    p1 = p1
    q1 = q1
    c1 = c1
    k1 = k1
    k2 = k2
    None = None
CHECK_DEADLOCK FALSE
INVARIANTS CancellationIsTruthful
