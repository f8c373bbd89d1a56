SPECIFICATION MCSpec
CONSTANTS
    t1 = t1
    t2 = t2
    t3 = t3
    t4 = t4
    p1 = p1
    p2 = p2
    k1 = k1
    k2 = k2
    k3 = k3
    k4 = k4
    q1 = q1
    None = None
    Threads = {t1, t2, t3, t4}
    Processes = {p1, p2}
    ProcOf <- TwoProcesses
    MaxDepth = 2
    Calls = {k1, k2, k3, k4, q1}
    Interactive = {q1}
    GroupOf <- Documents
    SignalOf <- Documents
    Need <- TokensNeeded
    Used = {2}
    Maxima = {1, 2}
    Limits <- TwoLimits
    Env = {"cancel", "configure"}
INVARIANTS TypeOK MutualExclusion SlotCounts NoLostWakeup SlotsAreOwned TicketsMatchWaiters
PROPERTIES ImplementsRwLock WritersAreNotStarved TurnsAlternate AnswersNeedNoBackground BackgroundIsServed
