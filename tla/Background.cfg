SPECIFICATION MCSpec
CONSTANTS
    Docs = {d1}
    GraphDocs = {d1, d2}
    Models = {m1, m2}
    Workers = {w1, w2}
    Scopes = {s1, s2}
    Jobs = {j1, j2}
    Bytes = {b1, b2}
    MaxTree = 2
    MaxCandidates = 2
    MaxEvents = 4
    SummaryEnvs = {{"retry", "cancel", "rebuild", "transport"},
            {"retry", "cancel", "open", "other", "crash", "invalid"},
            {"retry", "settings", "configuration"},
            {"availability", "retry", "db_error", "transport"}}
    GraphEnvs = {{"retry", "cancel", "others"},
                 {"retry", "open", "other", "crash"},
                 {"transport", "db_error", "others"},
                 {"batches", "degraded", "invalid", "others"},
                 {"reanalysis", "cancel", "empty", "degraded"},
                 {"retry", "transport", "availability"},
                 {"retry", "open", "invalid"},
                 {"retry", "settings", "configuration", "result"},
                 {"retry", "reanalysis"},
                 {"retry", "batches", "invalid"}}
    AnalysisJobs = {a1}
    MaxRequests = 2
    TreeEnvs = {{"pause", "resume"}, {"invalid", "recover"}, {"fails", "recover", "cancel"}, {"fails", "recover", "crash", "resume"}}
    ChainEnvs = {{"cancel", "limit"}, {"crash", "resume"}, {"fails"}}
    Callers = {c1, c2}
    Readers = {r1}
    MaxRevision = 3
    Envs = {{"reads"}, {"opens", "fails"}, {"crash"}, {"fails", "db_error"}, {"slow_exit", "no_thread"}}
    None = None
CHECK_DEADLOCK FALSE
INVARIANTS BackgroundTypeOK BackgroundPermitsHaveOwner BackgroundRunningIsWorkedOn CompletedHasResult CatalogIsKept
PROPERTIES SuspensionsAreLiftedByRetries ResultsArePublishedInTurn PublishesLast RetryIsServed WorkerComesToRest
