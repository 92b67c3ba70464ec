\* Two callers share a dispatcher; posts fail, the process restarts.
CONSTANTS
    c1 = c1
    c2 = c2
    p1 = p1
    p2 = p2
    None = None
    Callers <- MCCallers
    Providers <- MCProviders
    Databases <- MCDatabases
    FailureRate = 20
    Latency = 10
    Cooldown = 1
    MaxTime = 1
    MaxFaults = 2
SPECIFICATION FairSpec
INVARIANTS EvaluationReports
PROPERTIES CooldownHolds LastingConditionArrives
