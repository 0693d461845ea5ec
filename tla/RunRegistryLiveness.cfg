SPECIFICATION FairSpec
CONSTANTS
    d1 = d1
    d2 = d2
    NoRun = NoRun
    DAGs <- TwoDAGs
    MaxRuns = 2
INVARIANT ActiveRunsInHistory
PROPERTY AdmittedRunsSettle
