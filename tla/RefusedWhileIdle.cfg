SPECIFICATION Spec
CONSTANTS
    d1 = d1
    d2 = d2
    NoRun = NoRun
    DAGs <- OneDAG
    MaxRuns = 2
INVARIANT RefusedOnlyWhenRunning
