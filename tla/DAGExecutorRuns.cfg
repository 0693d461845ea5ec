SPECIFICATION FairSpec
CONSTANTS
    a = a
    b = b
    c = c
    Tasks <- MCTasks
    Dags <- ExecutedDags
INVARIANTS
    TypeOK
    DecisionsJustified
    FailureHasCause
    HistoryAgrees
    NoIdleReadyTask
    RetriesUsedUp
    NoPartialRun
PROPERTIES
    HistorySettles
    ImplementsGraphRun
    RunEnds
    NoTaskHeldUp
