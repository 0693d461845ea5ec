SPECIFICATION Spec
CONSTANTS
    a = a
    b = b
    c = c
    Tasks <- MCTasks
    Dags <- OneDoneDags
INVARIANT
    OneDoneCountsSkipped
