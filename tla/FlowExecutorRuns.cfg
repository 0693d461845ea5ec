SPECIFICATION FairSpec
CONSTANTS
    a = a
    b = b
    c = c
    d1 = d1
    d2 = d2
    Nodes <- MCNodes
    DAGs = {d1, d2}
    Others = {o1}
    Flows <- MCFlows
INVARIANTS
    TypeOK
    RunsExclude
    RecordAgrees
PROPERTIES
    ImplementsGraphRun
    FlowRunEnds
