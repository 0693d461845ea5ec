SPECIFICATION Spec
CONSTANTS
    d1 = d1
    d2 = d2
    NoRun = NoRun
    DAGs <- OneDAG
    MaxRuns = 3
INVARIANTS
    TypeOK
    OneUnforcedActive
    RivalsExclude
    RegistryIsExact
    AnnouncedIsDurable
    RunningRowsWereCut
