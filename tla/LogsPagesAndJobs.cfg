SPECIFICATION PagesSpec
CONSTANTS
    None = None
    Last = Last
    Threads = {t1, t2}
    MaxRecords = 4
    MaxFails = 2
    All = All
    Dags <- DagObjects
    Flows <- FlowObjects
    IdOf <- ObjectIds
    NodesOf <- FlowNodes
    TimesOf <- Schedules
    Times = {"hourly", "daily"}
    Manual = "manual"
    Malformed = "malformed"
    Invalid = "invalid"
    Absent = Absent
INVARIANTS
    RowsAreAPrefix
    JobsFollowDefinitions
    FlowsFindTheirDags
PROPERTY PagesCatchUp
CHECK_DEADLOCK FALSE
