SPECIFICATION PagesSpec
CONSTANTS
    Leader = "g"
    SecondKeys <- ShellKeys
    Shortcuts <- PageShortcuts
    OtherKeys = {"x"}
    Home = "home"
    None = None
    f1 = f1
    f2 = f2
    d1 = d1
    d2 = d2
    All = All
    FieldsOf <- AllFields
    FlowsOf <- TwoRequests
    DagsOf <- TwoDags
    PaletteOf <- SomeItems
    ListOf <- SomeDags
    HomeOf <- SomeFlows
    ActivityOf <- FourDays
    HostOf <- SixSamples
    LogOf <- TwoTasks
    PageOf <- TwoLists
INVARIANTS
    TypesOK
    KeysAreManaged
    RowsAndCursorAgree
    OverviewAgrees
    ActivityIsExact
    LateAnswersDoNoHarm
    ChartsFollowTheSamples
PROPERTIES
    NavigatesAfterLeader
    TypingDoesNothing
