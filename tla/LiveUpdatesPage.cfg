SPECIFICATION PageSpec
CONSTANTS
    g1 = g1
    r1 = r1
    r2 = r2
    All = All
    NoData = NoData
    Runs = {r1, r2}
    Groups = {g1}
    GroupOf <- SameGroup
    AreFlows = FALSE
    Scopes = {All}
    MaxWire = 2
INVARIANTS
    NeverAhead
PROPERTY PageConverges
