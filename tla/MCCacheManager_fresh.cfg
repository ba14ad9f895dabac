SPECIFICATION FairSpec
CHECK_DEADLOCK FALSE
CONSTANTS
    c1 = c1
    c2 = c2
    Absent = Absent
    Keys = {"company"}
    Tags = {"company"}
    TagsOf <- MCTagsOf
    RuleTag <- MCRuleTag
    Dependents <- MCAlone
    Versions = {0, 1}
    SizeOf <- MCSizeOf
    MaxEntries = 1
    MaxUsage = 3
    Setters <- MCSetters
    Sweepers <- MCSweepers
    Clients = {c1, c2}
    MaxRefresh = 1
    MaxPending = 1
    Changing = {"company"}
PROPERTIES
    EventuallyFresh
    CallsReturn
