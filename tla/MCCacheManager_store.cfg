SPECIFICATION Spec
CHECK_DEADLOCK FALSE
CONSTANTS
    c1 = c1
    c2 = c2
    Absent = Absent
    Keys = {"company", "ticket"}
    Tags = {"company", "ticket"}
    TagsOf <- MCTagsOf
    RuleTag <- MCRuleTag
    Dependents <- MCDependents
    Versions = {0, 1}
    SizeOf <- MCSizeOf
    MaxEntries = 1
    MaxUsage = 3
    Setters <- MCSetters
    Sweepers <- MCSweepers
    Clients = {c1}
    MaxRefresh = 1
    MaxPending = 2
    Changing = {"company"}
INVARIANTS
    TypeOK
    UsageExact
    IndexExact
    RefreshExact
