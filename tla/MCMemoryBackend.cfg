SPECIFICATION BackendSpec
CONSTANTS
    a = a
    b = b
    c = c
    NoRequest = NoRequest
    Ids = {a, b, c}
    Zones <- MCZones
    Priorities <- MCPriorities
    ZoneOf <- OneZone
    PriorityOf <- LastUrgent
    ClientStatuses <- MCStatuses
    ClientPhases <- MCPhases
INVARIANTS
    QueuesSound
    IndexesCover
PROPERTIES
    OrderKept
    DispatchInOrder
