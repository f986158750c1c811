SPECIFICATION Spec
CONSTANTS
    c1 = c1
    c2 = c2
    Clients <- MCClients
    Backend = "sqlite"
    AdapterNumbers = TRUE
    MaxEvents = 4
    MaxRestarts = 0
    PageLimits <- MCPageLimits
CHECK_DEADLOCK FALSE
INVARIANT AllEventsPersisted
