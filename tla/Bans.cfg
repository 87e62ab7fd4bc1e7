SPECIFICATION Spec
CONSTANTS
    Ids = {i1, i2}
    Ips = {a1}
    Clients = {c1}
    Exempt = {i2}
    Durations = {0, 1}
    Forever = Forever
    Free = Free
    Torn = Torn
    MaxTime = 2
    MaxFaults = 1
INVARIANTS TypeOK StoredIsInForce
PROPERTIES BansExact BlacklistExact
CHECK_DEADLOCK FALSE
