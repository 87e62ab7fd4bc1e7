SPECIFICATION FairAccessSpec
CONSTANTS
    Users = {u1, u2, u3}
    RoomIds = {r1}
    Charts = {c1}
    NoChart = NoChart
    RoomSize = 3
    Capacities = {1}
    Lists <- OneList
    Slots = {s1, s2}
    MaxRooms = 1
    Listee = u2
INVARIANTS BlacklistEnforced
PROPERTIES GrowthRespectsAccess BlacklistedLeave
