SPECIFICATION StaleSpec
CONSTANTS
    Users = {u1, u2}
    RoomIds = {r1, r2}
    Charts = {}
    NoChart = NoChart
    RoomSize = 3
    Capacities = {}
    Lists <- NoLists
    Slots = {s1}
    MaxRooms = 2
    Listee = u2
SYMMETRY Symmetry
INVARIANTS OwnerIsMember OneRoomPerUser
PROPERTY LobbyExact
CHECK_DEADLOCK FALSE
