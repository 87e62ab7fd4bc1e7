SPECIFICATION FairPlayerSpec
CONSTANTS
    Users = {u1, u2, u3}
    RoomIds = {r1}
    Charts = {c1}
    NoChart = NoChart
    RoomSize = 3
    Capacities = {}
    Lists <- NoLists
    Slots = {s1}
    MaxRooms = 1
    Listee = u2
INVARIANTS TypeOK SoloMeansAlone GameCanEnd ClientsInSync ChartShownIsSelected
PROPERTIES GamesEndWhenDone FreshStart GamesEnd
CHECK_DEADLOCK FALSE
