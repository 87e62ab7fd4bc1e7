SPECIFICATION FairGuestSpec
CONSTANTS
    n1 = n1
    n2 = n2
    u1 = u1
    u2 = u2
    r1 = r1
    Nodes = {n1, n2}
    Users = {u1, u2}
    RoomIds = {r1}
    Seeds <- NoSeeds
    Home <- Homes
    Slots = {s1}
    Rounds = {}
    Nowhere = Nowhere
    MaxStarts = 2
    MaxFaults = 1
INVARIANTS TypeOK GuestsHaveSessions
PROPERTIES DownForgotten AstrayComeHome
CHECK_DEADLOCK FALSE
