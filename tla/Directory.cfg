SPECIFICATION FairListSpec
CONSTANTS
    n1 = n1
    n2 = n2
    u1 = u1
    u2 = u2
    r1 = r1
    Nodes = {n1, n2}
    Users = {u1}
    RoomIds = {r1}
    Seeds <- NoSeeds
    Home <- AtFirst
    Slots = {}
    Rounds = {d1,d2}
    Nowhere = Nowhere
    MaxStarts = 2
    MaxFaults = 1
PROPERTIES CacheForgets CacheLearns
CHECK_DEADLOCK FALSE
