SPECIFICATION FairLoginSpec
CONSTANTS
    c1 = c1
    c2 = c2
    c3 = c3
    u1 = u1
    u2 = u2
    ip1 = ip1
    ip2 = ip2
    Conns = {c1, c2, c3}
    Users = {u1, u2}
    Ips = {ip1}
    Account <- ReconnectAccount
    LocalIps <- NoLocal
    UseProxy = FALSE
    MaxPerIp = 3
    MaxStrikes = 1
    Slots = {s1, s2}
    NoUser = NoUser
    NoConn = NoConn
    NoIp = NoIp
INVARIANTS SessionsIndexed SeatHasSession
PROPERTIES LateCloseSparesSeat LoggedOutIsClosed PresenceExact DeadSeatsFreed
CHECK_DEADLOCK FALSE
