SPECIFICATION Spec
CONSTANTS
    c1 = c1
    c2 = c2
    c3 = c3
    u1 = u1
    u2 = u2
    ip1 = ip1
    ip2 = ip2
    Conns = {c1}
    Users = {u1, u2}
    Ips = {ip1}
    Account <- SingleAccount
    LocalIps <- NoLocal
    UseProxy = FALSE
    MaxPerIp = 2
    MaxStrikes = 1
    Slots = {s1}
    NoUser = NoUser
    NoConn = NoConn
    NoIp = NoIp
INVARIANTS LimitIsOfConnections
CHECK_DEADLOCK FALSE
