SPECIFICATION Spec
CONSTANTS
    c1 = c1
    c2 = c2
    c3 = c3
    u1 = u1
    u2 = u2
    ip1 = ip1
    ip2 = ip2
    Conns = {c1, c2}
    Users = {u1, u2}
    Ips = {ip1, ip2}
    Account <- OwnAccounts
    LocalIps <- OneLocal
    UseProxy = TRUE
    MaxPerIp = 2
    MaxStrikes = 2
    Slots = {s1}
    NoUser = NoUser
    NoConn = NoConn
    NoIp = NoIp
INVARIANTS TypeOK LimitHolds
CHECK_DEADLOCK FALSE
