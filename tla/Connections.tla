---------------------------- MODULE Connections ----------------------------
(***************************************************************************)
(* Connections, logins and bans: network/TcpServer.ts from accept to the   *)
(* close event, and the session tables of domain/protocol/                 *)
(* ProtocolHandler.ts, with the bans of domain/auth/BanManager.ts.         *)
(*                                                                         *)
(* A socket that the server destroys emits its close event in a later turn *)
(* of the event loop, and handleAuthenticate awaits the web API twice: in  *)
(* between, connections close, the same user logs in elsewhere, and        *)
(* administrators ban.  What a user does in a room is left to RoomServer;  *)
(* here a user is in a room or not, and the room's PlayerInfo remembers a  *)
(* connection (seat).  Strings of bans, reasons and durations are left     *)
(* out: a ban ends by Unban..., be it an administrator's or its expiry.    *)
(***************************************************************************)
EXTENDS Integers, FiniteSets

CONSTANTS
    Conns,        \* connection ids, each used once
    Users,
    Ips,
    Account,      \* Account[c]: the users whose tokens the client of c sends
    LocalIps,     \* loopback addresses, exempt from system bans
    UseProxy,     \* config.useProxyProtocol
    MaxPerIp,     \* MAX_CONNECTIONS_PER_IP
    MaxStrikes,   \* suspicious events that get an address banned (10)
    Slots,        \* bound: logins in flight at once
    NoUser, NoConn, NoIp

ASSUME AccountAssumption == Account \in [Conns -> SUBSET Users]
ASSUME NoneAssumption == NoUser \notin Users /\ NoConn \notin Conns /\ NoIp \notin Ips
ASSUME LimitsAssumption == /\ LocalIps \subseteq Ips
                           /\ UseProxy \in BOOLEAN
                           /\ MaxPerIp \in Nat
                           /\ MaxStrikes \in Nat \ {0}

VARIABLES
    socket,    \* socket[c]: not yet connected, open, destroyed (its close event is due), closed
    unproxied, \* the connections whose proxy header is still expected
    peer,      \* peer[c]: socket.remoteAddress
    origin,    \* origin[c]: state.realIp, or else the remote address
    perIp,     \* connectionsPerIp
    strikes,   \* illegalPacketCounts
    known,     \* the keys of connectionIps; the value is origin
    closers,   \* the keys of connectionClosers
    sessions,  \* sessions[c]: the user logged in on c
    userConn,  \* userConnections
    seat,      \* seat[u]: PlayerInfo.connectionId in the room u is in
    auths,     \* auths[s]: a login waiting for the web API in slot s
    idBans,    \* the keys of idBans
    ipBans     \* ipBans[ip]: by whom ip is banned

vars == <<socket, unproxied, peer, origin, perIp, strikes, known, closers,
          sessions, userConn, seat, auths, idBans, ipBans>>

netVars     == <<unproxied, peer, origin, perIp, strikes>>
sessionVars == <<known, closers, sessions, userConn>>
banVars     == <<idBans, ipBans>>

Idle  == [phase |-> "idle"]
Login == [phase: {"token", "info"}, conn: Conns, user: Users]

TypeOK ==
    /\ socket \in [Conns -> {"none", "open", "destroyed", "closed"}]
    /\ unproxied \subseteq Conns
    /\ peer \in [Conns -> Ips \cup {NoIp}]
    /\ origin \in [Conns -> Ips \cup {NoIp}]
    /\ perIp \in [Ips -> 0..MaxPerIp]
    /\ strikes \in [Ips -> 0..MaxStrikes]
    /\ known \subseteq Conns
    /\ closers \subseteq Conns
    /\ sessions \in [Conns -> Users \cup {NoUser}]
    /\ userConn \in [Users -> Conns \cup {NoConn}]
    /\ seat \in [Users -> Conns \cup {NoConn}]
    /\ auths \in [Slots -> Login \cup {Idle}]
    /\ idBans \subseteq Users
    /\ ipBans \in [Ips -> {"none", "admin", "System"}]

Init ==
    /\ socket = [c \in Conns |-> "none"]
    /\ unproxied = {}
    /\ peer = [c \in Conns |-> NoIp]
    /\ origin = [c \in Conns |-> NoIp]
    /\ perIp = [ip \in Ips |-> 0]
    /\ strikes = [ip \in Ips |-> 0]
    /\ known = {}
    /\ closers = {}
    /\ sessions = [c \in Conns |-> NoUser]
    /\ userConn = [u \in Users |-> NoConn]
    /\ seat = [u \in Users |-> NoConn]
    /\ auths = [s \in Slots |-> Idle]
    /\ idBans = {}
    /\ ipBans = [ip \in Ips |-> "none"]

-----------------------------------------------------------------------------
(* Closing.  The closers registered by TcpServer destroy sockets that are  *)
(* still open; the close event is SocketClosed.                            *)

Destroy(cs) == [c \in Conns |-> IF c \in cs /\ socket[c] = "open" THEN "destroyed" ELSE socket[c]]

CloserOf(cs) == Destroy(cs \cap closers)

(* What handleDisconnection(c) leaves of the room, given the seats st: the *)
(* user of the session on c is taken out of its room, whatever connection  *)
(* that room has for it.                                                   *)
Slip_SeatStays(st, c) == st
SeatsWithout(st, c) == [u \in Users |-> IF u = sessions[c] THEN NoConn ELSE st[u]]

Slip_IndexKept(c) == userConn
UserConnWithout(c) == [u \in Users |-> IF u = sessions[c] /\ userConn[u] = c THEN NoConn ELSE userConn[u]]

(* kickPlayer for each of us: out of the room, and the connection closed.  *)
Kicked(us) ==
    /\ seat' = [u \in Users |-> IF u \in us THEN NoConn ELSE seat[u]]
    /\ socket' = CloserOf({userConn[u] : u \in us})

-----------------------------------------------------------------------------
(* TCP connections. *)

Live(ip) == {c \in Conns : peer[c] = ip /\ socket[c] \in {"open", "destroyed"}}

SystemBanned(ip) == ipBans[ip] = "System"

(* banIp: the new ban takes the place of any other the address had. *)
IpBanned(ip, by) == [ipBans EXCEPT ![ip] = by]

Slip_OneOver(c, ip) ==
    /\ socket[c] = "none"
    /\ perIp[ip] <= MaxPerIp
    /\ ip \in LocalIps \/ ~SystemBanned(ip)
    /\ perIp' = [perIp EXCEPT ![ip] = @ + 1]
    /\ socket' = [socket EXCEPT ![c] = "open"]
    /\ peer' = [peer EXCEPT ![c] = ip]
    /\ origin' = [origin EXCEPT ![c] = ip]
    /\ unproxied' = IF UseProxy THEN unproxied \cup {c} ELSE unproxied
    /\ known' = known \cup {c}
    /\ closers' = closers \cup {c}
    /\ UNCHANGED <<strikes, sessions, userConn, seat, auths, banVars>>

Accept(c, ip) ==
    /\ socket[c] = "none"
    /\ perIp[ip] < MaxPerIp
    /\ ip \in LocalIps \/ ~SystemBanned(ip)
    /\ perIp' = [perIp EXCEPT ![ip] = @ + 1]
    /\ socket' = [socket EXCEPT ![c] = "open"]
    /\ peer' = [peer EXCEPT ![c] = ip]
    /\ origin' = [origin EXCEPT ![c] = ip]
    /\ unproxied' = IF UseProxy THEN unproxied \cup {c} ELSE unproxied
    /\ known' = known \cup {c}
    /\ closers' = closers \cup {c}
    /\ UNCHANGED <<strikes, sessions, userConn, seat, auths, banVars>>

(* An attempt from an address under a system ban: the socket is destroyed  *)
(* after it was counted and before its close handler is installed.         *)
AcceptBanned(ip) ==
    /\ perIp[ip] < MaxPerIp
    /\ ip \notin LocalIps /\ SystemBanned(ip)
    /\ perIp' = [perIp EXCEPT ![ip] = @ + 1]
    /\ UNCHANGED <<socket, unproxied, peer, origin, strikes, sessionVars, seat, auths, banVars>>

(* The proxy protocol header names the real address, or is no header.      *)
ProxyHeader(c, ip) ==
    /\ socket[c] = "open"
    /\ c \in unproxied
    /\ unproxied' = unproxied \ {c}
    /\ \/ UNCHANGED <<socket, origin>>
       \/ /\ origin' = [origin EXCEPT ![c] = ip]
          /\ socket' = IF SystemBanned(ip) THEN Destroy({c}) ELSE socket
    /\ UNCHANGED <<peer, perIp, strikes, sessionVars, seat, auths, banVars>>

(* The client hangs up, or three heartbeats were missed. *)
Slip_CountedTwice(c) ==
    /\ socket[c] = "open"
    /\ socket' = Destroy({c})
    /\ perIp' = [perIp EXCEPT ![peer[c]] = IF @ <= 1 THEN 0 ELSE @ - 1]
    /\ UNCHANGED <<unproxied, peer, origin, strikes, sessionVars, seat, auths, banVars>>

HangUp(c) ==
    /\ socket[c] = "open"
    /\ socket' = Destroy({c})
    /\ UNCHANGED <<netVars, sessionVars, seat, auths, banVars>>

(* An illegal packet or a reset closes the connection and counts against   *)
(* its address, a token of the wrong length only counts.  At MaxStrikes    *)
(* the address is banned.                                                  *)
Suspicious(c, closes) ==
    LET ip == origin[c]
        n == strikes[ip] + 1
    IN  /\ socket[c] = "open"
        /\ socket' = IF closes THEN Destroy({c}) ELSE socket
        /\ IF n >= MaxStrikes /\ ip \notin LocalIps
           THEN /\ strikes' = [strikes EXCEPT ![ip] = 0]
                /\ ipBans' = IpBanned(ip, "System")
           ELSE /\ strikes' = [strikes EXCEPT ![ip] = IF n > MaxStrikes THEN MaxStrikes ELSE n]
                /\ ipBans' = ipBans
        /\ UNCHANGED <<unproxied, peer, origin, perIp, sessionVars, seat, auths, idBans>>

(* Five minutes without a further event, or the periodic cleanup. *)
StrikesExpire(ip) ==
    /\ strikes[ip] > 0
    /\ strikes' = [strikes EXCEPT ![ip] = 0]
    /\ UNCHANGED <<socket, unproxied, peer, origin, perIp, sessionVars, seat, auths, banVars>>

(* The close event: TcpServer's handler, then handleDisconnection. *)
SocketClosed(c) ==
    /\ socket[c] = "destroyed"
    /\ socket' = [socket EXCEPT ![c] = "closed"]
    /\ perIp' = [perIp EXCEPT ![peer[c]] = IF @ <= 1 THEN 0 ELSE @ - 1]
    /\ seat' = SeatsWithout(seat, c)
    /\ userConn' = UserConnWithout(c)
    /\ sessions' = [sessions EXCEPT ![c] = NoUser]
    /\ known' = known \ {c}
    /\ closers' = closers \ {c}
    /\ UNCHANGED <<unproxied, peer, origin, strikes, auths, banVars>>

-----------------------------------------------------------------------------
(* Logging in. *)

Authenticate(c, u, s) ==
    /\ socket[c] = "open"
    /\ c \notin unproxied
    /\ sessions[c] = NoUser
    /\ u \in Account[c]
    /\ auths[s] = Idle
    /\ auths' = [auths EXCEPT ![s] = [phase |-> "token", conn |-> c, user |-> u]]
    /\ UNCHANGED <<socket, netVars, sessionVars, seat, banVars>>

TokenRejected(s) ==
    /\ auths[s].phase = "token"
    /\ auths' = [auths EXCEPT ![s] = Idle]
    /\ UNCHANGED <<socket, netVars, sessionVars, seat, banVars>>

(* A connection that has closed meanwhile has no address any more. *)
AdminBanned(c) == c \in known /\ ipBans[origin[c]] = "admin"

(* The token names a user: bans are checked, then the profile is fetched. *)
TokenAccepted(s) ==
    LET c == auths[s].conn
        u == auths[s].user
    IN  /\ auths[s].phase = "token"
        /\ IF AdminBanned(c) \/ u \in idBans
           THEN /\ auths' = [auths EXCEPT ![s] = Idle]
                /\ socket' = CloserOf({c})
           ELSE /\ auths' = [auths EXCEPT ![s].phase = "info"]
                /\ socket' = socket
        /\ UNCHANGED <<netVars, sessionVars, seat, banVars>>

(* migrateConnection: the room of u sends its messages to c from now on.   *)
Slip_SeatNotMoved(u, c) == seat
Migrated(u, c) == [seat EXCEPT ![u] = c]

Slip_OldSessionKept(s) ==
    LET c == auths[s].conn
        u == auths[s].user
        old == userConn[u]
        elsewhere == old \notin {NoConn, c}
        migrates == elsewhere /\ seat[u] # NoConn
    IN  /\ auths[s].phase = "info"
        /\ auths' = [auths EXCEPT ![s] = Idle]
        /\ seat' = IF migrates THEN Migrated(u, c)
                   ELSE IF elsewhere THEN SeatsWithout(seat, old)
                   ELSE seat
        /\ socket' = IF elsewhere THEN CloserOf({old}) ELSE socket
        /\ closers' = IF elsewhere THEN closers \ {old} ELSE closers
        /\ known' = IF elsewhere /\ ~migrates THEN known \ {old} ELSE known
        /\ sessions' = [d \in Conns |-> IF d = c THEN u
                                        ELSE IF elsewhere /\ ~migrates /\ d = old THEN NoUser
                                        ELSE sessions[d]]
        /\ userConn' = [v \in Users |-> IF v = u THEN c
                                       ELSE IF elsewhere /\ ~migrates THEN UserConnWithout(old)[v]
                                       ELSE userConn[v]]
        /\ UNCHANGED <<netVars, banVars>>

Slip_ClosedTooLate(s) ==
    LET c == auths[s].conn
        u == auths[s].user
        old == userConn[u]
        elsewhere == old \notin {NoConn, c}
        migrates == elsewhere /\ seat[u] # NoConn
    IN  /\ auths[s].phase = "info"
        /\ auths' = [auths EXCEPT ![s] = Idle]
        /\ seat' = IF migrates THEN Migrated(u, c)
                   ELSE IF elsewhere THEN SeatsWithout(seat, old)
                   ELSE seat
        /\ socket' = IF migrates THEN CloserOf({old}) ELSE socket
        /\ closers' = IF elsewhere THEN closers \ {old} ELSE closers
        /\ known' = IF elsewhere /\ ~migrates THEN known \ {old} ELSE known
        /\ sessions' = [d \in Conns |-> IF d = c THEN u
                                        ELSE IF elsewhere /\ d = old THEN NoUser
                                        ELSE sessions[d]]
        /\ userConn' = [v \in Users |-> IF v = u THEN c
                                       ELSE IF elsewhere /\ ~migrates THEN UserConnWithout(old)[v]
                                       ELSE userConn[v]]
        /\ UNCHANGED <<netVars, banVars>>

(* The profile has arrived, or failed to (which is not an error).  If the  *)
(* user is logged in elsewhere, that connection is closed: a player in a   *)
(* room is moved to the new connection without the disconnection logic, a  *)
(* user outside is disconnected.                                           *)
UserInfoFetched(s) ==
    LET c == auths[s].conn
        u == auths[s].user
        old == userConn[u]
        elsewhere == old \notin {NoConn, c}
        migrates == elsewhere /\ seat[u] # NoConn
    IN  /\ auths[s].phase = "info"
        /\ auths' = [auths EXCEPT ![s] = Idle]
        /\ seat' = IF migrates THEN Migrated(u, c)
                   ELSE IF elsewhere THEN SeatsWithout(seat, old)
                   ELSE seat
        /\ socket' = IF elsewhere THEN CloserOf({old}) ELSE socket
        /\ closers' = IF elsewhere THEN closers \ {old} ELSE closers
        /\ known' = IF elsewhere /\ ~migrates THEN known \ {old} ELSE known
        /\ sessions' = [d \in Conns |-> IF d = c THEN u
                                        ELSE IF elsewhere /\ d = old THEN NoUser
                                        ELSE sessions[d]]
        /\ userConn' = [v \in Users |-> IF v = u THEN c
                                       ELSE IF elsewhere /\ ~migrates THEN UserConnWithout(old)[v]
                                       ELSE userConn[v]]
        /\ UNCHANGED <<netVars, banVars>>

-----------------------------------------------------------------------------
(* Rooms, as far as connections see them. *)

EnterRoom(c) ==
    LET u == sessions[c] IN
    /\ socket[c] = "open"
    /\ u # NoUser
    /\ seat[u] = NoConn
    /\ seat' = [seat EXCEPT ![u] = c]
    /\ UNCHANGED <<socket, netVars, sessionVars, auths, banVars>>

(* A player leaves, or an administrator closes the room of some. *)
LeaveRoom(us) ==
    /\ \A u \in us : seat[u] # NoConn
    /\ seat' = [u \in Users |-> IF u \in us THEN NoConn ELSE seat[u]]
    /\ UNCHANGED <<socket, netVars, sessionVars, auths, banVars>>

Kick(u) ==
    /\ Kicked({u})
    /\ UNCHANGED <<netVars, sessionVars, auths, banVars>>

-----------------------------------------------------------------------------
(* Bans by administrators. *)

BanId(u) ==
    /\ idBans' = idBans \cup {u}
    /\ Kicked({u})
    /\ UNCHANGED <<netVars, sessionVars, auths, ipBans>>

UnbanId(u) ==
    /\ u \in idBans
    /\ idBans' = idBans \ {u}
    /\ UNCHANGED <<socket, netVars, sessionVars, seat, auths, ipBans>>

(* banIp and kickIp: the users on the address are kicked, connections that *)
(* have not logged in are closed.                                          *)
BanIp(ip) ==
    LET at == {c \in known : origin[c] = ip}
        us == {sessions[c] : c \in at} \ {NoUser}
    IN  /\ ipBans' = IpBanned(ip, "admin")
        /\ seat' = [u \in Users |-> IF u \in us THEN NoConn ELSE seat[u]]
        /\ socket' = CloserOf({userConn[u] : u \in us} \cup {c \in at : sessions[c] = NoUser})
        /\ UNCHANGED <<netVars, sessionVars, auths, idBans>>

UnbanIp(ip) ==
    /\ ipBans[ip] # "none"
    /\ ipBans' = [ipBans EXCEPT ![ip] = "none"]
    /\ UNCHANGED <<socket, netVars, sessionVars, seat, auths, idBans>>

-----------------------------------------------------------------------------
Wire ==
    \/ \E c \in Conns, ip \in Ips : Accept(c, ip) \/ ProxyHeader(c, ip)
    \/ \E ip \in Ips : AcceptBanned(ip) \/ StrikesExpire(ip)
    \/ \E c \in Conns, closes \in BOOLEAN : Suspicious(c, closes)
    \/ \E c \in Conns : HangUp(c) \/ SocketClosed(c)

Logins ==
    \E s \in Slots :
        \/ \E c \in Conns, u \in Users : Authenticate(c, u, s)
        \/ TokenRejected(s) \/ TokenAccepted(s) \/ UserInfoFetched(s)

InRooms ==
    \/ \E c \in Conns : EnterRoom(c)
    \/ \E us \in SUBSET Users \ {{}} : LeaveRoom(us)
    \/ \E u \in Users : Kick(u)

Bans ==
    \/ \E u \in Users : BanId(u) \/ UnbanId(u)
    \/ \E ip \in Ips : BanIp(ip) \/ UnbanIp(ip)

Next == Wire \/ Logins \/ InRooms \/ Bans

Spec == Init /\ [][Next]_vars

(* Node emits the close event of every socket that was destroyed. *)
FairSpec == Spec /\ \A c \in Conns : WF_vars(SocketClosed(c))

-----------------------------------------------------------------------------
(* The limit per address counts every connection that is not closed yet:   *)
(* connectionsPerIp is never below their number, whoever closed them and   *)
(* in whatever order their close events come.                              *)
LimitHolds == \A ip \in Ips : Cardinality(Live(ip)) <= perIp[ip]

(* The client of a connection sends the tokens of at most one user: what   *)
(* the next two invariants assume.  (Two tokens sent at once both pass the *)
(* test for a session, and the second login replaces the first.)           *)
OneUserEach == \A c \in Conns : \A u, v \in Account[c] : u = v

(* sessions and userConnections, two maps updated apart from each other in *)
(* logins, take-overs and close events, stay inverse to each other.        *)
SessionsIndexed ==
    \A u \in Users, c \in Conns : userConn[u] = c <=> sessions[c] = u

(* Whoever is in a room is logged in on the very connection the room sends *)
(* its messages to, through every migration to a new connection.           *)
SeatHasSession ==
    \A u \in Users, c \in Conns : seat[u] = c => sessions[c] = u

(* The late close event of a connection that a reconnection has replaced   *)
(* does not take the player out of the room it was migrated in.            *)
LateCloseSparesSeat ==
    [][\A c \in Conns : SocketClosed(c) =>
            \A u \in Users : seat[u] # c => seat'[u] = seat[u]]_vars

(* Nobody is logged out behind its back: a connection that loses its       *)
(* session, to the same user's login elsewhere, is closed.                 *)
LoggedOutIsClosed ==
    [][\A c \in Conns :
            sessions[c] # NoUser /\ sessions'[c] = NoUser => socket'[c] # "open"]_vars

(* A room does not keep the seat of a connection that dies: the player is  *)
(* taken out, or comes back on another connection.                         *)
DeadSeatsFreed ==
    \A u \in Users, c \in Conns :
        (seat[u] = c /\ socket[c] = "destroyed") ~> seat[u] # c

-----------------------------------------------------------------------------
OnlineUsers == INSTANCE Presence WITH online <- userConn

(* Two awaits, two maps, seats and late close events together behave like  *)
(* logging in at one stroke: whatever interleaves, a user is online once,  *)
(* a take-over carries the seat along, and going offline empties it.       *)
PresenceExact == OnlineUsers!Spec

-----------------------------------------------------------------------------
(* A statement of the source that the code does not keep. *)

(* "Limit connections per IP": an address at its limit has that many       *)
(* connections.  Attempts under a system ban are counted for ever.         *)
LimitIsOfConnections ==
    \A ip \in Ips : perIp[ip] >= MaxPerIp => Cardinality(Live(ip)) >= MaxPerIp
=============================================================================
