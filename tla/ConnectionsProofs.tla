------------------------- MODULE ConnectionsProofs -------------------------
(* Theorems about Connections for all values of its constants. *)
EXTENDS Connections, FiniteSetTheorems, TLAPS

USE AccountAssumption, NoneAssumption, LimitsAssumption

-----------------------------------------------------------------------------
(* Types. *)

LEMMA DestroyType ==
    ASSUME socket \in [Conns -> {"none", "open", "destroyed", "closed"}], NEW cs
    PROVE  Destroy(cs) \in [Conns -> {"none", "open", "destroyed", "closed"}]
BY DEF Destroy

LEMMA TypeInit == Init => TypeOK
BY DEF Init, TypeOK

LEMMA WireType == TypeOK /\ Wire => TypeOK'
<1> SUFFICES ASSUME TypeOK, Wire PROVE TypeOK'
  OBVIOUS
<1>1. ASSUME NEW c \in Conns, NEW ip \in Ips, Accept(c, ip) PROVE TypeOK'
  BY <1>1 DEF TypeOK, Accept, banVars
<1>2. ASSUME NEW c \in Conns, NEW ip \in Ips, ProxyHeader(c, ip) PROVE TypeOK'
  BY <1>2, DestroyType DEF TypeOK, ProxyHeader, sessionVars, banVars
<1>3. ASSUME NEW ip \in Ips, AcceptBanned(ip) PROVE TypeOK'
  BY <1>3 DEF TypeOK, AcceptBanned, sessionVars, banVars
<1>4. ASSUME NEW ip \in Ips, StrikesExpire(ip) PROVE TypeOK'
  BY <1>4 DEF TypeOK, StrikesExpire, sessionVars, banVars
<1>5. ASSUME NEW c \in Conns, NEW closes \in BOOLEAN, Suspicious(c, closes) PROVE TypeOK'
  <2>1. /\ strikes' \in [Ips -> 0..MaxStrikes]
        /\ ipBans' \in [Ips -> {"none", "admin", "System"}]
    BY <1>5 DEF TypeOK, Suspicious, IpBanned
  <2>2. socket' \in [Conns -> {"none", "open", "destroyed", "closed"}]
    BY <1>5, DestroyType DEF TypeOK, Suspicious
  <2>3. QED  BY <1>5, <2>1, <2>2 DEF TypeOK, Suspicious, IpBanned, sessionVars
<1>6. ASSUME NEW c \in Conns, HangUp(c) PROVE TypeOK'
  BY <1>6, DestroyType DEF TypeOK, HangUp, netVars, sessionVars, banVars
<1>7. ASSUME NEW c \in Conns, SocketClosed(c) PROVE TypeOK'
  <2>1. perIp' \in [Ips -> 0..MaxPerIp]
    <3>1. /\ perIp \in [Ips -> 0..MaxPerIp]
          /\ perIp' = [perIp EXCEPT ![peer[c]] = IF @ <= 1 THEN 0 ELSE @ - 1]
      BY <1>7 DEF TypeOK, SocketClosed
    <3>2. \A n \in 0..MaxPerIp : (IF n <= 1 THEN 0 ELSE n - 1) \in 0..MaxPerIp
      OBVIOUS
    <3>3. QED  BY <3>1, <3>2
  <2>2. QED
    BY <1>7, <2>1 DEF TypeOK, SocketClosed, SeatsWithout, UserConnWithout, banVars
<1>8. QED  BY <1>1, <1>2, <1>3, <1>4, <1>5, <1>6, <1>7 DEF Wire

LEMMA LoginsType == TypeOK /\ Logins => TypeOK'
<1> SUFFICES ASSUME TypeOK, NEW s \in Slots,
                    \/ \E c \in Conns, u \in Users : Authenticate(c, u, s)
                    \/ TokenRejected(s) \/ TokenAccepted(s) \/ UserInfoFetched(s)
             PROVE  TypeOK'
  BY DEF Logins
<1>1. auths[s].phase # "idle" => auths[s] \in Login
  BY DEF TypeOK, Idle
<1>2. ASSUME NEW c \in Conns, NEW u \in Users, Authenticate(c, u, s) PROVE TypeOK'
  BY <1>2 DEF TypeOK, Authenticate, Login, netVars, sessionVars, banVars
<1>3. CASE TokenRejected(s)
  BY <1>3 DEF TypeOK, TokenRejected, netVars, sessionVars, banVars
<1>4. CASE TokenAccepted(s)
  <2>1. auths[s] \in Login
    BY <1>1, <1>4 DEF TokenAccepted
  <2>2. auths' \in [Slots -> Login \cup {Idle}]
    BY <1>4, <2>1 DEF TypeOK, TokenAccepted, Login
  <2>3. socket' \in [Conns -> {"none", "open", "destroyed", "closed"}]
    BY <1>4, DestroyType DEF TypeOK, TokenAccepted, CloserOf
  <2>4. QED  BY <1>4, <2>2, <2>3 DEF TypeOK, TokenAccepted, netVars, sessionVars, banVars
<1>5. CASE UserInfoFetched(s)
  <2>1. auths[s].conn \in Conns /\ auths[s].user \in Users
    BY <1>1, <1>5 DEF UserInfoFetched, Login
  <2>2. socket' \in [Conns -> {"none", "open", "destroyed", "closed"}]
    BY <1>5, DestroyType DEF TypeOK, UserInfoFetched, CloserOf
  <2>3. auths' \in [Slots -> Login \cup {Idle}]
    BY <1>5 DEF TypeOK, UserInfoFetched
  <2>4. closers' \subseteq Conns /\ known' \subseteq Conns
    BY <1>5 DEF TypeOK, UserInfoFetched
  <2>5. seat' \in [Users -> Conns \cup {NoConn}]
    BY <1>5, <2>1 DEF TypeOK, UserInfoFetched, Migrated, SeatsWithout
  <2>6. /\ sessions' \in [Conns -> Users \cup {NoUser}]
        /\ userConn' \in [Users -> Conns \cup {NoConn}]
    BY <1>5, <2>1 DEF TypeOK, UserInfoFetched, UserConnWithout
  <2>7. QED
    BY <1>5, <2>2, <2>3, <2>4, <2>5, <2>6 DEF TypeOK, UserInfoFetched, netVars, banVars
<1>6. QED  BY <1>2, <1>3, <1>4, <1>5

LEMMA InRoomsType == TypeOK /\ InRooms => TypeOK'
<1> SUFFICES ASSUME TypeOK, InRooms PROVE TypeOK'
  OBVIOUS
<1>1. ASSUME NEW c \in Conns, EnterRoom(c) PROVE TypeOK'
  BY <1>1 DEF TypeOK, EnterRoom, netVars, sessionVars, banVars
<1>2. ASSUME NEW us \in SUBSET Users, LeaveRoom(us) PROVE TypeOK'
  BY <1>2 DEF TypeOK, LeaveRoom, netVars, sessionVars, banVars
<1>3. ASSUME NEW u \in Users, Kick(u) PROVE TypeOK'
  BY <1>3, DestroyType DEF TypeOK, Kick, Kicked, CloserOf, netVars, sessionVars, banVars
<1>4. QED  BY <1>1, <1>2, <1>3 DEF InRooms

LEMMA BansType == TypeOK /\ Bans => TypeOK'
<1> SUFFICES ASSUME TypeOK, Bans PROVE TypeOK'
  OBVIOUS
<1>1. ASSUME NEW u \in Users, BanId(u) PROVE TypeOK'
  BY <1>1, DestroyType DEF TypeOK, BanId, Kicked, CloserOf, netVars, sessionVars
<1>2. ASSUME NEW u \in Users, UnbanId(u) PROVE TypeOK'
  BY <1>2 DEF TypeOK, UnbanId, netVars, sessionVars
<1>3. ASSUME NEW ip \in Ips, BanIp(ip) PROVE TypeOK'
  BY <1>3, DestroyType DEF TypeOK, BanIp, IpBanned, CloserOf, netVars, sessionVars
<1>4. ASSUME NEW ip \in Ips, UnbanIp(ip) PROVE TypeOK'
  BY <1>4 DEF TypeOK, UnbanIp, netVars, sessionVars
<1>5. QED  BY <1>1, <1>2, <1>3, <1>4 DEF Bans

(* All variables of connections, logins and bans keep their types, for any *)
(* number of connections, users, addresses and logins in flight; the count *)
(* of connections of an address stays within MAX_CONNECTIONS_PER_IP.       *)
THEOREM TypeCorrect == Spec => []TypeOK
<1>1. TypeOK /\ UNCHANGED vars => TypeOK'
  BY DEF TypeOK, vars
<1>2. TypeOK /\ [Next]_vars => TypeOK'
  BY <1>1, WireType, LoginsType, InRoomsType, BansType DEF Next
<1>3. QED  BY TypeInit, <1>2, PTL DEF Spec

-----------------------------------------------------------------------------
(* Sessions. *)

(* Sessions and logins in flight belong to the account of their connection. *)
AccountsKept ==
    /\ \A c \in Conns : sessions[c] = NoUser \/ sessions[c] \in Account[c]
    /\ \A s \in Slots : auths[s].phase # "idle" => auths[s].user \in Account[auths[s].conn]

SInv == TypeOK /\ AccountsKept /\ SessionsIndexed /\ SeatHasSession

LEMMA SessionsInit == Init => SInv
BY TypeInit DEF Init, SInv, AccountsKept, SessionsIndexed, SeatHasSession, Idle

(* Steps that take seats away and leave the rest alone. *)
LEMMA SeatsTaken ==
    ASSUME SInv,
           UNCHANGED <<sessions, userConn, auths>>,
           \A u \in Users : seat'[u] \in {seat[u], NoConn}
    PROVE  AccountsKept' /\ SessionsIndexed' /\ SeatHasSession'
<1>1. AccountsKept' /\ SessionsIndexed'
  BY DEF SInv, AccountsKept, SessionsIndexed
<1>2. ASSUME NEW u \in Users, NEW c \in Conns, seat'[u] = c PROVE sessions'[c] = u
  BY <1>2 DEF SInv, SeatHasSession
<1>3. QED  BY <1>1, <1>2 DEF SeatHasSession

LEMMA WireSessions == SInv /\ Wire => AccountsKept' /\ SessionsIndexed' /\ SeatHasSession'
<1> SUFFICES ASSUME SInv, Wire PROVE AccountsKept' /\ SessionsIndexed' /\ SeatHasSession'
  OBVIOUS
<1>1. ASSUME NEW c \in Conns, SocketClosed(c)
      PROVE  AccountsKept' /\ SessionsIndexed' /\ SeatHasSession'
  <2>1. /\ sessions \in [Conns -> Users \cup {NoUser}]
        /\ userConn \in [Users -> Conns \cup {NoConn}]
        /\ sessions' = [sessions EXCEPT ![c] = NoUser]
        /\ userConn' = UserConnWithout(c)
        /\ seat' = SeatsWithout(seat, c)
        /\ auths' = auths
    BY <1>1 DEF SInv, TypeOK, SocketClosed
  <2>2. AccountsKept'
    BY <2>1 DEF SInv, AccountsKept
  <2>3. ASSUME NEW u \in Users, NEW d \in Conns PROVE userConn'[u] = d <=> sessions'[d] = u
    BY <2>1 DEF SInv, SessionsIndexed, UserConnWithout
  <2>4. ASSUME NEW u \in Users, NEW d \in Conns, seat'[u] = d PROVE sessions'[d] = u
    BY <2>1, <2>4 DEF SInv, SeatHasSession, SeatsWithout
  <2>5. QED  BY <2>2, <2>3, <2>4 DEF SessionsIndexed, SeatHasSession
<1>2. CASE ~\E c \in Conns : SocketClosed(c)
  <2>1. UNCHANGED <<sessions, userConn, auths, seat>>
    BY <1>2 DEF Wire, Accept, AcceptBanned, ProxyHeader, StrikesExpire, Suspicious, HangUp,
                sessionVars
  <2>2. QED  BY <2>1, SeatsTaken
<1>3. QED  BY <1>1, <1>2

LEMMA InRoomsSessions == SInv /\ InRooms => AccountsKept' /\ SessionsIndexed' /\ SeatHasSession'
<1> SUFFICES ASSUME SInv, InRooms PROVE AccountsKept' /\ SessionsIndexed' /\ SeatHasSession'
  OBVIOUS
<1>1. ASSUME NEW c \in Conns, EnterRoom(c)
      PROVE  AccountsKept' /\ SessionsIndexed' /\ SeatHasSession'
  <2>1. UNCHANGED <<sessions, userConn, auths>> /\ seat' = [seat EXCEPT ![sessions[c]] = c]
    BY <1>1 DEF EnterRoom, sessionVars
  <2>2. AccountsKept' /\ SessionsIndexed'
    BY <2>1 DEF SInv, AccountsKept, SessionsIndexed
  <2>3. ASSUME NEW u \in Users, NEW d \in Conns, seat'[u] = d PROVE sessions'[d] = u
    BY <2>1, <2>3 DEF SInv, TypeOK, SeatHasSession
  <2>4. QED  BY <2>2, <2>3 DEF SeatHasSession
<1>2. ASSUME NEW us \in SUBSET Users, LeaveRoom(us)
      PROVE  AccountsKept' /\ SessionsIndexed' /\ SeatHasSession'
  BY <1>2, SeatsTaken DEF LeaveRoom, sessionVars
<1>3. ASSUME NEW u \in Users, Kick(u)
      PROVE  AccountsKept' /\ SessionsIndexed' /\ SeatHasSession'
  BY <1>3, SeatsTaken DEF Kick, Kicked, sessionVars
<1>4. QED  BY <1>1, <1>2, <1>3 DEF InRooms

LEMMA BansSessions == SInv /\ Bans => AccountsKept' /\ SessionsIndexed' /\ SeatHasSession'
<1> SUFFICES ASSUME SInv, Bans PROVE AccountsKept' /\ SessionsIndexed' /\ SeatHasSession'
  OBVIOUS
<1>1. UNCHANGED <<sessions, userConn, auths>> /\ \A u \in Users : seat'[u] \in {seat[u], NoConn}
  BY DEF Bans, BanId, UnbanId, BanIp, UnbanIp, Kicked, sessionVars
<1>2. QED  BY <1>1, SeatsTaken

(* A take-over: the heart of the matter.  Without OneUserEach, c might     *)
(* have had a session of another user, whose index entry would stay.       *)
LEMMA LoginsSessions ==
    ASSUME OneUserEach, SInv, Logins
    PROVE  AccountsKept' /\ SessionsIndexed' /\ SeatHasSession'
<1>1. PICK s \in Slots : \/ \E c \in Conns, u \in Users : Authenticate(c, u, s)
                         \/ TokenRejected(s) \/ TokenAccepted(s) \/ UserInfoFetched(s)
  BY DEF Logins
<1>2. auths \in [Slots -> Login \cup {Idle}] /\ (auths[s].phase # "idle" => auths[s] \in Login)
  BY DEF SInv, TypeOK, Idle
<1>3. CASE UserInfoFetched(s)
  <2> DEFINE c == auths[s].conn
             u == auths[s].user
             old == userConn[u]
             elsewhere == old \notin {NoConn, c}
             migrates == elsewhere /\ seat[u] # NoConn
  <2>1. c \in Conns /\ u \in Users /\ u \in Account[c]
    BY <1>2, <1>3 DEF UserInfoFetched, SInv, AccountsKept, Login
  <2>2. /\ auths' = [auths EXCEPT ![s] = Idle]
        /\ seat' = IF migrates THEN [seat EXCEPT ![u] = c]
                   ELSE IF elsewhere THEN SeatsWithout(seat, old)
                   ELSE seat
        /\ sessions' = [d \in Conns |-> IF d = c THEN u
                                        ELSE IF elsewhere /\ d = old THEN NoUser
                                        ELSE sessions[d]]
        /\ userConn' = [v \in Users |-> IF v = u THEN c
                                        ELSE IF elsewhere /\ ~migrates THEN UserConnWithout(old)[v]
                                        ELSE userConn[v]]
    BY <1>3 DEF UserInfoFetched, Migrated
  <2>3. /\ sessions \in [Conns -> Users \cup {NoUser}]
        /\ userConn \in [Users -> Conns \cup {NoConn}]
        /\ seat \in [Users -> Conns \cup {NoConn}]
        /\ \A v \in Users, d \in Conns : userConn[v] = d <=> sessions[d] = v
        /\ \A v \in Users, d \in Conns : seat[v] = d => sessions[d] = v
    BY DEF SInv, TypeOK, SessionsIndexed, SeatHasSession
  <2>4. sessions[c] \in {u, NoUser}
    BY <2>1 DEF SInv, AccountsKept, OneUserEach
  <2>5. elsewhere => old \in Conns /\ sessions[old] = u /\ c # old
    BY <2>1, <2>3
  <2> HIDE DEF c, u, old, elsewhere, migrates
  <2>6. \A v \in Users : userConn'[v] = IF v = u THEN c ELSE userConn[v]
    BY <2>2, <2>3, <2>5 DEF UserConnWithout
  <2>7. \A v \in Users \ {u} : seat'[v] = seat[v]
    BY <2>1, <2>2, <2>3, <2>5 DEF SeatsWithout
  <2>8. seat'[u] \in {c, NoConn}
    <3>1. CASE elsewhere
      <4>1. CASE migrates
        BY <2>1, <2>2, <2>3, <4>1
      <4>2. CASE ~migrates
        BY <2>1, <2>2, <2>5, <3>1, <4>2 DEF SeatsWithout
      <4>3. QED  BY <4>1, <4>2
    <3>2. CASE ~elsewhere
      <4>1. seat' = seat
        BY <2>2, <3>2 DEF migrates
      <4>2. userConn[u] \in {NoConn, c}
        BY <3>2 DEF elsewhere, old
      <4>3. QED  BY <2>1, <2>3, <4>1, <4>2
    <3>3. QED  BY <3>1, <3>2
  <2>9. AccountsKept'
    <3>1. \A d \in Conns : sessions'[d] = NoUser \/ sessions'[d] \in Account[d]
      BY <2>1, <2>2 DEF SInv, AccountsKept
    <3>2. \A t \in Slots : auths'[t].phase # "idle" => auths'[t] = auths[t]
      BY <1>2, <2>2 DEF Idle
    <3>3. QED  BY <3>1, <3>2 DEF SInv, AccountsKept
  <2>10. ASSUME NEW v \in Users, NEW d \in Conns PROVE userConn'[v] = d <=> sessions'[d] = v
    <3>1. CASE v = u
      <4>1. CASE d = c  BY <2>1, <2>2, <2>6, <3>1, <4>1
      <4>2. CASE d # c
        <5>1. sessions'[d] # u
          <6>1. CASE elsewhere /\ d = old  BY <2>1, <2>2, <4>2, <6>1
          <6>2. CASE ~(elsewhere /\ d = old)
            <7>1. sessions'[d] = sessions[d]
              BY <2>2, <4>2, <6>2
            <7>2. userConn[u] # d
              BY <2>1, <4>2, <6>2 DEF elsewhere, old
            <7>3. QED  BY <2>1, <2>3, <7>1, <7>2
          <6>3. QED  BY <6>1, <6>2
        <5>2. QED  BY <2>6, <3>1, <4>2, <5>1
      <4>3. QED  BY <4>1, <4>2
    <3>2. CASE v # u
      <4>1. userConn'[v] = userConn[v]
        BY <2>6, <3>2
      <4>2. sessions'[d] = v <=> sessions[d] = v
        BY <2>1, <2>2, <2>4, <2>5, <3>2
      <4>3. QED  BY <2>3, <4>1, <4>2
    <3>3. QED  BY <3>1, <3>2
  <2>11. ASSUME NEW v \in Users, NEW d \in Conns, seat'[v] = d PROVE sessions'[d] = v
    <3>1. CASE v = u
      BY <2>1, <2>2, <2>8, <2>11, <3>1
    <3>2. CASE v # u
      <4>1. sessions[d] = v
        BY <2>3, <2>7, <2>11, <3>2
      <4>2. QED  BY <2>1, <2>2, <2>4, <2>5, <3>2, <4>1
    <3>3. QED  BY <3>1, <3>2
  <2>12. QED  BY <2>9, <2>10, <2>11 DEF SessionsIndexed, SeatHasSession
<1>4. CASE ~UserInfoFetched(s)
  <2>1. UNCHANGED <<sessions, userConn, seat>>
    BY <1>1, <1>4 DEF Authenticate, TokenRejected, TokenAccepted, sessionVars
  <2>2. SessionsIndexed' /\ SeatHasSession'
    BY <2>1 DEF SInv, SessionsIndexed, SeatHasSession
  <2>3. \A t \in Slots : auths'[t].phase # "idle" => auths'[t].user \in Account[auths'[t].conn]
    <3>1. ASSUME NEW c \in Conns, NEW u \in Users, Authenticate(c, u, s)
          PROVE  \A t \in Slots : auths'[t].phase # "idle" => auths'[t].user \in Account[auths'[t].conn]
      BY <1>2, <3>1 DEF Authenticate, SInv, AccountsKept
    <3>2. CASE TokenRejected(s)
      BY <1>2, <3>2 DEF TokenRejected, SInv, AccountsKept, Idle
    <3>3. CASE TokenAccepted(s)
      <4>1. auths[s] \in Login
        BY <1>2, <3>3 DEF TokenAccepted
      <4>2. \/ auths' = [auths EXCEPT ![s] = Idle]
            \/ auths' = [auths EXCEPT ![s].phase = "info"]
        BY <3>3 DEF TokenAccepted
      <4>3. auths[s].user \in Account[auths[s].conn]
        BY <3>3 DEF TokenAccepted, SInv, AccountsKept
      <4>4. QED  BY <1>2, <4>1, <4>2, <4>3 DEF SInv, AccountsKept, Idle, Login
    <3>4. QED  BY <1>1, <1>4, <3>1, <3>2, <3>3
  <2>4. AccountsKept'
    BY <2>1, <2>3 DEF SInv, AccountsKept
  <2>5. QED  BY <2>2, <2>4
<1>5. QED  BY <1>3, <1>4

(* The session tables and the seats, when every client has one account.    *)
THEOREM SessionsInductive == ASSUME OneUserEach PROVE Spec => []SInv
<1>1. SInv /\ UNCHANGED vars => SInv'
  BY DEF SInv, TypeOK, AccountsKept, SessionsIndexed, SeatHasSession, vars
<1>2. SInv /\ Next => TypeOK'
  BY WireType, LoginsType, InRoomsType, BansType DEF Next, SInv
<1>3. SInv /\ Next => AccountsKept' /\ SessionsIndexed' /\ SeatHasSession'
  BY WireSessions, LoginsSessions, InRoomsSessions, BansSessions DEF Next
<1>4. SInv /\ [Next]_vars => SInv'
  BY <1>1, <1>2, <1>3 DEF SInv
<1>5. QED  BY SessionsInit, <1>4, PTL DEF Spec

(* sessions and userConnections are inverse to each other, whatever logins *)
(* (handleAuthenticate), close events and kicks interleave.                *)
THEOREM SessionsAlwaysIndexed == ASSUME OneUserEach PROVE Spec => []SessionsIndexed
<1>1. SInv => SessionsIndexed
  BY DEF SInv
<1>2. QED  BY <1>1, SessionsInductive, PTL

(* The connection a room has for a player carries that player's session,   *)
(* through migrations and late close events.                               *)
THEOREM SeatsAlwaysHaveSessions == ASSUME OneUserEach PROVE Spec => []SeatHasSession
<1>1. SInv => SeatHasSession
  BY DEF SInv
<1>2. QED  BY <1>1, SessionsInductive, PTL

-----------------------------------------------------------------------------
(* What a step may never do. *)

(* The late close event of a replaced connection leaves the migrated       *)
(* player in its room (migrateConnection, handleDisconnection): the        *)
(* session of that connection went with the take-over.                     *)
THEOREM LateCloseAlwaysSparesSeat == ASSUME OneUserEach PROVE Spec => LateCloseSparesSeat
<1>1. SInv => \A c \in Conns : SocketClosed(c) => \A u \in Users : seat[u] # c => seat'[u] = seat[u]
  <2> SUFFICES ASSUME SInv, NEW c \in Conns, SocketClosed(c), NEW u \in Users, seat[u] # c
               PROVE  seat'[u] = seat[u]
    OBVIOUS
  <2>1. /\ seat[u] \in Conns \cup {NoConn}
        /\ userConn \in [Users -> Conns \cup {NoConn}]
        /\ seat' = SeatsWithout(seat, c)
    BY DEF SInv, TypeOK, SocketClosed
  <2>2. CASE u = sessions[c]
    <3>1. userConn[u] = c
      BY <2>2 DEF SInv, SessionsIndexed
    <3>2. seat[u] \notin Conns
      BY <3>1 DEF SInv, SeatHasSession, SessionsIndexed
    <3>3. QED  BY <2>1, <3>2 DEF SeatsWithout
  <2>3. CASE u # sessions[c]
    BY <2>1, <2>3 DEF SeatsWithout
  <2>4. QED  BY <2>2, <2>3
<1>2. QED  BY <1>1, SessionsInductive, PTL DEF LateCloseSparesSeat

(* An open socket can be destroyed by TcpServer's closer.                  *)
OpenHasCloser == \A c \in Conns : socket[c] = "open" => c \in closers

LEMMA CloserKept == TypeOK /\ OpenHasCloser /\ [Next]_vars => OpenHasCloser'
<1> SUFFICES ASSUME TypeOK, OpenHasCloser, [Next]_vars PROVE OpenHasCloser'
  OBVIOUS
<1>1. ASSUME UNCHANGED closers,
             \A c \in Conns : socket'[c] = "open" => socket[c] = "open"
      PROVE  OpenHasCloser'
  BY <1>1 DEF OpenHasCloser
<1>2. \A cs : \A c \in Conns : Destroy(cs)[c] = "open" => socket[c] = "open"
  BY DEF Destroy
<1>3. CASE Wire
  <2>1. ASSUME NEW c \in Conns, NEW ip \in Ips, Accept(c, ip)  PROVE OpenHasCloser'
    BY <2>1 DEF Accept, OpenHasCloser, TypeOK
  <2>2. ASSUME NEW c \in Conns, SocketClosed(c)  PROVE OpenHasCloser'
    BY <2>2 DEF SocketClosed, OpenHasCloser, TypeOK
  <2>3. CASE ~\E c \in Conns : SocketClosed(c) \/ \E ip \in Ips : Accept(c, ip)
    BY <1>1, <1>2, <1>3, <2>3 DEF Wire, AcceptBanned, ProxyHeader, StrikesExpire, Suspicious,
                                  HangUp, sessionVars
  <2>4. QED  BY <2>1, <2>2, <2>3
<1>4. CASE Logins
  <2>1. PICK s \in Slots : \/ \E c \in Conns, u \in Users : Authenticate(c, u, s)
                           \/ TokenRejected(s) \/ TokenAccepted(s) \/ UserInfoFetched(s)
    BY <1>4 DEF Logins
  <2>2. CASE UserInfoFetched(s)
    <3> DEFINE old == userConn[auths[s].user]
    <3>1. \/ socket' = socket /\ closers' = closers
          \/ socket' = CloserOf({old}) /\ closers' = closers \ {old}
      BY <2>2 DEF UserInfoFetched
    <3>2. CASE socket' = socket /\ closers' = closers
      BY <1>1, <3>2
    <3>3. CASE socket' = CloserOf({old}) /\ closers' = closers \ {old}
      <4> HIDE DEF old
      <4>1. QED  BY <3>3 DEF OpenHasCloser, CloserOf, Destroy
    <3>4. QED  BY <3>1, <3>2, <3>3
  <2>3. CASE ~UserInfoFetched(s)
    BY <1>1, <1>2, <2>1, <2>3 DEF Authenticate, TokenRejected, TokenAccepted, CloserOf, sessionVars
  <2>4. QED  BY <2>2, <2>3
<1>5. CASE InRooms \/ Bans
  BY <1>1, <1>2, <1>5 DEF InRooms, EnterRoom, LeaveRoom, Kick, Kicked, CloserOf,
                          Bans, BanId, UnbanId, BanIp, UnbanIp, sessionVars
<1>6. CASE UNCHANGED vars
  BY <1>6 DEF vars, OpenHasCloser
<1>7. QED  BY <1>3, <1>4, <1>5, <1>6 DEF Next

(* Who loses its session, to a login elsewhere (handleAuthenticate) or to  *)
(* the close event, has no open connection on which it would go on talking *)
(* unknown; also when clients send tokens of several users.                *)
THEOREM LoggedOutAlwaysClosed == Spec => LoggedOutIsClosed
<1>1. Init => OpenHasCloser
  BY DEF Init, OpenHasCloser
<1>2. TypeOK /\ OpenHasCloser /\ [Next]_vars =>
        \A c \in Conns : sessions[c] # NoUser /\ sessions'[c] = NoUser => socket'[c] # "open"
  <2> SUFFICES ASSUME TypeOK, OpenHasCloser, [Next]_vars, NEW c \in Conns,
                      sessions[c] # NoUser, sessions'[c] = NoUser
               PROVE  socket'[c] # "open"
    OBVIOUS
  <2>1. \/ \E d \in Conns : SocketClosed(d)
        \/ \E s \in Slots : UserInfoFetched(s)
    BY DEF Next, Wire, Accept, AcceptBanned, ProxyHeader, StrikesExpire, Suspicious, HangUp,
           Logins, Authenticate, TokenRejected, TokenAccepted, InRooms, EnterRoom, LeaveRoom, Kick,
           Kicked, Bans, BanId, UnbanId, BanIp, UnbanIp, sessionVars, vars
  <2>2. CASE \E d \in Conns : SocketClosed(d)
    BY <2>2 DEF SocketClosed, TypeOK
  <2>3. ASSUME NEW s \in Slots, UserInfoFetched(s)  PROVE socket'[c] # "open"
    <3> DEFINE old == userConn[auths[s].user]
               elsewhere == old \notin {NoConn, auths[s].conn}
    <3>1. auths[s].user # NoUser
      BY <2>3 DEF TypeOK, UserInfoFetched, Login, Idle
    <3>2. elsewhere /\ c = old
      BY <2>3, <3>1 DEF UserInfoFetched
    <3>3. socket' = CloserOf({c})
      BY <2>3, <3>2 DEF UserInfoFetched
    <3>4. QED  BY <3>3 DEF CloserOf, Destroy, OpenHasCloser
  <2>4. QED  BY <2>1, <2>2, <2>3
<1>3. QED  BY <1>1, CloserKept, <1>2, TypeCorrect, PTL DEF Spec, LoggedOutIsClosed

-----------------------------------------------------------------------------
(* Connections implements Presence. *)

(* Steps that only empty seats.                                            *)
LEMMA SeatsLeft ==
    ASSUME SInv, userConn' = userConn, NEW us \in SUBSET Users,
           seat' = [u \in Users |-> IF u \in us THEN NoConn ELSE seat[u]]
    PROVE  OnlineUsers!Next
BY DEF OnlineUsers!Next, OnlineUsers!Leave

LEMMA CloseLogsOut ==
    ASSUME SInv, NEW c \in Conns, SocketClosed(c)
    PROVE  [OnlineUsers!Next]_(OnlineUsers!vars)
<1>1. /\ sessions[c] \in Users \cup {NoUser}
      /\ userConn \in [Users -> Conns \cup {NoConn}] /\ seat \in [Users -> Conns \cup {NoConn}]
      /\ userConn' = UserConnWithout(c) /\ seat' = SeatsWithout(seat, c)
  BY DEF SInv, TypeOK, SocketClosed
<1>2. CASE sessions[c] = NoUser
  BY <1>1, <1>2 DEF UserConnWithout, SeatsWithout, OnlineUsers!vars
<1>3. CASE sessions[c] \in Users
  <2> DEFINE u == sessions[c]
  <2>1. userConn[u] = c
    BY <1>3 DEF SInv, SessionsIndexed
  <2>2. OnlineUsers!LogOut(u)
    BY <1>1, <1>3, <2>1 DEF UserConnWithout, SeatsWithout, OnlineUsers!LogOut
  <2>3. QED  BY <1>3, <2>2 DEF OnlineUsers!Next
<1>4. QED  BY <1>1, <1>2, <1>3

LEMMA InfoLogsIn ==
    ASSUME OneUserEach, SInv, NEW s \in Slots, UserInfoFetched(s)
    PROVE  [OnlineUsers!Next]_(OnlineUsers!vars)
<1> DEFINE c == auths[s].conn
           u == auths[s].user
           old == userConn[u]
           elsewhere == old \notin {NoConn, c}
           migrates == elsewhere /\ seat[u] # NoConn
<1>1. auths[s] \in Login /\ auths[s].phase # "idle"
  BY DEF SInv, TypeOK, UserInfoFetched, Login, Idle
<1>2. c \in Conns /\ u \in Users /\ u \in Account[c]
  BY <1>1 DEF SInv, AccountsKept, Login
<1>3. /\ seat' = IF migrates THEN [seat EXCEPT ![u] = c]
                 ELSE IF elsewhere THEN SeatsWithout(seat, old)
                 ELSE seat
      /\ userConn' = [v \in Users |-> IF v = u THEN c
                                      ELSE IF elsewhere /\ ~migrates THEN UserConnWithout(old)[v]
                                      ELSE userConn[v]]
  BY DEF UserInfoFetched, Migrated
<1>4. /\ sessions \in [Conns -> Users \cup {NoUser}]
      /\ userConn \in [Users -> Conns \cup {NoConn}]
      /\ seat \in [Users -> Conns \cup {NoConn}]
      /\ \A v \in Users, d \in Conns : userConn[v] = d <=> sessions[d] = v
      /\ \A v \in Users, d \in Conns : seat[v] = d => sessions[d] = v
  BY DEF SInv, TypeOK, SessionsIndexed, SeatHasSession
<1>5. sessions[c] \in {u, NoUser}
  BY <1>2 DEF SInv, AccountsKept, OneUserEach
<1>6. seat[u] # NoConn => seat[u] = old
  BY <1>2, <1>4
<1>7. elsewhere => old \in Conns /\ sessions[old] = u
  BY <1>2, <1>4
<1> HIDE DEF c, u, old, elsewhere, migrates
<1>8. userConn' = [userConn EXCEPT ![u] = c]
  BY <1>2, <1>3, <1>4, <1>7 DEF UserConnWithout
<1>9. CASE old = c
  <2>1. seat' = seat /\ userConn' = userConn
    BY <1>2, <1>3, <1>4, <1>8, <1>9 DEF elsewhere, migrates, old
  <2>2. QED  BY <2>1 DEF OnlineUsers!vars
<1>10. CASE old # c
  <2>1. \A v \in Users : userConn[v] # c
    BY <1>2, <1>4, <1>5, <1>10 DEF old
  <2>2. seat' = [seat EXCEPT ![u] = IF @ = NoConn THEN NoConn ELSE c]
    <3>1. CASE elsewhere
      <4>1. CASE migrates
        BY <1>2, <1>3, <1>4, <4>1 DEF migrates
      <4>2. CASE ~migrates
        <5>1. seat[u] = NoConn
          BY <3>1, <4>2 DEF migrates
        <5>2. seat' = SeatsWithout(seat, old)
          BY <1>3, <3>1, <4>2
        <5>3. seat' = seat
          BY <1>2, <1>4, <1>7, <3>1, <5>1, <5>2 DEF SeatsWithout
        <5>4. QED  BY <1>2, <1>4, <5>1, <5>3
      <4>3. QED  BY <4>1, <4>2
    <3>2. CASE ~elsewhere
      <4>1. old = NoConn /\ seat' = seat
        BY <1>3, <1>10, <3>2 DEF elsewhere, migrates
      <4>2. seat[u] = NoConn
        BY <1>6, <4>1
      <4>3. QED  BY <1>2, <1>4, <4>1, <4>2
    <3>3. QED  BY <3>1, <3>2
  <2>3. OnlineUsers!LogIn(u, c)
    BY <1>8, <2>1, <2>2 DEF OnlineUsers!LogIn
  <2>4. QED  BY <1>2, <2>3 DEF OnlineUsers!Next
<1>11. QED  BY <1>9, <1>10

(* The logins of handleAuthenticate, with two awaits, take-overs and late  *)
(* close events, implement Presence for any number of connections, users   *)
(* and logins in flight, with kicks, bans and proxies.                     *)
THEOREM PresenceImplemented == ASSUME OneUserEach PROVE Spec => PresenceExact
<1>1. Init => OnlineUsers!Init
  BY DEF Init, OnlineUsers!Init
<1>2. SInv /\ [Next]_vars => [OnlineUsers!Next]_(OnlineUsers!vars)
  <2> SUFFICES ASSUME SInv, [Next]_vars PROVE [OnlineUsers!Next]_(OnlineUsers!vars)
    OBVIOUS
  <2>1. ASSUME NEW c \in Conns, SocketClosed(c)  PROVE [OnlineUsers!Next]_(OnlineUsers!vars)
    BY <2>1, CloseLogsOut
  <2>2. ASSUME NEW s \in Slots, UserInfoFetched(s)  PROVE [OnlineUsers!Next]_(OnlineUsers!vars)
    BY <2>2, InfoLogsIn
  <2>3. CASE Wire /\ ~\E c \in Conns : SocketClosed(c)
    BY <2>3 DEF Wire, Accept, AcceptBanned, ProxyHeader, StrikesExpire, Suspicious, HangUp,
                sessionVars, OnlineUsers!vars
  <2>4. CASE Logins /\ ~\E s \in Slots : UserInfoFetched(s)
    BY <2>4 DEF Logins, Authenticate, TokenRejected, TokenAccepted, sessionVars, OnlineUsers!vars
  <2>5. ASSUME NEW c \in Conns, EnterRoom(c)  PROVE OnlineUsers!Next
    <3> DEFINE u == sessions[c]
    <3>1. u \in Users /\ userConn[u] = c /\ seat[u] = NoConn
      BY <2>5 DEF EnterRoom, SInv, TypeOK, SessionsIndexed
    <3>2. OnlineUsers!Enter(u)
      BY <2>5, <3>1 DEF EnterRoom, sessionVars, OnlineUsers!Enter
    <3>3. QED  BY <3>1, <3>2 DEF OnlineUsers!Next
  <2>6. ASSUME NEW us \in SUBSET Users, LeaveRoom(us)  PROVE OnlineUsers!Next
    BY <2>6, SeatsLeft DEF LeaveRoom, sessionVars
  <2>7. ASSUME NEW u \in Users, Kick(u) \/ BanId(u)  PROVE OnlineUsers!Next
    BY <2>7, SeatsLeft DEF Kick, BanId, Kicked, sessionVars
  <2>8. ASSUME NEW ip \in Ips, BanIp(ip)  PROVE OnlineUsers!Next
    <3>1. {sessions[c] : c \in {d \in known : origin[d] = ip}} \ {NoUser} \in SUBSET Users
      BY DEF SInv, TypeOK
    <3>2. QED  BY <2>8, <3>1, SeatsLeft DEF BanIp, sessionVars
  <2>9. CASE \/ \E u \in Users : UnbanId(u)
             \/ \E ip \in Ips : UnbanIp(ip)
             \/ UNCHANGED vars
    BY <2>9 DEF UnbanId, UnbanIp, sessionVars, vars, OnlineUsers!vars
  <2>10. QED  BY <2>1, <2>2, <2>3, <2>4, <2>5, <2>6, <2>7, <2>8, <2>9 DEF Next, InRooms, Bans
<1>3. QED  BY <1>1, <1>2, SessionsInductive, PTL DEF Spec, PresenceExact, OnlineUsers!Spec

-----------------------------------------------------------------------------
(* The count of connections of an address. *)

LInv == TypeOK /\ \A ip \in Ips : IsFiniteSet(Live(ip)) /\ Cardinality(Live(ip)) <= perIp[ip]

LEMMA LimitInit == Init => LInv
<1> SUFFICES ASSUME Init PROVE LInv
  OBVIOUS
<1>1. \A ip \in Ips : Live(ip) = {} /\ perIp[ip] = 0
  BY DEF Init, Live
<1>2. QED  BY <1>1, TypeInit, FS_EmptySet DEF LInv

(* Destroying a socket, by whomever, does not change what is counted. *)
LEMMA DestroyLive ==
    ASSUME TypeOK, UNCHANGED peer, NEW cs, socket' \in {socket, Destroy(cs)}, NEW ip \in Ips
    PROVE  Live(ip)' = Live(ip)
<1>1. \A c \in Conns : socket'[c] \in {"open", "destroyed"} <=> socket[c] \in {"open", "destroyed"}
  BY DEF TypeOK, Destroy
<1>2. QED  BY <1>1 DEF Live

(* Steps that count no less and close no socket for good. *)
LEMMA LimitKept ==
    ASSUME LInv, TypeOK', UNCHANGED peer, NEW cs, socket' \in {socket, Destroy(cs)},
           \A ip \in Ips : perIp'[ip] >= perIp[ip]
    PROVE  LInv'
<1> SUFFICES ASSUME NEW ip \in Ips
             PROVE  IsFiniteSet(Live(ip)') /\ Cardinality(Live(ip)') <= perIp'[ip]
  BY DEF LInv
<1>1. Live(ip)' = Live(ip)
  BY DestroyLive DEF LInv
<1>2. perIp[ip] \in Nat /\ perIp'[ip] \in Nat
  BY DEF LInv, TypeOK
<1>3. IsFiniteSet(Live(ip)) /\ Cardinality(Live(ip)) <= perIp[ip] /\ perIp'[ip] >= perIp[ip]
  BY DEF LInv
<1>4. Cardinality(Live(ip)) \in Nat
  BY <1>3, FS_CardinalityType
<1>5. QED  BY <1>1, <1>2, <1>3, <1>4

LEMMA WireLimit == LInv /\ Wire => LInv'
<1> SUFFICES ASSUME LInv, Wire PROVE LInv'
  OBVIOUS
<1>1. TypeOK /\ TypeOK'
  BY WireType DEF LInv
<1>2. ASSUME NEW c \in Conns, NEW ip \in Ips, Accept(c, ip) PROVE LInv'
  <2>1. Live(ip)' = Live(ip) \cup {c} /\ c \notin Live(ip)
    BY <1>1, <1>2 DEF TypeOK, Accept, Live
  <2>2. \A q \in Ips \ {ip} : Live(q)' = Live(q)
    BY <1>1, <1>2 DEF TypeOK, Accept, Live
  <2>3. perIp' = [perIp EXCEPT ![ip] = @ + 1] /\ perIp \in [Ips -> 0..MaxPerIp]
    BY <1>1, <1>2 DEF TypeOK, Accept
  <2>4. IsFiniteSet(Live(ip)) /\ Cardinality(Live(ip)) <= perIp[ip] /\ Cardinality(Live(ip)) \in Nat
    BY FS_CardinalityType DEF LInv
  <2>5. /\ IsFiniteSet(Live(ip) \cup {c})
        /\ Cardinality(Live(ip) \cup {c}) = Cardinality(Live(ip)) + 1
    BY <2>1, <2>4, FS_AddElement
  <2>6. IsFiniteSet(Live(ip)') /\ Cardinality(Live(ip)') <= perIp'[ip]
    BY <2>1, <2>3, <2>4, <2>5
  <2>7. \A q \in Ips \ {ip} : IsFiniteSet(Live(q)') /\ Cardinality(Live(q)') <= perIp'[q]
    BY <2>2, <2>3 DEF LInv
  <2>8. QED  BY <1>1, <2>6, <2>7 DEF LInv
<1>3. ASSUME NEW c \in Conns, SocketClosed(c) PROVE LInv'
  <2> DEFINE p == peer[c]
  <2>1. /\ \A q \in Ips : Live(q)' = IF q = p THEN Live(q) \ {c} ELSE Live(q)
        /\ c \in Live(p)
    BY <1>1, <1>3 DEF TypeOK, SocketClosed, Live
  <2>2. /\ perIp \in [Ips -> 0..MaxPerIp]
        /\ perIp' = [perIp EXCEPT ![p] = IF @ <= 1 THEN 0 ELSE @ - 1]
    BY <1>1, <1>3 DEF TypeOK, SocketClosed
  <2> HIDE DEF p
  <2>3. ASSUME NEW q \in Ips PROVE IsFiniteSet(Live(q)') /\ Cardinality(Live(q)') <= perIp'[q]
    <3>1. /\ IsFiniteSet(Live(q)) /\ Cardinality(Live(q)) <= perIp[q]
          /\ Cardinality(Live(q)) \in Nat /\ perIp[q] \in Nat
      BY <2>2, FS_CardinalityType DEF LInv
    <3>2. CASE q = p
      <4>1. /\ IsFiniteSet(Live(q) \ {c})
            /\ Cardinality(Live(q) \ {c}) = Cardinality(Live(q)) - 1
        BY <2>1, <3>1, <3>2, FS_RemoveElement
      <4>2. perIp'[q] = IF perIp[q] <= 1 THEN 0 ELSE perIp[q] - 1
        BY <2>2, <3>2
      <4>3. Live(q)' = Live(q) \ {c}
        BY <2>1, <3>2
      <4>4. Cardinality(Live(q)) - 1 <= IF perIp[q] <= 1 THEN 0 ELSE perIp[q] - 1
        BY <3>1
      <4>5. QED  BY <4>1, <4>2, <4>3, <4>4
    <3>3. CASE q # p
      <4>1. perIp'[q] = perIp[q]
        BY <2>2, <3>3
      <4>2. QED  BY <2>1, <3>1, <3>3, <4>1
    <3>4. QED  BY <3>2, <3>3
  <2>4. QED  BY <1>1, <2>3 DEF LInv
<1>4. ASSUME NEW ip \in Ips, AcceptBanned(ip) PROVE LInv'
  <2>1. UNCHANGED <<socket, peer>> /\ \A q \in Ips : perIp'[q] >= perIp[q]
    BY <1>1, <1>4 DEF TypeOK, AcceptBanned
  <2>2. QED  BY <1>1, <2>1, LimitKept
<1>5. CASE UNCHANGED <<peer, perIp>> /\ \E cs \in SUBSET Conns : socket' \in {socket, Destroy(cs)}
  <2>1. \A q \in Ips : perIp'[q] >= perIp[q]
    BY <1>1, <1>5 DEF TypeOK
  <2>2. QED  BY <1>1, <1>5, <2>1, LimitKept
<1>6. ASSUME NEW ip \in Ips, NEW c \in Conns, ProxyHeader(c, ip) PROVE LInv'
  BY <1>5, <1>6 DEF ProxyHeader
<1>7. ASSUME NEW c \in Conns, NEW closes \in BOOLEAN, Suspicious(c, closes) PROVE LInv'
  BY <1>5, <1>7 DEF Suspicious
<1>8. ASSUME NEW c \in Conns, HangUp(c) PROVE LInv'
  BY <1>5, <1>8 DEF HangUp, netVars
<1>9. ASSUME NEW ip \in Ips, StrikesExpire(ip) PROVE LInv'
  BY <1>5, <1>9 DEF StrikesExpire
<1>10. QED  BY <1>2, <1>3, <1>4, <1>6, <1>7, <1>8, <1>9 DEF Wire

LEMMA OtherLimit == LInv /\ (Logins \/ InRooms \/ Bans) => LInv'
<1> SUFFICES ASSUME LInv, Logins \/ InRooms \/ Bans PROVE LInv'
  OBVIOUS
<1>1. TypeOK /\ TypeOK'
  BY LoginsType, InRoomsType, BansType DEF LInv
<1>2. UNCHANGED <<peer, perIp>> /\ \E cs : socket' \in {socket, Destroy(cs)}
  <2>1. CASE Logins
    BY <2>1 DEF Logins, Authenticate, TokenRejected, TokenAccepted, UserInfoFetched,
                netVars, CloserOf
  <2>2. CASE InRooms
    BY <2>2 DEF InRooms, EnterRoom, LeaveRoom, Kick, Kicked, netVars, CloserOf
  <2>3. CASE Bans
    BY <2>3 DEF Bans, BanId, UnbanId, BanIp, UnbanIp, Kicked, netVars, CloserOf
  <2>4. QED  BY <2>1, <2>2, <2>3
<1>3. PICK cs : socket' \in {socket, Destroy(cs)}
  BY <1>2
<1>4. \A q \in Ips : perIp'[q] >= perIp[q]
  BY <1>1, <1>2 DEF TypeOK
<1>5. QED  BY <1>1, <1>2, <1>3, <1>4, LimitKept

(* connectionsPerIp is never below the number of an address's connections  *)
(* that are not closed, so none gets more than MAX_CONNECTIONS_PER_IP.     *)
THEOREM LimitAlwaysHolds == Spec => []LimitHolds
<1>1. LInv /\ UNCHANGED vars => LInv'
  BY DEF LInv, TypeOK, Live, vars
<1>2. LInv /\ [Next]_vars => LInv'
  BY <1>1, WireLimit, OtherLimit DEF Next
<1>3. LInv => LimitHolds
  BY DEF LInv, LimitHolds
<1>4. QED  BY LimitInit, <1>2, <1>3, PTL DEF Spec
=============================================================================
