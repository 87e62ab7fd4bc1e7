----------------------------- MODULE Federation -----------------------------
(***************************************************************************)
(* Rooms and players across servers: federation/FederationManager.ts with  *)
(* the hooks of domain/protocol/ProtocolHandler.ts.                        *)
(*                                                                         *)
(* A room lives on one node.  The others keep a cache of who has which     *)
(* room, fed by events, pulls and periodic rounds.  A player of another    *)
(* node sits in a room through a virtual session there, and is proxied at  *)
(* home: its commands are forwarded.  Rooms are reduced to who is in them; *)
(* locks, lists, sizes and phases are a join that may be refused.          *)
(*                                                                         *)
(* The requests of proxied players are calls in slots.  The requester may  *)
(* give up first: an "orphan" is served although nobody waits for it.      *)
(***************************************************************************)
EXTENDS Discovery, FiniteSets

CONSTANTS
    Users,
    RoomIds,
    Home,        \* Home[u]: the node the client of u connects to
    Slots,       \* bound: forwarded requests in flight at once
    Rounds,      \* bound: synchronisation rounds of a node at once
    Nowhere      \* neither a node nor a user

ASSUME HomeAssumption == Home \in [Users -> Nodes]
ASSUME NowhereAssumption == Nowhere \notin Nodes

VARIABLES
    rooms,       \* rooms[n][r]: the players of room r of node n; none: no such room
    sessions,    \* sessions[n][u]: where the sessions of u at n come from: n, its own
                 \*   connection, or the node that proxies it
    userConn,    \* userConn[n][u]: ProtocolHandler.userConnections
    federated,   \* federated[n][u]: the node recorded for u in federatedPlayers
    proxied,     \* proxied[n][u]: the room and node recorded in proxyPlayers
    cache,       \* cache[n][r]: the node of room r in remoteRooms of n
    greeting,    \* rooms made less than 250 ms ago, whose creation is not announced yet
    events,      \* room events on their way
    pulls,       \* room lists asked for after a handshake, on their way
    rounds,      \* rounds[n][i]: a round of syncAllRooms of n
    calls        \* calls[s]: a forwarded join, command or leave

playerVars == <<rooms, sessions, userConn, federated, proxied, calls>>
dirVars == <<cache, greeting, pulls, rounds>>
vars == <<netVars, playerVars, dirVars, events>>

Seats == [room: RoomIds, node: Nodes]
NoSeat == [room |-> Nowhere, node |-> Nowhere]

Cmds == [type: {"create", "join"}, room: RoomIds]
        \cup {[type |-> "leave"], [type |-> "other"]}

Idle == [kind |-> "idle"]
Call == [kind: {"join", "leave", "command"}, at: Nodes, user: Users, seat: Seats,
         cmd: Cmds, phase: {"sent", "orphan", "yes", "no"}]

NoRound == [on |-> FALSE, waiting |-> {}, found |-> [r \in RoomIds |-> Nowhere]]

TypeOK ==
    /\ NetTypeOK
    /\ rooms \in [Nodes -> [RoomIds -> SUBSET Users]]
    /\ sessions \in [Nodes -> [Users -> SUBSET Nodes]]
    /\ userConn \in [Nodes -> [Users -> Nodes \cup {Nowhere}]]
    /\ federated \in [Nodes -> [Users -> Nodes \cup {Nowhere}]]
    /\ proxied \in [Nodes -> [Users -> Seats \cup {NoSeat}]]
    /\ cache \in [Nodes -> [RoomIds -> Nodes \cup {Nowhere}]]
    /\ greeting \subseteq Nodes \X RoomIds
    /\ events \subseteq [type: {"updated", "deleted"}, from: Nodes, to: Nodes, room: RoomIds]
    /\ pulls \subseteq [at: Nodes, of: Nodes, got: (SUBSET RoomIds) \cup {Nowhere}]
    /\ rounds \in [Nodes -> [Rounds -> [on: BOOLEAN, waiting: SUBSET Nodes,
                                        found: [RoomIds -> Nodes \cup {Nowhere}]]]]
    /\ calls \in [Slots -> Call \cup {Idle}]

Exists(n, r) == rooms[n][r] # {}
RoomsOf(n, u) == {r \in RoomIds : u \in rooms[n][r]}
IsProxied(n, u) == proxied[n][u] # NoSeat

(* No calls or news under way, and no rooms. *)
Quiet ==
    /\ federated = [n \in Nodes |-> [u \in Users |-> Nowhere]]
    /\ proxied = [n \in Nodes |-> [u \in Users |-> NoSeat]]
    /\ greeting = {}
    /\ events = {}
    /\ pulls = {}
    /\ rounds = [n \in Nodes |-> [i \in Rounds |-> NoRound]]
    /\ calls = [s \in Slots |-> Idle]

Init ==
    /\ NetInit /\ Quiet
    /\ rooms = [n \in Nodes |-> [r \in RoomIds |-> {}]]
    /\ cache = [n \in Nodes |-> [r \in RoomIds |-> Nowhere]]
    /\ sessions = [n \in Nodes |-> [u \in Users |-> {}]]
    /\ userConn = [n \in Nodes |-> [u \in Users |-> Nowhere]]

(* Later: all nodes have met, everybody is logged in at home, the rooms    *)
(* are rs and everybody else knows of them.                                *)
Meshed(rs) ==
    /\ phase = [n \in Nodes |-> "running"]
    /\ instance = [n \in Nodes |-> 1]
    /\ nodes = [n \in Nodes |-> [m \in Nodes |-> IF m = n THEN Absent ELSE OnlineEntry(1)]]
    /\ disk = [n \in Nodes |-> Nodes \ {n}]
    /\ msgs = {}
    /\ faults = 0
    /\ Quiet
    /\ rooms = rs
    /\ cache \in [Nodes -> [RoomIds -> Nodes \cup {Nowhere}]]
    /\ \A n \in Nodes, r \in RoomIds :
           LET ms == {m \in Nodes \ {n} : rs[m][r] # {}}
           IN  IF ms = {} THEN cache[n][r] = Nowhere ELSE cache[n][r] \in ms
    /\ sessions = [n \in Nodes |-> [u \in Users |-> {n} \cap {Home[u]}]]
    /\ userConn = [n \in Nodes |-> [u \in Users |-> IF n = Home[u] THEN n ELSE Nowhere]]

-----------------------------------------------------------------------------
(* Room events: broadcastRoomEvent to whoever n believes online.  The      *)
(* announcement of a new room works like an update; other types leave the  *)
(* cache as it is here, for they only touch what is known of the room.     *)

News(n, r, types, ears) ==
    {[type |-> t, from |-> n, to |-> m, room |-> r] : t \in types, m \in ears}

(* handleDisconnection tells that the room is gone, or changed; if it was  *)
(* playing, or somebody else left before, a change was told first.         *)
Parting(rest) == IF rest = {} THEN {{"deleted"}, {"updated", "deleted"}} ELSE {{"updated"}}

GreetingDone(n, r) ==
    /\ <<n, r>> \in greeting
    /\ greeting' = greeting \ {<<n, r>>}
    /\ events' = events \cup News(n, r, {"updated"}, Online(n))
    /\ UNCHANGED <<netVars, playerVars, cache, pulls, rounds>>

(* handleIncomingEvent.  A deletion counts whoever sends it, and throws    *)
(* out every proxied player whose room has that id.                        *)
HandleIncomingEvent(e) ==
    /\ e \in events /\ Up(e.to)
    /\ events' = events \ {e}
    /\ IF e.type = "updated"
       THEN /\ cache' = IF e.from # e.to /\ e.from \in Known(e.to)
                        THEN [cache EXCEPT ![e.to][e.room] = e.from] ELSE cache
            /\ proxied' = proxied
       ELSE /\ cache' = [cache EXCEPT ![e.to][e.room] = Nowhere]
            /\ proxied' = [proxied EXCEPT ![e.to] =
                   [u \in Users |-> IF @[u].room = e.room THEN NoSeat ELSE @[u]]]
    /\ UNCHANGED <<netVars, rooms, sessions, userConn, federated, calls, greeting, pulls, rounds>>

EventLost(e) ==
    /\ e \in events
    /\ events' = events \ {e}
    /\ UNCHANGED <<netVars, playerVars, dirVars>>

-----------------------------------------------------------------------------
(* handleMessage at node n for user u, reached over a connection or in a   *)
(* forwarded command; cs is calls with the answer to the latter noted.     *)

Forward(n, u, kind, seat, cmd, cs) ==
    \E s \in Slots :
        /\ cs[s] = Idle
        /\ calls' = [cs EXCEPT ![s] = [kind |-> kind, at |-> n, user |-> u, seat |-> seat,
                                       cmd |-> cmd, phase |-> "sent"]]
        /\ UNCHANGED <<rooms, greeting, events>>

(* proxyCommand *)
ProxyCommand(n, u, cmd, cs) ==
    Forward(n, u, IF cmd.type = "leave" THEN "leave" ELSE "command", proxied[n][u], cmd, cs)

(* The id must be unused here and, as far as the cache knows, elsewhere.   *)
CreateRoom(n, u, r, cs) ==
    /\ RoomsOf(n, u) = {} /\ ~Exists(n, r) /\ cache[n][r] = Nowhere
    /\ rooms' = [rooms EXCEPT ![n][r] = {u}]
    /\ greeting' = greeting \cup {<<n, r>>}
    /\ calls' = cs
    /\ UNCHANGED events

(* A room of this node, or else a room that the cache knows.               *)
JoinRoom(n, u, r, cs) ==
    /\ RoomsOf(n, u) = {}
    /\ \/ /\ Exists(n, r)
          /\ rooms' = [rooms EXCEPT ![n][r] = @ \cup {u}]
          /\ events' = events \cup News(n, r, {"updated"}, Online(n))
          /\ calls' = cs
          /\ UNCHANGED greeting
       \/ /\ ~Exists(n, r) /\ cache[n][r] # Nowhere
          /\ Forward(n, u, "join", [room |-> r, node |-> cache[n][r]],
                     [type |-> "join", room |-> r], cs)

LeaveRoom(n, u, cs) ==
    \E r \in RoomsOf(n, u) :
        LET rest == rooms[n][r] \ {u} IN
        /\ rooms' = [rooms EXCEPT ![n][r] = rest]
        /\ events' = events \cup News(n, r, {"updated"} \cup (IF rest = {} THEN {"deleted"} ELSE {}),
                                      Online(n))
        /\ calls' = cs
        /\ UNCHANGED greeting

(* Chat and the like: the change of a room is announced. *)
Talk(n, u, cs) ==
    \E r \in RoomsOf(n, u) :
        /\ events' = events \cup News(n, r, {"updated"}, Online(n))
        /\ calls' = cs
        /\ UNCHANGED <<rooms, greeting>>

HandleMessage(n, u, cmd, cs) ==
    /\ IF IsProxied(n, u)
       THEN ProxyCommand(n, u, cmd, cs)
       ELSE \/ cmd.type = "create" /\ CreateRoom(n, u, cmd.room, cs)
            \/ cmd.type = "join" /\ JoinRoom(n, u, cmd.room, cs)
            \/ cmd.type = "leave" /\ LeaveRoom(n, u, cs)
            \/ cmd.type = "other" /\ Talk(n, u, cs)
            \/ calls' = cs /\ UNCHANGED <<rooms, greeting, events>>  \* refused
    /\ UNCHANGED <<netVars, sessions, userConn, federated, proxied, cache, pulls, rounds>>

Command(u, cmd) ==
    /\ Up(Home[u]) /\ Home[u] \in sessions[Home[u]][u]
    /\ HandleMessage(Home[u], u, cmd, calls)

(* A client logs in.  (Taking over a session: see Connections.)            *)
Connect(u) ==
    LET n == Home[u] IN
    /\ Up(n) /\ userConn[n][u] = Nowhere
    /\ sessions' = [sessions EXCEPT ![n][u] = @ \cup {n}]
    /\ userConn' = [userConn EXCEPT ![n][u] = n]
    /\ UNCHANGED <<netVars, rooms, federated, proxied, calls, dirVars, events>>

(* handleDisconnection of the session of u at n that comes from m: a       *)
(* proxied player leaves the remote room, another one the (first) room it  *)
(* is in.                                                                  *)
HandleDisconnection(n, u, m, cs) ==
    /\ sessions' = [sessions EXCEPT ![n][u] = @ \ {m}]
    /\ userConn' = IF m \in sessions[n][u] /\ userConn[n][u] = m
                   THEN [userConn EXCEPT ![n][u] = Nowhere] ELSE userConn
    /\ \/ /\ m \in sessions[n][u] /\ IsProxied(n, u)
          /\ ProxyCommand(n, u, [type |-> "leave"], cs)
       \/ /\ m \in sessions[n][u] /\ ~IsProxied(n, u)
          /\ \E r \in RoomsOf(n, u) :
                LET rest == rooms[n][r] \ {u} IN
                /\ rooms' = [rooms EXCEPT ![n][r] = rest]
                /\ \E types \in Parting(rest) :
                      events' = events \cup News(n, r, types, Online(n))
          /\ calls' = cs
          /\ UNCHANGED greeting
       \/ /\ m \notin sessions[n][u] \/ (~IsProxied(n, u) /\ RoomsOf(n, u) = {})
          /\ calls' = cs
          /\ UNCHANGED <<rooms, events, greeting>>
    /\ UNCHANGED <<netVars, proxied, cache, pulls, rounds>>

Disconnect(u) ==
    /\ Home[u] \in sessions[Home[u]][u]
    /\ HandleDisconnection(Home[u], u, Home[u], calls)
    /\ UNCHANGED federated

(* An administrator of n kicks u: it leaves its room at n, without a word  *)
(* that the room is gone if it is; a virtual session stays.                *)
Kick(n, u) ==
    \E r \in RoomsOf(n, u) :
        /\ rooms' = [rooms EXCEPT ![n][r] = @ \ {u}]
        /\ events' = events \cup News(n, r, {"updated"}, Online(n))
        /\ UNCHANGED <<netVars, sessions, userConn, federated, proxied, calls, dirVars>>

CloseRoom(n, r) ==
    /\ Exists(n, r)
    /\ rooms' = [rooms EXCEPT ![n][r] = {}]
    /\ UNCHANGED <<netVars, sessions, userConn, federated, proxied, calls, dirVars, events>>

-----------------------------------------------------------------------------
(* Forwarded joins, at the node that has the room and back at home.        *)

Noted(s, answer) ==
    [calls EXCEPT ![s] = IF @.phase = "orphan" THEN Idle ELSE [@ EXCEPT !.phase = answer]]

Arriving(s, kind) ==
    /\ calls[s].kind = kind /\ calls[s].phase \in {"sent", "orphan"}
    /\ Up(calls[s].seat.node)

(* handleIncomingJoin *)
JoinServed(s) ==
    LET c == calls[s]
        m == c.seat.node
    IN  /\ Arriving(s, "join") /\ Exists(m, c.seat.room)
        /\ rooms' = [rooms EXCEPT ![m][c.seat.room] = @ \cup {c.user}]
        /\ sessions' = [sessions EXCEPT ![m][c.user] = @ \cup {c.at}]
        /\ userConn' = [userConn EXCEPT ![m][c.user] = c.at]
        /\ federated' = [federated EXCEPT ![m][c.user] = c.at]
        /\ events' = events \cup News(m, c.seat.room, {"updated"}, Online(m))
        /\ calls' = Noted(s, "yes")
        /\ UNCHANGED <<netVars, proxied, dirVars>>

(* No such room; or it is locked, full, playing, or u is not welcome. *)
JoinRefused(s) ==
    /\ Arriving(s, "join")
    /\ calls' = Noted(s, "no")
    /\ UNCHANGED <<netVars, rooms, sessions, userConn, federated, proxied, dirVars, events>>

Slip_SeatWithoutNode(s) ==
    /\ calls[s].kind = "join" /\ calls[s].phase \in {"yes", "no"}
    /\ proxied' = IF calls[s].phase = "yes"
                  THEN [proxied EXCEPT ![calls[s].at][calls[s].user] =
                            [room |-> calls[s].seat.room, node |-> Nowhere]]
                  ELSE proxied
    /\ calls' = [calls EXCEPT ![s] = Idle]
    /\ UNCHANGED <<netVars, rooms, sessions, userConn, federated, dirVars, events>>

(* proxyJoinRoom after its await: whatever has happened at home meanwhile. *)
JoinAnswered(s) ==
    /\ calls[s].kind = "join" /\ calls[s].phase \in {"yes", "no"}
    /\ proxied' = IF calls[s].phase = "yes"
                  THEN [proxied EXCEPT ![calls[s].at][calls[s].user] = calls[s].seat]
                  ELSE proxied
    /\ calls' = [calls EXCEPT ![s] = Idle]
    /\ UNCHANGED <<netVars, rooms, sessions, userConn, federated, dirVars, events>>

(* Forwarded commands.  A node that does not know the player says so, and  *)
(* the player is set free at home.                                         *)
CommandServed(s) ==
    LET c == calls[s]
        m == c.seat.node
    IN  /\ Arriving(s, "command")
        /\ IF federated[m][c.user] = Nowhere
           THEN /\ calls' = Noted(s, "no")
                /\ UNCHANGED <<netVars, rooms, sessions, userConn, federated, proxied, dirVars,
                              events>>
           ELSE HandleMessage(m, c.user, c.cmd, Noted(s, "yes"))

Slip_KeepsProxied(s) ==
    /\ calls[s].kind = "command" /\ calls[s].phase \in {"yes", "no"}
    /\ calls' = [calls EXCEPT ![s] = Idle]
    /\ UNCHANGED <<netVars, rooms, sessions, userConn, federated, proxied, dirVars, events>>

CommandAnswered(s) ==
    /\ calls[s].kind = "command" /\ calls[s].phase \in {"yes", "no"}
    /\ proxied' = IF calls[s].phase = "no"
                  THEN [proxied EXCEPT ![calls[s].at][calls[s].user] = NoSeat] ELSE proxied
    /\ calls' = [calls EXCEPT ![s] = Idle]
    /\ UNCHANGED <<netVars, rooms, sessions, userConn, federated, dirVars, events>>

Slip_RecordKept(n, u, cs) ==
    LET m == federated[n][u]
    IN  /\ m # Nowhere
        /\ HandleDisconnection(n, u, m, cs)
        /\ UNCHANGED federated

(* removeIncomingFederatedPlayer: the virtual session is disconnected; a   *)
(* player without one is removed from every room.                          *)
RemoveIncoming(n, u, cs) ==
    LET m == federated[n][u]
        via == userConn[n][u]
    IN  \/ /\ m # Nowhere
           /\ HandleDisconnection(n, u, m, cs)
           /\ federated' = [federated EXCEPT ![n][u] = Nowhere]
        \/ /\ m = Nowhere /\ via \notin {Nowhere, n}
           /\ HandleDisconnection(n, u, via, cs)
           /\ UNCHANGED federated
        \/ /\ m = Nowhere /\ via \in {Nowhere, n}
           /\ rooms' = [rooms EXCEPT ![n] = [r \in RoomIds |-> @[r] \ {u}]]
           /\ calls' = cs
           /\ UNCHANGED <<netVars, sessions, userConn, federated, proxied, dirVars, events>>

LeaveServed(s) ==
    /\ Arriving(s, "leave")
    /\ RemoveIncoming(calls[s].seat.node, calls[s].user, Noted(s, "yes"))

(* proxyLeaveRoom after its await: an answer, or none. *)
LeaveAnswered(s) ==
    /\ calls[s].kind = "leave" /\ calls[s].phase = "yes"
    /\ proxied' = [proxied EXCEPT ![calls[s].at][calls[s].user] = NoSeat]
    /\ calls' = [calls EXCEPT ![s] = Idle]
    /\ UNCHANGED <<netVars, rooms, sessions, userConn, federated, dirVars, events>>

(* The requester gives up: the node is down, the request is lost or late,  *)
(* or the answer is.  A leave frees the player all the same.               *)
CallFails(s) ==
    LET c == calls[s] IN
    /\ c # Idle /\ c.phase # "orphan"
    /\ IF Up(c.seat.node) THEN Fault ELSE faults' = faults
    /\ calls' \in {[calls EXCEPT ![s] = Idle]}
                  \cup (IF c.phase = "sent" THEN {[calls EXCEPT ![s].phase = "orphan"]} ELSE {})
    /\ proxied' = IF c.kind = "leave"
                  THEN [proxied EXCEPT ![c.at][c.user] = NoSeat] ELSE proxied
    /\ UNCHANGED <<phase, instance, nodes, disk, msgs, rooms, sessions, userConn, federated,
                   dirVars, events>>

OrphanLost(s) ==
    /\ calls[s] # Idle /\ calls[s].phase = "orphan"
    /\ calls' = [calls EXCEPT ![s] = Idle]
    /\ UNCHANGED <<netVars, rooms, sessions, userConn, federated, proxied, dirVars, events>>

-----------------------------------------------------------------------------
(* handleNodeOffline at n for m: the players who came from m leave, those  *)
(* who are proxied to m are told to, the cache forgets the rooms of m.     *)

Leaves(n, us, slot) ==
    [s \in Slots |->
        IF \E u \in us : slot[u] = s
        THEN [kind |-> "leave", at |-> n, user |-> CHOOSE u \in us : slot[u] = s,
              seat |-> proxied[n][CHOOSE u \in us : slot[u] = s],
              cmd |-> [type |-> "leave"], phase |-> "sent"]
        ELSE calls[s]]

Slip_GuestsStay(n, m, ears) ==
    /\ proxied' = [proxied EXCEPT ![n] =
           [u \in Users |-> IF @[u].node = m THEN NoSeat ELSE @[u]]]
    /\ cache' = [cache EXCEPT ![n] =
           [r \in RoomIds |-> IF @[r] = m THEN Nowhere ELSE @[r]]]
    /\ UNCHANGED <<rooms, sessions, userConn, federated, events, calls>>

NodeOffline(n, m, ears) ==
    LET guests == {u \in Users : federated[n][u] = m}
        relayed == {u \in guests : IsProxied(n, u)}
    IN  /\ \E from \in [guests -> RoomIds \cup {Nowhere}] :
            LET left(r) == {u \in guests : from[u] = r} IN
            /\ \A u \in guests : IF u \in relayed \/ RoomsOf(n, u) = {}
                                 THEN from[u] = Nowhere ELSE from[u] \in RoomsOf(n, u)
            /\ rooms' = [rooms EXCEPT ![n] = [r \in RoomIds |-> @[r] \ left(r)]]
            /\ \E types \in [RoomIds -> {{"updated"}, {"deleted"}, {"updated", "deleted"}}] :
                /\ \A r \in RoomIds : types[r] \in Parting(rooms[n][r] \ left(r))
                /\ events' = events \cup
                       UNION {News(n, r, types[r], ears) : r \in {x \in RoomIds : left(x) # {}}}
        /\ \E slot \in [relayed -> {s \in Slots : calls[s] = Idle}] :
            /\ \A u, v \in relayed : slot[u] = slot[v] => u = v
            /\ calls' = Leaves(n, relayed, slot)
        /\ sessions' = [sessions EXCEPT ![n] =
               [u \in Users |-> IF u \in guests THEN @[u] \ {m} ELSE @[u]]]
        /\ userConn' = [userConn EXCEPT ![n] =
               [u \in Users |-> IF u \in guests /\ @[u] = m THEN Nowhere ELSE @[u]]]
        /\ federated' = [federated EXCEPT ![n] =
               [u \in Users |-> IF u \in guests THEN Nowhere ELSE @[u]]]
        /\ proxied' = [proxied EXCEPT ![n] =
               [u \in Users |-> IF @[u].node = m THEN NoSeat ELSE @[u]]]
        /\ cache' = [cache EXCEPT ![n] =
               [r \in RoomIds |-> IF @[r] = m THEN Nowhere ELSE @[r]]]

(* A handshake, received or answered: m is another process than recorded,  *)
(* or all stays; then its rooms are asked for.                             *)
Met(n, m, i) ==
    /\ IF Restarted(n, m, i)
       THEN NodeOffline(n, m, Online(n))
       ELSE UNCHANGED <<playerVars, cache, events>>
    /\ UNCHANGED <<greeting, rounds>>

Asked(n, m) == pulls \cup {[at |-> n, of |-> m, got |-> Nowhere]}

GreetedBy(g) ==
    /\ HandleIncomingHandshake(g)
    /\ Met(g.to, g.from, g.instance)
    /\ pulls' = IF g.from = g.to THEN pulls ELSE Asked(g.to, g.from)

Greeted(g) ==
    /\ HandshakeAnswered(g)
    /\ Met(g.to, g.from, IF g.instance = 0 THEN nodes[g.to][g.from].instance ELSE g.instance)
    /\ pulls' = Asked(g.to, g.from)

CheckOk(n, m) ==
    /\ CheckSucceeds(n, m)
    /\ pulls' = IF nodes[n][m].status = "online" THEN pulls ELSE Asked(n, m)
    /\ UNCHANGED <<playerVars, cache, greeting, rounds, events>>

(* No answer. *)
CheckMissed(n, m) ==
    /\ CheckFails(n, m)
    /\ NodeOffline(n, m, Online(n) \ {m})
    /\ UNCHANGED <<greeting, pulls, rounds>>

(* An answer with an error status only changes the verdict. *)
CheckRefused(n, m) ==
    /\ Up(m)
    /\ CheckFails(n, m)
    /\ UNCHANGED <<playerVars, dirVars, events>>

(* removeNode: players of the node are left as they are. *)
NodeRemoved(n, m) ==
    /\ RemoveNode(n, m)
    /\ cache' = [cache EXCEPT ![n] = [r \in RoomIds |-> IF @[r] = m THEN Nowhere ELSE @[r]]]
    /\ UNCHANGED <<playerVars, greeting, pulls, rounds, events>>

Starts(n) == StartNode(n) /\ UNCHANGED <<playerVars, dirVars, events>>
TimersStart(n) == StartTimers(n) /\ UNCHANGED <<playerVars, dirVars, events>>
HelloLost(g) == MessageLost(g) /\ UNCHANGED <<playerVars, dirVars, events>>

(* All that a process holds is gone; its clients are disconnected.  Of the *)
(* requests it waited for some are still under way.                        *)
Crashes(n) ==
    /\ Crash(n)
    /\ rooms' = [rooms EXCEPT ![n] = [r \in RoomIds |-> {}]]
    /\ sessions' = [sessions EXCEPT ![n] = [u \in Users |-> {}]]
    /\ userConn' = [userConn EXCEPT ![n] = [u \in Users |-> Nowhere]]
    /\ federated' = [federated EXCEPT ![n] = [u \in Users |-> Nowhere]]
    /\ proxied' = [proxied EXCEPT ![n] = [u \in Users |-> NoSeat]]
    /\ cache' = [cache EXCEPT ![n] = [r \in RoomIds |-> Nowhere]]
    /\ greeting' = {x \in greeting : x[1] # n}
    /\ pulls' = {p \in pulls : p.at # n}
    /\ rounds' = [rounds EXCEPT ![n] = [i \in Rounds |-> NoRound]]
    /\ calls' = [s \in Slots |->
           IF calls[s] = Idle \/ calls[s].at # n THEN calls[s]
           ELSE IF calls[s].phase \in {"sent", "orphan"}
                THEN [calls[s] EXCEPT !.phase = "orphan"] ELSE Idle]
    /\ UNCHANGED events

-----------------------------------------------------------------------------
(* syncRoomsFromNode: the rooms of one node are added to the cache. *)

RoomsAt(m) == {r \in RoomIds : Exists(m, r)}

PullServed(p) ==
    /\ p \in pulls /\ p.got = Nowhere /\ Up(p.of)
    /\ pulls' = (pulls \ {p}) \cup {[p EXCEPT !.got = RoomsAt(p.of)]}
    /\ UNCHANGED <<netVars, playerVars, cache, greeting, rounds, events>>

Pulled(p) ==
    /\ p \in pulls /\ p.got # Nowhere
    /\ pulls' = pulls \ {p}
    /\ cache' = [cache EXCEPT ![p.at] =
           [r \in RoomIds |-> IF r \in p.got THEN p.of ELSE @[r]]]
    /\ UNCHANGED <<netVars, playerVars, greeting, rounds, events>>

PullFails(p) ==
    /\ p \in pulls
    /\ pulls' = pulls \ {p}
    /\ UNCHANGED <<netVars, playerVars, cache, greeting, rounds, events>>

(* syncAllRooms: the online nodes are asked, a new cache is built as they  *)
(* answer, and replaces the old one when all have answered or failed.      *)
RoundStarts(n, i) ==
    /\ phase[n] = "running" /\ ~rounds[n][i].on
    /\ rounds' = [rounds EXCEPT ![n][i] = [NoRound EXCEPT !.on = TRUE, !.waiting = Online(n)]]
    /\ UNCHANGED <<netVars, playerVars, cache, greeting, pulls, events>>

Found(n, i, m, rs) ==
    rounds' = [rounds EXCEPT ![n][i].waiting = @ \ {m},
                             ![n][i].found = [r \in RoomIds |-> IF r \in rs THEN m ELSE @[r]]]

RoundAnswered(n, i, m) ==
    /\ m \in rounds[n][i].waiting /\ Up(m)
    /\ Found(n, i, m, RoomsAt(m))
    /\ UNCHANGED <<netVars, playerVars, cache, greeting, pulls, events>>

(* A node that does not answer, or with an error, keeps the rooms it has   *)
(* in the cache now.                                                       *)
RoundMissed(n, i, m) ==
    /\ m \in rounds[n][i].waiting
    /\ IF Up(m) THEN Fault ELSE faults' = faults
    /\ Found(n, i, m, {r \in RoomIds : cache[n][r] = m})
    /\ UNCHANGED <<phase, instance, nodes, disk, msgs, playerVars, cache, greeting, pulls, events>>

Slip_RoundMerges(n, i) ==
    /\ rounds[n][i].on /\ rounds[n][i].waiting = {}
    /\ cache' = [cache EXCEPT ![n] =
           [r \in RoomIds |-> IF rounds[n][i].found[r] = Nowhere THEN @[r]
                              ELSE rounds[n][i].found[r]]]
    /\ rounds' = [rounds EXCEPT ![n][i] = NoRound]
    /\ UNCHANGED <<netVars, playerVars, greeting, pulls, events>>

Slip_RoundEndsEarly(n, i) ==
    /\ rounds[n][i].on
    /\ cache' = [cache EXCEPT ![n] = rounds[n][i].found]
    /\ rounds' = [rounds EXCEPT ![n][i] = NoRound]
    /\ UNCHANGED <<netVars, playerVars, greeting, pulls, events>>

RoundEnds(n, i) ==
    /\ rounds[n][i].on /\ rounds[n][i].waiting = {}
    /\ cache' = [cache EXCEPT ![n] = rounds[n][i].found]
    /\ rounds' = [rounds EXCEPT ![n][i] = NoRound]
    /\ UNCHANGED <<netVars, playerVars, greeting, pulls, events>>

-----------------------------------------------------------------------------
(* What administrators, players and their rooms do. *)
RoomStep ==
    \/ \E u \in Users :
        \/ \E cmd \in Cmds : Command(u, cmd)
        \/ Connect(u) \/ Disconnect(u)
        \/ \E n \in Nodes : Kick(n, u)
    \/ \E n \in Nodes, r \in RoomIds : CloseRoom(n, r) \/ GreetingDone(n, r)

CallStep ==
    \E s \in Slots :
        \/ JoinServed(s) \/ JoinRefused(s) \/ JoinAnswered(s)
        \/ CommandServed(s) \/ CommandAnswered(s)
        \/ LeaveServed(s) \/ LeaveAnswered(s)
        \/ CallFails(s) \/ OrphanLost(s)

EventStep == \E e \in events : HandleIncomingEvent(e) \/ EventLost(e)

PullStep == \E p \in pulls : PullServed(p) \/ Pulled(p) \/ PullFails(p)

Rounding(n) ==
    \E i \in Rounds :
        \/ RoundStarts(n, i) \/ RoundEnds(n, i)
        \/ \E m \in Nodes : RoundAnswered(n, i, m) \/ RoundMissed(n, i, m)

RoundStep == \E n \in Nodes : Rounding(n)

NodeStep ==
    \/ \E n \in Nodes : Starts(n) \/ TimersStart(n) \/ Crashes(n)
    \/ \E g \in msgs : GreetedBy(g) \/ Greeted(g) \/ HelloLost(g)
    \/ \E n, m \in Nodes :
        CheckOk(n, m) \/ CheckMissed(n, m) \/ CheckRefused(n, m) \/ NodeRemoved(n, m)

Next == RoomStep \/ CallStep \/ EventStep \/ PullStep \/ RoundStep \/ NodeStep

Spec == Init /\ [][Next]_vars

-----------------------------------------------------------------------------
(* A player that a node takes for federated can be reached there: it has   *)
(* the virtual session that commands run on and that a departure closes,   *)
(* whichever of leaves, health checks, handshakes and joins came last.     *)
GuestsHaveSessions ==
    \A n \in Nodes, u \in Users : federated[n][u] # Nowhere => federated[n][u] \in sessions[n][u]

(* Nothing of node m is left at n. *)
Forgotten(n, m) ==
    /\ \A u \in Users : federated[n][u] # m /\ proxied[n][u].node # m
    /\ \A r \in RoomIds : cache[n][r] # m

(* "If a server goes offline, it will be removed": the players a dead node *)
(* sent, those sent to it, and its rooms go away, even if it is back       *)
(* before a health check missed it: its handshake names another instance.  *)
(* Health checks do not look at the instance.  If that handshake is lost,  *)
(* a second fault, or if n had the dead process from its file only         *)
(* (instance 0), and the node is back in time, nothing tells n of the      *)
(* change, and the dead process's players stay while the node is up: the   *)
(* property says nothing of these two cases.                               *)
DownForgotten ==
    \A n, m \in Nodes, k \in 0 .. MaxFaults : n # m =>
        (/\ phase[n] = "running" /\ phase[m] = "down"
         /\ nodes[n][m].instance # 0 /\ faults = k)
            ~> (phase[n] # "running" \/ Forgotten(n, m) \/ faults > k)

(* The home of u forwards its commands to a node that does not know it. *)
Astray(u) ==
    LET seat == proxied[Home[u]][u]
    IN  seat # NoSeat /\ federated[seat.node][u] = Nowhere

(* A player who keeps trying is never forwarded for ever to a node that    *)
(* has lost it: restarts, late answers and crossing leaves are made good.  *)
AstrayComeHome ==
    \A u \in Users : ([]<><<\E cmd \in Cmds : Command(u, cmd)>>_vars) => []<>~Astray(u)

(* The cache forgets a room that is gone although the deletion was never   *)
(* announced, or was overtaken by an older announcement, pull or round.    *)
CacheForgets ==
    \A n, m \in Nodes, r \in RoomIds : n # m =>
        (<>[](phase[n] = "running" /\ ~Exists(m, r)) => <>[](cache[n][r] # m))

(* And it learns of a room that stays, whatever was lost or crossed, and   *)
(* does not forget it again.                                               *)
CacheLearns ==
    \A n, m \in Nodes, r \in RoomIds :
        (<>[](phase[n] = "running" /\ m \in Online(n) /\ Exists(m, r)
              /\ \A k \in Nodes \ {m} : ~Exists(k, r))
         => <>[](cache[n][r] = m))
=============================================================================
