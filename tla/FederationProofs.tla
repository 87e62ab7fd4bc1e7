-------------------------- MODULE FederationProofs --------------------------
(* Types and guests of Federation, for all values of its constants.        *)
EXTENDS Federation, TLAPS

USE HomeAssumption, NowhereAssumption

(* No node is its own seed.  (One that is meets itself under the key       *)
(* undefined, see Discovery.)                                              *)
NoSelfSeeds == \A n \in Nodes : n \notin Seeds[n]

(* Then no node ever deals with itself.                                    *)
NetApart ==
    /\ \A n \in Nodes : nodes[n][n] = Absent /\ n \notin disk[n]
    /\ \A g \in msgs : g.from # g.to


GuestsApart == \A n \in Nodes, u \in Users : federated[n][u] # n

DirApart ==
    /\ \A n \in Nodes, r \in RoomIds : cache[n][r] # n
    /\ \A p \in pulls : p.at # p.of
    /\ \A n \in Nodes, i \in Rounds :
           n \notin rounds[n][i].waiting /\ \A r \in RoomIds : rounds[n][i].found[r] # n

(* The parts of TypeOK. *)
Event == [type: {"updated", "deleted"}, from: Nodes, to: Nodes, room: RoomIds]
Pull == [at: Nodes, of: Nodes, got: (SUBSET RoomIds) \cup {Nowhere}]
Round == [on: BOOLEAN, waiting: SUBSET Nodes, found: [RoomIds -> Nodes \cup {Nowhere}]]
Rooms == [Nodes -> [RoomIds -> SUBSET Users]]
Records == [Nodes -> [Users -> Nodes \cup {Nowhere}]]
Calls == [Slots -> Call \cup {Idle}]
GoodCalls == {cs \in Calls : \A s \in Slots : cs[s].kind = "join" => cs[s].seat.node # cs[s].at}

PlayerTypes ==
    /\ rooms \in Rooms
    /\ sessions \in [Nodes -> [Users -> SUBSET Nodes]]
    /\ userConn \in Records
    /\ federated \in Records
    /\ proxied \in [Nodes -> [Users -> Seats \cup {NoSeat}]]
    /\ calls \in Calls

DirTypes ==
    /\ cache \in [Nodes -> [RoomIds -> Nodes \cup {Nowhere}]]
    /\ greeting \subseteq Nodes \X RoomIds
    /\ events \subseteq Event
    /\ pulls \subseteq Pull
    /\ rounds \in [Nodes -> [Rounds -> Round]]

NInv == NetTypeOK /\ NetApart
PInv == PlayerTypes /\ calls \in GoodCalls /\ GuestsApart /\ GuestsHaveSessions
DInv == DirTypes /\ DirApart

FInv == NInv /\ PInv /\ DInv

LEMMA Parts == TypeOK <=> NetTypeOK /\ PlayerTypes /\ DirTypes
BY DEF TypeOK, PlayerTypes, DirTypes, Event, Pull, Round, Rooms, Records, Calls

-----------------------------------------------------------------------------
(* The network. *)

Entries == Peer \cup {Absent}

LEMMA Absence == Absent \notin Peer
BY DEF Absent, Peer

LEMMA MessageType ==
    ASSUME NInv, NEW g \in msgs
    PROVE  /\ g.type \in {"hello", "reply"} /\ g.from \in Nodes /\ g.to \in Nodes
           /\ g.instance \in Nat /\ g.reverse \in BOOLEAN /\ g.from # g.to
           /\ g.type = "reply" => g.peers \subseteq Nodes
BY DEF NInv, NetTypeOK, NetApart, Hello, Reply

(* A message between two nodes. *)
Proper(g) == g \in Hello \cup Reply /\ g.from # g.to

LEMMA GreetingProper ==
    ASSUME NInv, NEW n \in Nodes, NEW m \in Nodes \ {n}, NEW b \in BOOLEAN
    PROVE  Proper(Greeting(n, m, b)) /\ Proper([Greeting(n, m, b) EXCEPT !.instance = @ + 1])
BY DEF NInv, NetTypeOK, Proper, Greeting, Hello

(* A step that leaves the tables alone, but for one entry of n about m. *)
LEMMA EntryInv ==
    ASSUME NInv, NEW n \in Nodes, NEW m \in Nodes \ {n}, NEW e \in Entries,
           UNCHANGED <<phase, instance>>, faults' \in Nat,
           nodes' = [nodes EXCEPT ![n] = [nodes[n] EXCEPT ![m] = e]],
           \E d \in SUBSET (Nodes \ {n}) : disk' \in {disk, [disk EXCEPT ![n] = d]},
           \A g \in msgs' : g \in msgs \/ Proper(g)
    PROVE  NInv'
<1>1. NetTypeOK'
  <2>1. nodes' \in [Nodes -> [Nodes -> Entries]]
    BY DEF NInv, NetTypeOK, Entries
  <2>2. disk' \in [Nodes -> SUBSET Nodes]
    BY DEF NInv, NetTypeOK
  <2>3. msgs' \subseteq Hello \cup Reply
    BY DEF NInv, NetTypeOK, Proper
  <2>4. QED  BY <2>1, <2>2, <2>3 DEF NInv, NetTypeOK, Entries
<1>2. NetApart'
  <2>1. \A k \in Nodes : nodes'[k][k] = Absent /\ k \notin disk'[k]
    BY DEF NInv, NetTypeOK, NetApart
  <2>2. \A g \in msgs' : g.from # g.to
    BY DEF NInv, NetApart, Proper
  <2>3. QED  BY <2>1, <2>2 DEF NetApart
<1>3. QED  BY <1>1, <1>2 DEF NInv

LEMMA SavedType ==
    ASSUME NEW n \in Nodes, NEW table
    PROVE  Saved(n, table) \in SUBSET (Nodes \ {n})
BY DEF Saved, KnownIn

LEMMA StartNodeApart ==
    ASSUME NoSelfSeeds, NInv, NEW n \in Nodes, StartNode(n)
    PROVE  NInv'
<1> DEFINE table == [m \in Nodes |-> IF m \in disk[n] THEN [status |-> "unknown", instance |-> 0]
                                     ELSE Absent]
           greetings == {[Greeting(n, m, FALSE) EXCEPT !.instance = @ + 1] : m \in Seeds[n]}
<1>1. table \in [Nodes -> Entries] /\ table[n] = Absent
  BY DEF NInv, NetApart, Entries, Peer
<1>2. \A g \in greetings : Proper(g)
  <2>1. \A m \in Seeds[n] : m \in Nodes \ {n}
    BY SeedsAssumption DEF NoSelfSeeds
  <2>2. \A m \in Seeds[n] : Proper([Greeting(n, m, FALSE) EXCEPT !.instance = @ + 1])
    BY <2>1, GreetingProper
  <2>3. QED  BY <2>2
<1>3. /\ nodes' = [nodes EXCEPT ![n] = table] /\ msgs' = msgs \cup greetings
      /\ UNCHANGED <<disk, faults>>
  BY DEF StartNode
<1> HIDE DEF table, greetings
<1>4. phase' \in [Nodes -> {"down", "booting", "running"}] /\ instance' \in [Nodes -> Nat]
  BY DEF NInv, NetTypeOK, StartNode
<1>5. NetTypeOK'
  BY <1>1, <1>2, <1>3, <1>4 DEF NInv, NetTypeOK, Proper, Entries
<1>6. NetApart'
  BY <1>1, <1>2, <1>3 DEF NInv, NetTypeOK, NetApart, Proper
<1>7. QED  BY <1>5, <1>6 DEF NInv

LEMMA StartTimersApart ==
    ASSUME NInv, NEW n \in Nodes, StartTimers(n)
    PROVE  NInv'
<1> DEFINE greetings == {Greeting(n, m, FALSE) : m \in (Known(n) \ Online(n)) \ Seeds[n]}
<1>1. \A m \in Known(n) : m \in Nodes \ {n}
  BY DEF NInv, NetApart, Known, KnownIn
<1>2. \A g \in greetings : Proper(g)
  <2>1. \A m \in Known(n) : Proper(Greeting(n, m, FALSE))
    BY <1>1, GreetingProper
  <2>2. QED  BY <2>1
<1>3. /\ msgs' = msgs \cup greetings
      /\ UNCHANGED <<instance, nodes, disk, faults>>
  BY DEF StartTimers
<1> HIDE DEF greetings
<1>4. phase' \in [Nodes -> {"down", "booting", "running"}]
  BY DEF NInv, NetTypeOK, StartTimers
<1>5. QED  BY <1>2, <1>3, <1>4 DEF NInv, NetTypeOK, NetApart, Proper

LEMMA CrashApart ==
    ASSUME NInv, NEW n \in Nodes, Crash(n)
    PROVE  NInv'
<1>1. NetTypeOK'
  BY DEF NInv, NetTypeOK, Crash, StopNode, Fault
<1>2. NetApart'
  BY DEF NInv, NetTypeOK, NetApart, Crash, StopNode
<1>3. QED  BY <1>1, <1>2 DEF NInv

LEMMA MessageLostApart ==
    ASSUME NInv, NEW g \in msgs, MessageLost(g)
    PROVE  NInv'
<1>1. faults' \in Nat
  BY DEF NInv, NetTypeOK, MessageLost, Fault
<1>2. QED  BY <1>1 DEF NInv, NetTypeOK, NetApart, MessageLost

LEMMA HandshakeApart ==
    ASSUME NInv, NEW g \in msgs, HandleIncomingHandshake(g)
    PROVE  NInv'
<1> DEFINE n == g.to
           m == g.from
           table == [nodes[n] EXCEPT ![m] = OnlineEntry(g.instance)]
           answer == [type |-> "reply", from |-> n, to |-> m, instance |-> instance[n],
                      reverse |-> g.reverse, peers |-> KnownIn(table)]
<1>1. /\ n \in Nodes /\ m \in Nodes \ {n} /\ g.instance \in Nat /\ g.reverse \in BOOLEAN
  BY MessageType
<1>2. /\ nodes' = [nodes EXCEPT ![n] = table]
      /\ disk' = [disk EXCEPT ![n] = Saved(n, table)]
      /\ \A x \in msgs' : x \in msgs \/ x = answer \/ x = Greeting(n, m, TRUE)
      /\ UNCHANGED <<phase, instance, faults>>
  BY <1>1 DEF HandleIncomingHandshake
<1>3. OnlineEntry(g.instance) \in Entries
  BY <1>1 DEF OnlineEntry, Entries, Peer
<1>4. Proper(answer)
  BY <1>1 DEF NInv, NetTypeOK, Proper, Reply, KnownIn
<1>5. Proper(Greeting(n, m, TRUE))
  BY <1>1, GreetingProper
<1>6. Saved(n, table) \in SUBSET (Nodes \ {n})
  BY <1>1, SavedType
<1>7. faults' \in Nat
  BY <1>2 DEF NInv, NetTypeOK
<1> HIDE DEF n, m, answer
<1>8. \A x \in msgs' : x \in msgs \/ Proper(x)
  BY <1>2, <1>4, <1>5
<1>9. QED  BY <1>1, <1>2, <1>3, <1>6, <1>7, <1>8, EntryInv

LEMMA AnswerApart ==
    ASSUME NInv, NEW g \in msgs, HandshakeAnswered(g)
    PROVE  NInv'
<1> DEFINE n == g.to
           m == g.from
           i == IF g.instance = 0 THEN nodes[n][m].instance ELSE g.instance
           table == [nodes[n] EXCEPT ![m] = OnlineEntry(i)]
           strangers == Strangers(n, m, table, g.peers)
<1>1. n \in Nodes /\ m \in Nodes \ {n} /\ g.instance \in Nat /\ g.peers \subseteq Nodes
  BY MessageType DEF HandshakeAnswered
<1>2. i \in Nat
  BY <1>1 DEF NInv, NetTypeOK, Peer, Absent
<1>3. /\ nodes' = [nodes EXCEPT ![n] = table]
      /\ disk' \in {disk, [disk EXCEPT ![n] = Saved(n, table)]}
      /\ msgs' = (msgs \ {g}) \cup {Greeting(n, p, FALSE) : p \in strangers}
      /\ UNCHANGED <<phase, instance, faults>>
  BY DEF HandshakeAnswered
<1>4. OnlineEntry(i) \in Entries
  BY <1>2 DEF OnlineEntry, Entries, Peer
<1>5. \A p \in strangers : p \in Nodes \ {n}
  BY <1>1 DEF Strangers
<1>6. Saved(n, table) \in SUBSET (Nodes \ {n})
  BY <1>1, SavedType
<1> HIDE DEF i, strangers
<1>7. \A p \in strangers : Proper(Greeting(n, p, FALSE))
  BY <1>1, <1>5, GreetingProper
<1>8. faults' \in Nat
  BY <1>3 DEF NInv, NetTypeOK
<1>9. \A x \in msgs' : x \in msgs \/ Proper(x)
  BY <1>3, <1>7
<1> HIDE DEF n, m
<1>10. QED  BY <1>1, <1>3, <1>4, <1>6, <1>8, <1>9, EntryInv

LEMMA CheckApart ==
    ASSUME NInv, NEW n \in Nodes, NEW m \in Nodes, CheckSucceeds(n, m) \/ CheckFails(n, m)
    PROVE  NInv'
<1> DEFINE entry(st) == [nodes[n][m] EXCEPT !.status = st]
<1>1. m \in Nodes \ {n} /\ nodes[n][m] \in Peer
  <2>1. m \in Known(n)
    BY DEF CheckSucceeds, CheckFails
  <2>2. QED  BY <2>1 DEF NInv, NetTypeOK, NetApart, Known, KnownIn
<1>2. entry("online") \in Entries /\ entry("offline") \in Entries
  BY <1>1 DEF Peer, Entries
<1>3. \E st \in {"online", "offline"} : nodes' = [nodes EXCEPT ![n] = [nodes[n] EXCEPT ![m] = entry(st)]]
  <2>1. CASE CheckSucceeds(n, m)
    <3>1. nodes' = [nodes EXCEPT ![n] = [nodes[n] EXCEPT ![m] = entry("online")]]
      BY <2>1 DEF CheckSucceeds
    <3>2. QED  BY <3>1
  <2>2. CASE CheckFails(n, m)
    <3>1. nodes' = [nodes EXCEPT ![n] = [nodes[n] EXCEPT ![m] = entry("offline")]]
      BY <2>2 DEF CheckFails
    <3>2. QED  BY <3>1
  <2>3. QED  BY <2>1, <2>2
<1>4. disk' = [disk EXCEPT ![n] = Saved(n, nodes[n])] /\ UNCHANGED <<phase, instance>>
  BY DEF CheckSucceeds, CheckFails
<1>5. faults' \in Nat
  <2>1. faults' \in {faults, faults + 1}
    BY DEF CheckSucceeds, CheckFails, Fault
  <2>2. QED  BY <2>1 DEF NInv, NetTypeOK
<1>6. \A x \in msgs' : x \in msgs \/ Proper(x)
  <2>1. \A p \in Strangers(n, m, nodes[n], Online(m)) : p \in Nodes \ {n}
    BY DEF Strangers, Online, OnlineIn
  <2>2. \A p \in Strangers(n, m, nodes[n], Online(m)) : Proper(Greeting(n, p, FALSE))
    BY <2>1, GreetingProper
  <2>3. CASE CheckSucceeds(n, m)
    BY <2>2, <2>3 DEF CheckSucceeds
  <2>4. CASE CheckFails(n, m)
    BY <2>4 DEF CheckFails
  <2>5. QED  BY <2>3, <2>4
<1>7. Saved(n, nodes[n]) \in SUBSET (Nodes \ {n})
  BY SavedType
<1> HIDE DEF entry
<1>8. QED  BY <1>1, <1>2, <1>3, <1>4, <1>5, <1>6, <1>7, EntryInv

LEMMA RemoveApart ==
    ASSUME NInv, NEW n \in Nodes, NEW m \in Nodes, RemoveNode(n, m)
    PROVE  NInv'
<1>1. m \in Nodes \ {n}
  BY DEF RemoveNode, NInv, NetApart, Known, KnownIn
<1>2. nodes' = [nodes EXCEPT ![n] = [nodes[n] EXCEPT ![m] = Absent]]
  BY DEF RemoveNode
<1>3. disk' = [disk EXCEPT ![n] = disk[n] \ {m}] /\ disk[n] \ {m} \in SUBSET (Nodes \ {n})
  BY DEF RemoveNode, NInv, NetTypeOK, NetApart
<1>4. UNCHANGED <<phase, instance, msgs>> /\ faults' \in Nat
  BY DEF RemoveNode, NInv, NetTypeOK
<1>5. QED  BY <1>1, <1>2, <1>3, <1>4, EntryInv DEF Entries

LEMMA NetStutter == NInv /\ UNCHANGED netVars => NInv'
BY DEF NInv, NetTypeOK, NetApart, netVars

-----------------------------------------------------------------------------
(* What handlers do to rooms, calls and events. *)

LEMMA NewsType ==
    ASSUME NEW n \in Nodes, NEW r \in RoomIds, NEW types \in SUBSET {"updated", "deleted"},
           NEW ears \in SUBSET Nodes
    PROVE  News(n, r, types, ears) \subseteq Event
BY DEF News, Event

LEMMA OnlineType == \A n \in Nodes : Online(n) \in SUBSET Nodes
BY DEF Online, OnlineIn

LEMMA PartingType == \A rest : Parting(rest) \subseteq SUBSET {"updated", "deleted"}
BY DEF Parting

LEMMA IdleApart == Idle \notin Call /\ Idle.kind = "idle"
BY DEF Idle, Call

LEMMA OneCall ==
    ASSUME NEW cs \in GoodCalls, NEW s \in Slots, NEW c \in Call \cup {Idle},
           c.kind = "join" => c.seat.node # c.at
    PROVE  [cs EXCEPT ![s] = c] \in GoodCalls
BY DEF GoodCalls, Calls

LEMMA ForwardType ==
    ASSUME NEW n \in Nodes, NEW u \in Users, NEW kind \in {"join", "leave", "command"},
           NEW seat \in Seats, NEW cmd \in Cmds, NEW cs \in GoodCalls,
           kind = "join" => seat.node # n,
           Forward(n, u, kind, seat, cmd, cs)
    PROVE  calls' \in GoodCalls /\ UNCHANGED <<rooms, greeting, events>>
<1> DEFINE c == [kind |-> kind, at |-> n, user |-> u, seat |-> seat, cmd |-> cmd,
                 phase |-> "sent"]
<1>1. PICK s \in Slots : calls' = [cs EXCEPT ![s] = c]
  BY DEF Forward
<1>2. c \in Call /\ c.kind = kind /\ c.seat = seat /\ c.at = n
  BY DEF Call
<1> HIDE DEF c
<1>3. calls' \in GoodCalls
  BY <1>1, <1>2, OneCall
<1>4. QED  BY <1>3 DEF Forward

LEMMA ProxyType ==
    ASSUME PInv, NEW n \in Nodes, NEW u \in Users, NEW cmd \in Cmds, NEW cs \in GoodCalls,
           IsProxied(n, u), ProxyCommand(n, u, cmd, cs)
    PROVE  calls' \in GoodCalls /\ UNCHANGED <<rooms, greeting, events>>
<1>1. proxied[n][u] \in Seats
  BY DEF IsProxied, PInv, PlayerTypes
<1>2. QED  BY <1>1, ForwardType DEF ProxyCommand

(* Rooms, calls and events are still what they should be. *)
MovesOk ==
    /\ rooms' \in Rooms /\ calls' \in GoodCalls
    /\ greeting' \subseteq Nodes \X RoomIds /\ events' \subseteq Event

LEMMA MessageMoves ==
    ASSUME PInv, DInv, NEW n \in Nodes, NEW u \in Users, NEW cmd \in Cmds, NEW cs \in GoodCalls,
           HandleMessage(n, u, cmd, cs)
    PROVE  MovesOk /\ UNCHANGED <<netVars, sessions, userConn, federated, proxied, cache, pulls, rounds>>
<1> USE DEF MovesOk
<1> SUFFICES MovesOk
  BY DEF HandleMessage
<1>1. /\ rooms \in Rooms /\ greeting \subseteq Nodes \X RoomIds /\ events \subseteq Event
      /\ cache \in [Nodes -> [RoomIds -> Nodes \cup {Nowhere}]]
      /\ \A r \in RoomIds : cache[n][r] # n
  BY DEF PInv, DInv, PlayerTypes, DirTypes, DirApart
<1>2. CASE IsProxied(n, u) /\ ProxyCommand(n, u, cmd, cs)
  BY <1>1, <1>2, ProxyType
<1>3. ASSUME NEW r \in RoomIds, CreateRoom(n, u, r, cs)  PROVE MovesOk
  BY <1>1, <1>3 DEF CreateRoom, Rooms
<1>4. ASSUME NEW r \in RoomIds, JoinRoom(n, u, r, cs)  PROVE MovesOk
  <2>1. CASE Exists(n, r)
    <3>1. /\ rooms' = [rooms EXCEPT ![n][r] = @ \cup {u}]
          /\ events' = events \cup News(n, r, {"updated"}, Online(n))
          /\ calls' = cs /\ greeting' = greeting
      BY <1>4, <2>1 DEF JoinRoom
    <3>2. rooms' \in Rooms
      BY <1>1, <3>1 DEF Rooms
    <3>3. QED  BY <1>1, <3>1, <3>2, NewsType, OnlineType
  <2>2. CASE ~Exists(n, r)
    <3> DEFINE seat == [room |-> r, node |-> cache[n][r]]
               join == [type |-> "join", room |-> r]
    <3>1. seat \in Seats /\ seat.node # n /\ join \in Cmds
      BY <1>1, <1>4, <2>2 DEF JoinRoom, Seats, Cmds
    <3>2. Forward(n, u, "join", seat, join, cs)
      BY <1>4, <2>2 DEF JoinRoom
    <3> HIDE DEF seat, join
    <3>3. QED  BY <1>1, <3>1, <3>2, ForwardType
  <2>3. QED  BY <2>1, <2>2
<1>5. CASE LeaveRoom(n, u, cs)
  <2>1. PICK r \in RoomsOf(n, u) :
            LET rest == rooms[n][r] \ {u} IN
            /\ rooms' = [rooms EXCEPT ![n][r] = rest]
            /\ events' = events \cup News(n, r, {"updated"} \cup (IF rest = {} THEN {"deleted"} ELSE {}),
                                          Online(n))
            /\ calls' = cs
            /\ UNCHANGED greeting
    BY <1>5 DEF LeaveRoom
  <2>2. r \in RoomIds
    BY DEF RoomsOf
  <2>3. rooms' \in Rooms
    BY <1>1, <2>1, <2>2 DEF Rooms
  <2>4. \E types \in SUBSET {"updated", "deleted"} : events' = events \cup News(n, r, types, Online(n))
    BY <2>1
  <2>5. QED  BY <1>1, <2>1, <2>2, <2>3, <2>4, NewsType, OnlineType
<1>6. CASE Talk(n, u, cs)
  <2>1. PICK r \in RoomIds : events' = events \cup News(n, r, {"updated"}, Online(n))
    BY <1>6 DEF Talk, RoomsOf
  <2>2. calls' = cs /\ UNCHANGED <<rooms, greeting>>
    BY <1>6 DEF Talk
  <2>3. QED  BY <1>1, <2>1, <2>2, NewsType, OnlineType
<1>7. CASE calls' = cs /\ UNCHANGED <<rooms, greeting, events>>
  BY <1>1, <1>7
<1>8. cmd.type \in {"create", "join"} => cmd.room \in RoomIds
  BY DEF Cmds
<1>9. QED  BY <1>2, <1>3, <1>4, <1>5, <1>6, <1>7, <1>8 DEF HandleMessage

LEMMA DisconnectionMoves ==
    ASSUME PInv, DInv, NEW n \in Nodes, NEW u \in Users, NEW m \in Nodes, NEW cs \in GoodCalls,
           HandleDisconnection(n, u, m, cs)
    PROVE  /\ MovesOk
           /\ sessions' = [sessions EXCEPT ![n][u] = @ \ {m}]
           /\ userConn' \in Records
           /\ UNCHANGED <<netVars, proxied, cache, pulls, rounds>>
<1>1. userConn' \in Records
  BY DEF HandleDisconnection, Records, PInv, PlayerTypes
<1> SUFFICES MovesOk
  BY <1>1 DEF HandleDisconnection
<1>2. rooms \in Rooms /\ greeting \subseteq Nodes \X RoomIds /\ events \subseteq Event
  BY DEF PInv, DInv, PlayerTypes, DirTypes
<1>3. CASE IsProxied(n, u) /\ ProxyCommand(n, u, [type |-> "leave"], cs)
  BY <1>2, <1>3, ProxyType DEF MovesOk, Cmds
<1>4. ASSUME NEW r \in RoomsOf(n, u),
             rooms' = [rooms EXCEPT ![n][r] = rooms[n][r] \ {u}],
             NEW types \in Parting(rooms[n][r] \ {u}),
             events' = events \cup News(n, r, types, Online(n)),
             calls' = cs, greeting' = greeting
      PROVE  MovesOk
  <2>1. r \in RoomIds /\ types \in SUBSET {"updated", "deleted"}
    BY <1>4, PartingType DEF RoomsOf
  <2>2. rooms' \in Rooms
    BY <1>2, <1>4, <2>1 DEF Rooms
  <2>3. QED  BY <1>2, <1>4, <2>1, <2>2, NewsType, OnlineType DEF MovesOk
<1>5. CASE calls' = cs /\ UNCHANGED <<rooms, events, greeting>>
  BY <1>2, <1>5 DEF MovesOk
<1>6. QED  BY <1>3, <1>4, <1>5 DEF HandleDisconnection

(* A step that leaves guests alone. *)
LEMMA GuestsAlone ==
    ASSUME FInv, MovesOk, UNCHANGED <<netVars, sessions, federated, cache, pulls, rounds>>,
           userConn' \in Records, proxied' \in [Nodes -> [Users -> Seats \cup {NoSeat}]]
    PROVE  FInv'
<1>1. NInv'
  BY NetStutter DEF FInv
<1>2. PInv'
  BY DEF FInv, PInv, MovesOk, GoodCalls, PlayerTypes, GuestsApart, GuestsHaveSessions
<1>3. DInv'
  BY DEF FInv, DInv, MovesOk, DirTypes, DirApart
<1>4. QED  BY <1>1, <1>2, <1>3 DEF FInv

(* One that changes the guests of one node. *)
LEMMA GuestsMoved ==
    ASSUME FInv, MovesOk, UNCHANGED <<netVars, proxied, cache, pulls, rounds>>,
           userConn' \in Records,
           sessions' \in [Nodes -> [Users -> SUBSET Nodes]],
           federated' \in Records,
           GuestsApart', GuestsHaveSessions'
    PROVE  FInv'
<1>1. NInv'
  BY NetStutter DEF FInv
<1>2. PInv'
  BY DEF FInv, PInv, MovesOk, GoodCalls, PlayerTypes
<1>3. DInv'
  BY DEF FInv, DInv, MovesOk, DirTypes, DirApart
<1>4. QED  BY <1>1, <1>2, <1>3 DEF FInv
-----------------------------------------------------------------------------
(* Clients, rooms and administrators. *)

LEMMA RoomStepInv == FInv /\ RoomStep => FInv'
<1> SUFFICES ASSUME FInv, RoomStep  PROVE FInv'
  OBVIOUS
<1>1. /\ NInv /\ PInv /\ DInv
      /\ rooms \in Rooms /\ calls \in GoodCalls
      /\ greeting \subseteq Nodes \X RoomIds /\ events \subseteq Event
      /\ userConn \in Records /\ federated \in Records
      /\ sessions \in [Nodes -> [Users -> SUBSET Nodes]]
      /\ proxied \in [Nodes -> [Users -> Seats \cup {NoSeat}]]
      /\ GuestsApart /\ GuestsHaveSessions
  BY DEF FInv, PInv, DInv, PlayerTypes, DirTypes
<1>2. ASSUME NEW u \in Users, NEW cmd \in Cmds, Command(u, cmd)  PROVE FInv'
  <2>1. MovesOk /\ UNCHANGED <<netVars, sessions, userConn, federated, proxied, cache, pulls, rounds>>
    BY <1>1, <1>2, MessageMoves DEF Command
  <2>2. QED  BY <1>1, <2>1, GuestsAlone
<1>3. ASSUME NEW u \in Users, Connect(u)  PROVE FInv'
  <2>1. /\ UNCHANGED <<netVars, rooms, federated, proxied, calls, cache, greeting, pulls, rounds, events>>
        /\ sessions' = [sessions EXCEPT ![Home[u]][u] = @ \cup {Home[u]}]
        /\ userConn' = [userConn EXCEPT ![Home[u]][u] = Home[u]]
    BY <1>3 DEF Connect, dirVars
  <2>2. /\ sessions' \in [Nodes -> [Users -> SUBSET Nodes]] /\ userConn' \in Records
        /\ \A n \in Nodes, v \in Users : sessions[n][v] \subseteq sessions'[n][v]
    BY <1>1, <2>1 DEF Records
  <2>3. GuestsApart' /\ GuestsHaveSessions'
    BY <1>1, <2>1, <2>2 DEF GuestsApart, GuestsHaveSessions
  <2>4. MovesOk
    BY <1>1, <2>1 DEF MovesOk
  <2>5. QED  BY <1>1, <2>1, <2>2, <2>3, <2>4, GuestsMoved
<1>4. ASSUME NEW u \in Users, Disconnect(u)  PROVE FInv'
  <2>1. /\ MovesOk
        /\ sessions' = [sessions EXCEPT ![Home[u]][u] = @ \ {Home[u]}]
        /\ userConn' \in Records
        /\ UNCHANGED <<netVars, proxied, cache, pulls, rounds, federated>>
    BY <1>1, <1>4, DisconnectionMoves DEF Disconnect
  <2>2. sessions' \in [Nodes -> [Users -> SUBSET Nodes]]
    BY <1>1, <2>1
  <2>3. GuestsApart' /\ GuestsHaveSessions'
    BY <1>1, <2>1 DEF GuestsApart, GuestsHaveSessions
  <2>4. QED  BY <1>1, <2>1, <2>2, <2>3, GuestsMoved
<1>5. ASSUME NEW n \in Nodes, NEW u \in Users, Kick(n, u)  PROVE FInv'
  <2>1. PICK r \in RoomsOf(n, u) :
            /\ rooms' = [rooms EXCEPT ![n][r] = @ \ {u}]
            /\ events' = events \cup News(n, r, {"updated"}, Online(n))
            /\ UNCHANGED <<netVars, sessions, userConn, federated, proxied, calls, dirVars>>
    BY <1>5 DEF Kick
  <2>2. r \in RoomIds /\ rooms' \in Rooms
    BY <1>1, <2>1 DEF RoomsOf, Rooms
  <2>3. events' \subseteq Event
    BY <1>1, <2>1, <2>2, NewsType, OnlineType
  <2>4. QED  BY <1>1, <2>1, <2>2, <2>3, GuestsAlone DEF MovesOk, dirVars
<1>6. ASSUME NEW n \in Nodes, NEW r \in RoomIds, CloseRoom(n, r)  PROVE FInv'
  <2>1. rooms' \in Rooms
    BY <1>1, <1>6 DEF CloseRoom, Rooms
  <2>2. QED  BY <1>1, <1>6, <2>1, GuestsAlone DEF CloseRoom, MovesOk, dirVars
<1>7. ASSUME NEW n \in Nodes, NEW r \in RoomIds, GreetingDone(n, r)  PROVE FInv'
  <2>1. events' \subseteq Event
    BY <1>1, <1>7, NewsType, OnlineType DEF GreetingDone
  <2>2. QED  BY <1>1, <1>7, <2>1, GuestsAlone DEF GreetingDone, MovesOk, playerVars
<1>8. QED  BY <1>2, <1>3, <1>4, <1>5, <1>6, <1>7 DEF RoomStep

-----------------------------------------------------------------------------
(* Forwarded requests. *)

LEMMA NotedType ==
    ASSUME calls \in GoodCalls, NEW s \in Slots, NEW answer \in {"yes", "no"}, calls[s] # Idle
    PROVE  Noted(s, answer) \in GoodCalls
<1> DEFINE c == IF calls[s].phase = "orphan" THEN Idle ELSE [calls[s] EXCEPT !.phase = answer]
<1>1. calls[s] \in Call /\ (calls[s].kind = "join" => calls[s].seat.node # calls[s].at)
  BY DEF GoodCalls, Calls
<1>2. c \in Call \cup {Idle} /\ (c.kind = "join" => c.seat.node # c.at)
  BY <1>1, IdleApart DEF Call
<1>3. Noted(s, answer) = [calls EXCEPT ![s] = c]
  BY DEF Noted
<1> HIDE DEF c
<1>4. QED  BY <1>2, <1>3, OneCall

LEMMA CallType ==
    ASSUME calls \in GoodCalls, NEW s \in Slots, calls[s].kind # "idle"
    PROVE  /\ calls[s] \in Call /\ calls[s] # Idle
           /\ calls[s].at \in Nodes /\ calls[s].user \in Users /\ calls[s].cmd \in Cmds
           /\ calls[s].seat \in Seats /\ calls[s].seat.node \in Nodes /\ calls[s].seat.room \in RoomIds
           /\ calls[s].kind = "join" => calls[s].seat.node # calls[s].at
<1>1. calls[s] \in Call /\ (calls[s].kind = "join" => calls[s].seat.node # calls[s].at)
  BY IdleApart DEF GoodCalls, Calls
<1>2. QED  BY <1>1, IdleApart DEF Call, Seats

LEMMA CallEnds ==
    ASSUME calls \in GoodCalls, NEW s \in Slots
    PROVE  [calls EXCEPT ![s] = Idle] \in GoodCalls
BY OneCall, IdleApart

LEMMA JoinServedInv ==
    ASSUME FInv, NEW s \in Slots, JoinServed(s)
    PROVE  FInv'
<1> DEFINE c == calls[s]
           m == c.seat.node
<1>1. /\ rooms \in Rooms /\ calls \in GoodCalls
      /\ greeting \subseteq Nodes \X RoomIds /\ events \subseteq Event
      /\ userConn \in Records /\ federated \in Records
      /\ sessions \in [Nodes -> [Users -> SUBSET Nodes]]
      /\ GuestsApart /\ GuestsHaveSessions
  BY DEF FInv, PInv, DInv, PlayerTypes, DirTypes
<1>2. c.kind = "join"
  BY DEF JoinServed, Arriving
<1>3. /\ c # Idle /\ c.at \in Nodes /\ c.user \in Users /\ m \in Nodes /\ c.seat.room \in RoomIds
      /\ m # c.at
  BY <1>1, <1>2, CallType
<1>4. /\ rooms' = [rooms EXCEPT ![m][c.seat.room] = @ \cup {c.user}]
      /\ sessions' = [sessions EXCEPT ![m][c.user] = @ \cup {c.at}]
      /\ userConn' = [userConn EXCEPT ![m][c.user] = c.at]
      /\ federated' = [federated EXCEPT ![m][c.user] = c.at]
      /\ events' = events \cup News(m, c.seat.room, {"updated"}, Online(m))
      /\ calls' = Noted(s, "yes")
      /\ UNCHANGED <<netVars, proxied, cache, greeting, pulls, rounds>>
  BY DEF JoinServed, dirVars
<1>5. calls' \in GoodCalls
  BY <1>1, <1>3, <1>4, NotedType
<1>6. events' \subseteq Event
  BY <1>1, <1>3, <1>4, NewsType, OnlineType
<1> HIDE DEF c, m
<1>7. MovesOk
  BY <1>1, <1>3, <1>4, <1>5, <1>6 DEF MovesOk, Rooms
<1>8. /\ userConn' \in Records /\ federated' \in Records
      /\ sessions' \in [Nodes -> [Users -> SUBSET Nodes]]
  BY <1>1, <1>3, <1>4 DEF Records
<1>9. GuestsApart' /\ GuestsHaveSessions'
  <2>1. ASSUME NEW n \in Nodes, NEW u \in Users
        PROVE  federated'[n][u] # n /\ (federated'[n][u] # Nowhere => federated'[n][u] \in sessions'[n][u])
    <3>1. CASE n = m /\ u = c.user
      <4>1. federated'[n][u] = c.at /\ c.at \in sessions'[n][u]
        BY <1>1, <1>3, <1>4, <3>1 DEF Records
      <4>2. QED  BY <1>3, <3>1, <4>1
    <3>2. CASE ~(n = m /\ u = c.user)
      <4>1. federated'[n][u] = federated[n][u] /\ sessions'[n][u] = sessions[n][u]
        BY <1>1, <1>3, <1>4, <3>2 DEF Records
      <4>2. QED  BY <1>1, <4>1 DEF GuestsApart, GuestsHaveSessions
    <3>3. QED  BY <3>1, <3>2
  <2>2. QED  BY <2>1 DEF GuestsApart, GuestsHaveSessions
<1>10. QED  BY <1>4, <1>7, <1>8, <1>9, GuestsMoved

LEMMA LeaveServedInv ==
    ASSUME FInv, NEW s \in Slots, LeaveServed(s)
    PROVE  FInv'
<1> DEFINE n == calls[s].seat.node
           u == calls[s].user
           m == federated[n][u]
           via == userConn[n][u]
           cs == Noted(s, "yes")
<1>1. /\ PInv /\ DInv /\ rooms \in Rooms /\ calls \in GoodCalls
      /\ greeting \subseteq Nodes \X RoomIds /\ events \subseteq Event
      /\ userConn \in Records /\ federated \in Records
      /\ sessions \in [Nodes -> [Users -> SUBSET Nodes]]
      /\ proxied \in [Nodes -> [Users -> Seats \cup {NoSeat}]]
      /\ GuestsApart /\ GuestsHaveSessions
  BY DEF FInv, PInv, DInv, PlayerTypes, DirTypes
<1>2. calls[s].kind = "leave" /\ RemoveIncoming(n, u, cs)
  BY DEF LeaveServed, Arriving
<1>3. n \in Nodes /\ u \in Users /\ cs \in GoodCalls
  BY <1>1, <1>2, CallType, NotedType
<1>4. m \in Nodes \cup {Nowhere} /\ via \in Nodes \cup {Nowhere}
  BY <1>1, <1>3 DEF Records
<1>5. \/ /\ m # Nowhere /\ HandleDisconnection(n, u, m, cs)
         /\ federated' = [federated EXCEPT ![n][u] = Nowhere]
      \/ /\ m = Nowhere /\ via \notin {Nowhere, n} /\ HandleDisconnection(n, u, via, cs)
         /\ UNCHANGED federated
      \/ /\ rooms' = [rooms EXCEPT ![n] = [r \in RoomIds |-> @[r] \ {u}]]
         /\ calls' = cs
         /\ UNCHANGED <<netVars, sessions, userConn, federated, proxied, dirVars, events>>
  BY <1>2 DEF RemoveIncoming
<1> HIDE DEF n, u, cs
<1>6. ASSUME m # Nowhere, HandleDisconnection(n, u, m, cs),
             federated' = [federated EXCEPT ![n][u] = Nowhere]
      PROVE  FInv'
  <2>1. /\ MovesOk
        /\ sessions' = [sessions EXCEPT ![n][u] = @ \ {m}]
        /\ userConn' \in Records
        /\ UNCHANGED <<netVars, proxied, cache, pulls, rounds>>
    BY <1>1, <1>3, <1>4, <1>6, DisconnectionMoves
  <2>2. sessions' \in [Nodes -> [Users -> SUBSET Nodes]] /\ federated' \in Records
    BY <1>1, <1>3, <1>6, <2>1 DEF Records
  <2>3. GuestsApart' /\ GuestsHaveSessions'
    BY <1>1, <1>3, <1>6, <2>1 DEF GuestsApart, GuestsHaveSessions, Records
  <2>4. QED  BY <2>1, <2>2, <2>3, GuestsMoved
<1>7. ASSUME m = Nowhere, via \notin {Nowhere, n}, HandleDisconnection(n, u, via, cs),
             UNCHANGED federated
      PROVE  FInv'
  <2>1. /\ MovesOk
        /\ sessions' = [sessions EXCEPT ![n][u] = @ \ {via}]
        /\ userConn' \in Records
        /\ UNCHANGED <<netVars, proxied, cache, pulls, rounds>>
    BY <1>1, <1>3, <1>4, <1>7, DisconnectionMoves
  <2>2. sessions' \in [Nodes -> [Users -> SUBSET Nodes]] /\ federated' \in Records
    BY <1>1, <1>3, <1>7, <2>1
  <2>3. GuestsApart' /\ GuestsHaveSessions'
    BY <1>1, <1>3, <1>7, <2>1 DEF GuestsApart, GuestsHaveSessions, Records
  <2>4. QED  BY <2>1, <2>2, <2>3, GuestsMoved
<1>8. ASSUME rooms' = [rooms EXCEPT ![n] = [r \in RoomIds |-> @[r] \ {u}]], calls' = cs,
             UNCHANGED <<netVars, sessions, userConn, federated, proxied, dirVars, events>>
      PROVE  FInv'
  <2>1. rooms' \in Rooms
    BY <1>1, <1>3, <1>8 DEF Rooms
  <2>2. QED  BY <1>1, <1>3, <1>8, <2>1, GuestsAlone DEF MovesOk, dirVars
<1>9. QED  BY <1>5, <1>6, <1>7, <1>8

(* Answers change calls and seats only. *)
LEMMA AnswersInv ==
    ASSUME FInv, NEW s \in Slots,
           \/ JoinRefused(s) \/ JoinAnswered(s) \/ CommandAnswered(s) \/ LeaveAnswered(s)
           \/ CallFails(s) \/ OrphanLost(s)
    PROVE  FInv'
<1>1. /\ rooms \in Rooms /\ calls \in GoodCalls
      /\ greeting \subseteq Nodes \X RoomIds /\ events \subseteq Event
      /\ userConn \in Records
      /\ proxied \in [Nodes -> [Users -> Seats \cup {NoSeat}]]
  BY DEF FInv, PInv, DInv, PlayerTypes, DirTypes
<1>2. calls[s].kind # "idle"
  <2>1. calls[s] # Idle
    BY IdleApart DEF JoinRefused, JoinAnswered, CommandAnswered, LeaveAnswered, CallFails,
                     OrphanLost, Arriving
  <2>2. QED  BY <1>1, <2>1 DEF GoodCalls, Calls, Call
<1>3. /\ calls[s] \in Call /\ calls[s] # Idle /\ calls[s].seat \in Seats
      /\ calls[s].at \in Nodes /\ calls[s].user \in Users
      /\ calls[s].kind = "join" => calls[s].seat.node # calls[s].at
  BY <1>1, <1>2, CallType
<1>4. [calls EXCEPT ![s].phase = "orphan"] \in GoodCalls
  <2> DEFINE c == [calls[s] EXCEPT !.phase = "orphan"]
  <2>1. c \in Call /\ (c.kind = "join" => c.seat.node # c.at)
    BY <1>3 DEF Call
  <2>2. [calls EXCEPT ![s].phase = "orphan"] = [calls EXCEPT ![s] = c]
    OBVIOUS
  <2> HIDE DEF c
  <2>3. QED  BY <1>1, <2>1, <2>2, OneCall
<1>5. calls' \in {[calls EXCEPT ![s] = Idle], [calls EXCEPT ![s].phase = "orphan"], Noted(s, "no")}
  BY DEF JoinRefused, JoinAnswered, CommandAnswered, LeaveAnswered, CallFails, OrphanLost
<1>6. calls' \in GoodCalls
  BY <1>1, <1>3, <1>4, <1>5, CallEnds, NotedType
<1>7. \E seat \in {calls[s].seat, NoSeat} :
          proxied' \in {proxied, [proxied EXCEPT ![calls[s].at][calls[s].user] = seat]}
  BY DEF JoinRefused, JoinAnswered, CommandAnswered, LeaveAnswered, CallFails, OrphanLost
<1>8. proxied' \in [Nodes -> [Users -> Seats \cup {NoSeat}]]
  BY <1>1, <1>3, <1>7
<1>9. /\ UNCHANGED <<phase, instance, nodes, disk, msgs, rooms, sessions, userConn, federated,
                     cache, greeting, pulls, rounds, events>>
      /\ faults' \in {faults, faults + 1}
  BY DEF JoinRefused, JoinAnswered, CommandAnswered, LeaveAnswered, CallFails, OrphanLost,
         netVars, dirVars, Fault
<1>10. NInv'
  BY <1>9 DEF FInv, NInv, NetTypeOK, NetApart
<1>11. PInv'
  BY <1>6, <1>8, <1>9 DEF FInv, PInv, PlayerTypes, GoodCalls, GuestsApart, GuestsHaveSessions
<1>12. DInv'
  BY <1>9 DEF FInv, DInv, DirTypes, DirApart
<1>13. QED  BY <1>10, <1>11, <1>12 DEF FInv

LEMMA CommandServedInv ==
    ASSUME FInv, NEW s \in Slots, CommandServed(s)
    PROVE  FInv'
<1>1. /\ PInv /\ DInv /\ rooms \in Rooms /\ calls \in GoodCalls
      /\ greeting \subseteq Nodes \X RoomIds /\ events \subseteq Event
      /\ userConn \in Records
      /\ proxied \in [Nodes -> [Users -> Seats \cup {NoSeat}]]
  BY DEF FInv, PInv, DInv, PlayerTypes, DirTypes
<1>2. calls[s].kind = "command"
  BY DEF CommandServed, Arriving
<1>3. calls[s] # Idle /\ calls[s].seat.node \in Nodes /\ calls[s].user \in Users /\ calls[s].cmd \in Cmds
  BY <1>1, <1>2, CallType
<1>4. Noted(s, "yes") \in GoodCalls /\ Noted(s, "no") \in GoodCalls
  BY <1>1, <1>3, NotedType
<1>5. CASE HandleMessage(calls[s].seat.node, calls[s].user, calls[s].cmd, Noted(s, "yes"))
  <2>1. MovesOk /\ UNCHANGED <<netVars, sessions, userConn, federated, proxied, cache, pulls, rounds>>
    BY <1>1, <1>3, <1>4, <1>5, MessageMoves
  <2>2. QED  BY <1>1, <2>1, GuestsAlone
<1>6. CASE /\ calls' = Noted(s, "no")
           /\ UNCHANGED <<netVars, rooms, sessions, userConn, federated, proxied, dirVars, events>>
  BY <1>1, <1>4, <1>6, GuestsAlone DEF MovesOk, dirVars
<1>7. QED  BY <1>5, <1>6 DEF CommandServed

LEMMA CallStepInv == FInv /\ CallStep => FInv'
BY JoinServedInv, LeaveServedInv, AnswersInv, CommandServedInv DEF CallStep
-----------------------------------------------------------------------------
(* News of rooms: players and nodes are left alone, but for seats that an  *)
(* event empties.                                                          *)

LEMMA NewsOnly ==
    ASSUME FInv, DInv', UNCHANGED <<phase, instance, nodes, disk, msgs>>, faults' \in Nat,
           UNCHANGED <<rooms, sessions, userConn, federated, calls>>,
           proxied' \in [Nodes -> [Users -> Seats \cup {NoSeat}]]
    PROVE  FInv'
<1>1. NInv'
  BY DEF FInv, NInv, NetTypeOK, NetApart
<1>2. PInv'
  BY DEF FInv, PInv, PlayerTypes, GoodCalls, GuestsApart, GuestsHaveSessions
<1>3. QED  BY <1>1, <1>2 DEF FInv

LEMMA EventStepInv == FInv /\ EventStep => FInv'
<1> SUFFICES ASSUME FInv, NEW e \in events, HandleIncomingEvent(e) \/ EventLost(e)
             PROVE  FInv'
  BY DEF EventStep
<1>1. /\ DirTypes /\ DirApart /\ faults \in Nat
      /\ cache \in [Nodes -> [RoomIds -> Nodes \cup {Nowhere}]]
      /\ proxied \in [Nodes -> [Users -> Seats \cup {NoSeat}]]
      /\ e.from \in Nodes /\ e.to \in Nodes /\ e.room \in RoomIds
  BY DEF FInv, NInv, PInv, DInv, NetTypeOK, PlayerTypes, DirTypes, Event
<1>2. CASE HandleIncomingEvent(e)
  <2>1. /\ cache' \in [Nodes -> [RoomIds -> Nodes \cup {Nowhere}]]
        /\ \A n \in Nodes, r \in RoomIds : cache'[n][r] # n
    <3>1. \E x \in (Nodes \ {e.to}) \cup {Nowhere} :
              cache' \in {cache, [cache EXCEPT ![e.to][e.room] = x]}
      BY <1>1, <1>2 DEF HandleIncomingEvent
    <3>2. PICK x \in (Nodes \ {e.to}) \cup {Nowhere} :
              cache' \in {cache, [cache EXCEPT ![e.to][e.room] = x]}
      BY <3>1
    <3>3. \A n \in Nodes, r \in RoomIds : cache[n][r] # n
      BY <1>1 DEF DirApart
    <3>4. CASE cache' = [cache EXCEPT ![e.to][e.room] = x]
      BY <1>1, <3>3, <3>4
    <3>5. QED  BY <1>1, <3>2, <3>3, <3>4
  <2>2. proxied' \in [Nodes -> [Users -> Seats \cup {NoSeat}]]
    BY <1>1, <1>2 DEF HandleIncomingEvent
  <2>3. /\ UNCHANGED <<netVars, rooms, sessions, userConn, federated, calls, greeting, pulls, rounds>>
        /\ events' \subseteq events
    BY <1>2 DEF HandleIncomingEvent
  <2>4. DInv'
    BY <1>1, <2>1, <2>3 DEF DInv, DirTypes, DirApart
  <2>5. QED  BY <1>1, <2>2, <2>3, <2>4, NewsOnly DEF netVars
<1>3. CASE EventLost(e)
  <2>1. DInv'
    BY <1>1, <1>3 DEF EventLost, DInv, DirTypes, DirApart, dirVars
  <2>2. QED  BY <1>1, <1>3, <2>1, NewsOnly DEF EventLost, netVars, playerVars
<1>4. QED  BY <1>2, <1>3

LEMMA PullStepInv == FInv /\ PullStep => FInv'
<1> SUFFICES ASSUME FInv, NEW p \in pulls, PullServed(p) \/ Pulled(p) \/ PullFails(p)
             PROVE  FInv'
  BY DEF PullStep
<1>1. /\ DirTypes /\ DirApart /\ faults \in Nat
      /\ proxied \in [Nodes -> [Users -> Seats \cup {NoSeat}]]
      /\ p \in Pull /\ p.at \in Nodes /\ p.of \in Nodes /\ p.at # p.of
  BY DEF FInv, NInv, PInv, DInv, NetTypeOK, PlayerTypes, DirTypes, DirApart, Pull
<1>2. UNCHANGED <<netVars, playerVars, greeting, rounds, events>>
  BY DEF PullServed, Pulled, PullFails
<1>3. pulls' \subseteq Pull /\ \A q \in pulls' : q.at # q.of
  <2>1. CASE PullServed(p)
    <3> DEFINE q == [p EXCEPT !.got = RoomsAt(p.of)]
    <3>1. q \in Pull /\ q.at = p.at /\ q.of = p.of
      BY <1>1 DEF Pull, RoomsAt
    <3>2. pulls' = (pulls \ {p}) \cup {q}
      BY <2>1 DEF PullServed
    <3> HIDE DEF q
    <3>3. QED  BY <1>1, <3>1, <3>2 DEF DirTypes, DirApart
  <2>2. CASE Pulled(p) \/ PullFails(p)
    BY <1>1, <2>2 DEF DirTypes, DirApart, Pulled, PullFails
  <2>3. QED  BY <2>1, <2>2
<1>4. /\ cache' \in [Nodes -> [RoomIds -> Nodes \cup {Nowhere}]]
      /\ \A n \in Nodes, r \in RoomIds : cache'[n][r] # n
  <2>1. /\ cache \in [Nodes -> [RoomIds -> Nodes \cup {Nowhere}]]
        /\ \A n \in Nodes, r \in RoomIds : cache[n][r] # n
    BY <1>1 DEF DirTypes, DirApart
  <2>2. CASE Pulled(p)
    <3>1. cache' = [cache EXCEPT ![p.at] = [r \in RoomIds |-> IF r \in p.got THEN p.of ELSE @[r]]]
      BY <2>2 DEF Pulled
    <3>2. QED  BY <1>1, <2>1, <3>1
  <2>3. CASE cache' = cache
    BY <2>1, <2>3
  <2>4. QED  BY <2>2, <2>3 DEF PullServed, PullFails
<1>5. DInv'
  BY <1>1, <1>2, <1>3, <1>4 DEF DInv, DirTypes, DirApart
<1>6. QED  BY <1>1, <1>2, <1>5, NewsOnly DEF netVars, playerVars

LEMMA RoundStepInv == FInv /\ RoundStep => FInv'
<1> SUFFICES ASSUME FInv, NEW n \in Nodes, NEW i \in Rounds,
                    \/ RoundStarts(n, i) \/ RoundEnds(n, i)
                    \/ \E m \in Nodes : RoundAnswered(n, i, m) \/ RoundMissed(n, i, m)
             PROVE  FInv'
  BY DEF RoundStep, Rounding
<1>1. /\ DirTypes /\ DirApart /\ faults \in Nat
      /\ proxied \in [Nodes -> [Users -> Seats \cup {NoSeat}]]
      /\ cache \in [Nodes -> [RoomIds -> Nodes \cup {Nowhere}]]
      /\ rounds \in [Nodes -> [Rounds -> Round]] /\ rounds[n][i] \in Round
      /\ n \notin rounds[n][i].waiting /\ \A r \in RoomIds : rounds[n][i].found[r] # n
  BY DEF FInv, NInv, PInv, DInv, NetTypeOK, PlayerTypes, DirTypes, DirApart
<1>2. /\ UNCHANGED <<phase, instance, nodes, disk, msgs, playerVars, greeting, pulls, events>>
      /\ faults' \in {faults, faults + 1}
  BY DEF RoundStarts, RoundEnds, RoundAnswered, RoundMissed, Fault, netVars
<1>3. n \notin Online(n)
  BY DEF FInv, NInv, NetApart, Online, OnlineIn, Absent
<1>4. ASSUME NEW x \in Round, rounds' = [rounds EXCEPT ![n][i] = x],
             n \notin x.waiting, \A r \in RoomIds : x.found[r] # n,
             cache' \in [Nodes -> [RoomIds -> Nodes \cup {Nowhere}]],
             \A k \in Nodes, r \in RoomIds : cache'[k][r] # k
      PROVE  FInv'
  <2>1. rounds' \in [Nodes -> [Rounds -> Round]]
    BY <1>1, <1>4
  <2>2. \A k \in Nodes, j \in Rounds :
            k \notin rounds'[k][j].waiting /\ \A r \in RoomIds : rounds'[k][j].found[r] # k
    BY <1>1, <1>4 DEF DirApart
  <2>3. DInv'
    BY <1>1, <1>2, <1>4, <2>1, <2>2 DEF DInv, DirTypes, DirApart
  <2>4. QED  BY <1>1, <1>2, <2>3, NewsOnly DEF playerVars
<1>5. NoRound \in Round /\ \A r \in RoomIds : NoRound.found[r] # n
  BY DEF NoRound, Round
<1>6. \A k \in Nodes, r \in RoomIds : cache[k][r] # k
  BY <1>1 DEF DirApart
<1>7. CASE RoundStarts(n, i)
  <2> DEFINE x == [NoRound EXCEPT !.on = TRUE, !.waiting = Online(n)]
  <2>1. x \in Round /\ x.waiting = Online(n) /\ x.found = NoRound.found
    BY OnlineType DEF NoRound, Round
  <2>2. rounds' = [rounds EXCEPT ![n][i] = x] /\ cache' = cache
    BY <1>7 DEF RoundStarts
  <2> HIDE DEF x
  <2>3. QED  BY <1>1, <1>3, <1>4, <1>5, <1>6, <2>1, <2>2
<1>8. CASE RoundEnds(n, i)
  <2>1. /\ rounds' = [rounds EXCEPT ![n][i] = NoRound]
        /\ cache' = [cache EXCEPT ![n] = rounds[n][i].found]
    BY <1>8 DEF RoundEnds
  <2>2. rounds[n][i].found \in [RoomIds -> Nodes \cup {Nowhere}] /\ NoRound.waiting = {}
    BY <1>1 DEF Round, NoRound
  <2>3. QED  BY <1>1, <1>4, <1>5, <1>6, <2>1, <2>2
<1>9. ASSUME NEW m \in Nodes, RoundAnswered(n, i, m) \/ RoundMissed(n, i, m)  PROVE FInv'
  <2>1. PICK rs : Found(n, i, m, rs)
    BY <1>9 DEF RoundAnswered, RoundMissed
  <2>2. m # n /\ cache' = cache
    BY <1>1, <1>9 DEF RoundAnswered, RoundMissed
  <2> DEFINE x == [rounds[n][i] EXCEPT !.waiting = @ \ {m},
                                       !.found = [r \in RoomIds |-> IF r \in rs THEN m ELSE @[r]]]
  <2>3. rounds' = [rounds EXCEPT ![n][i] = x]
    BY <1>1, <2>1 DEF Found, Round
  <2>4. x \in Round /\ n \notin x.waiting /\ \A r \in RoomIds : x.found[r] # n
    BY <1>1, <2>2 DEF Round
  <2> HIDE DEF x
  <2>5. QED  BY <1>1, <1>4, <1>6, <2>2, <2>3, <2>4
<1>10. QED  BY <1>7, <1>8, <1>9

-----------------------------------------------------------------------------
(* Nodes that come and go. *)

LEMMA LeavesType ==
    ASSUME PInv, NEW n \in Nodes, NEW us \in SUBSET Users, \A u \in us : IsProxied(n, u),
           NEW slot \in [us -> Slots]
    PROVE  Leaves(n, us, slot) \in GoodCalls
<1>1. ASSUME NEW s \in Slots, NEW u \in us
      PROVE  LET c == [kind |-> "leave", at |-> n, user |-> u, seat |-> proxied[n][u],
                       cmd |-> [type |-> "leave"], phase |-> "sent"]
             IN  c \in Call /\ c.kind = "leave"
  BY DEF Call, Cmds, IsProxied, PInv, PlayerTypes
<1>2. ASSUME NEW s \in Slots
      PROVE  /\ Leaves(n, us, slot)[s] \in Call \cup {Idle}
             /\ Leaves(n, us, slot)[s].kind = "join" => Leaves(n, us, slot)[s] = calls[s]
  <2>1. CASE \E u \in us : slot[u] = s
    <3> DEFINE v == CHOOSE u \in us : slot[u] = s
    <3>1. v \in us
      BY <2>1
    <3>2. Leaves(n, us, slot)[s] = [kind |-> "leave", at |-> n, user |-> v, seat |-> proxied[n][v],
                                    cmd |-> [type |-> "leave"], phase |-> "sent"]
      BY <2>1 DEF Leaves
    <3> HIDE DEF v
    <3>3. QED  BY <1>1, <3>1, <3>2
  <2>2. CASE ~\E u \in us : slot[u] = s
    BY <2>2 DEF Leaves, PInv, PlayerTypes, Calls
  <2>3. QED  BY <2>1, <2>2
<1>3. Leaves(n, us, slot) \in Calls
  <2>1. Leaves(n, us, slot) = [s \in Slots |-> Leaves(n, us, slot)[s]]
    BY DEF Leaves
  <2>2. QED  BY <1>2, <2>1 DEF Calls
<1>4. \A s \in Slots : Leaves(n, us, slot)[s].kind = "join"
          => Leaves(n, us, slot)[s].seat.node # Leaves(n, us, slot)[s].at
  BY <1>2 DEF PInv, GoodCalls
<1>5. QED  BY <1>3, <1>4 DEF GoodCalls

(* The players who came from m lose the record and the session together.   *)
LEMMA OfflineInv ==
    ASSUME PInv, DInv, NEW n \in Nodes, NEW m \in Nodes, NEW ears \in SUBSET Nodes,
           NodeOffline(n, m, ears)
    PROVE  /\ PInv' /\ events' \subseteq Event
           /\ cache' \in [Nodes -> [RoomIds -> Nodes \cup {Nowhere}]]
           /\ \A k \in Nodes, r \in RoomIds : cache'[k][r] # k
<1> DEFINE guests == {u \in Users : federated[n][u] = m}
           relayed == {u \in guests : IsProxied(n, u)}
<1>1. /\ rooms \in Rooms /\ calls \in GoodCalls /\ events \subseteq Event
      /\ userConn \in Records /\ federated \in Records
      /\ sessions \in [Nodes -> [Users -> SUBSET Nodes]]
      /\ proxied \in [Nodes -> [Users -> Seats \cup {NoSeat}]]
      /\ cache \in [Nodes -> [RoomIds -> Nodes \cup {Nowhere}]]
      /\ \A k \in Nodes, r \in RoomIds : cache[k][r] # k
      /\ GuestsApart /\ GuestsHaveSessions
  BY DEF PInv, DInv, PlayerTypes, DirTypes, DirApart
<1>2. rooms' \in Rooms /\ events' \subseteq Event
  <2>1. PICK from \in [guests -> RoomIds \cup {Nowhere}] :
            LET left(r) == {u \in guests : from[u] = r} IN
            /\ rooms' = [rooms EXCEPT ![n] = [r \in RoomIds |-> @[r] \ left(r)]]
            /\ \E types \in [RoomIds -> {{"updated"}, {"deleted"}, {"updated", "deleted"}}] :
                events' = events \cup
                   UNION {News(n, r, types[r], ears) : r \in {x \in RoomIds : left(x) # {}}}
    BY DEF NodeOffline
  <2> DEFINE left(r) == {u \in guests : from[u] = r}
  <2>2. rooms' = [rooms EXCEPT ![n] = [r \in RoomIds |-> rooms[n][r] \ left(r)]]
    BY <1>1, <2>1 DEF Rooms
  <2>3. PICK types \in [RoomIds -> {{"updated"}, {"deleted"}, {"updated", "deleted"}}] :
            events' = events \cup
               UNION {News(n, r, types[r], ears) : r \in {x \in RoomIds : left(x) # {}}}
    BY <2>1
  <2> HIDE DEF left
  <2>4. rooms' \in Rooms
    BY <1>1, <2>2 DEF Rooms
  <2>5. \A r \in RoomIds : News(n, r, types[r], ears) \subseteq Event
    BY NewsType
  <2>6. QED  BY <1>1, <2>3, <2>4, <2>5
<1>3. calls' \in GoodCalls
  <2>1. PICK slot \in [relayed -> {s \in Slots : calls[s] = Idle}] : calls' = Leaves(n, relayed, slot)
    BY DEF NodeOffline
  <2>2. slot \in [relayed -> Slots] /\ relayed \in SUBSET Users /\ \A u \in relayed : IsProxied(n, u)
    OBVIOUS
  <2> HIDE DEF relayed
  <2>3. QED  BY <2>1, <2>2, LeavesType
<1>4. /\ sessions' = [sessions EXCEPT ![n] =
             [u \in Users |-> IF u \in guests THEN @[u] \ {m} ELSE @[u]]]
      /\ userConn' = [userConn EXCEPT ![n] =
             [u \in Users |-> IF u \in guests /\ @[u] = m THEN Nowhere ELSE @[u]]]
      /\ federated' = [federated EXCEPT ![n] =
             [u \in Users |-> IF u \in guests THEN Nowhere ELSE @[u]]]
      /\ proxied' = [proxied EXCEPT ![n] =
             [u \in Users |-> IF @[u].node = m THEN NoSeat ELSE @[u]]]
      /\ cache' = [cache EXCEPT ![n] =
             [r \in RoomIds |-> IF @[r] = m THEN Nowhere ELSE @[r]]]
  BY DEF NodeOffline
<1>5. /\ sessions' \in [Nodes -> [Users -> SUBSET Nodes]]
      /\ userConn' \in Records /\ federated' \in Records
      /\ proxied' \in [Nodes -> [Users -> Seats \cup {NoSeat}]]
      /\ cache' \in [Nodes -> [RoomIds -> Nodes \cup {Nowhere}]]
  BY <1>1, <1>4 DEF Records
<1>6. GuestsApart' /\ GuestsHaveSessions'
  BY <1>1, <1>4 DEF GuestsApart, GuestsHaveSessions, Records
<1>7. \A k \in Nodes, r \in RoomIds : cache'[k][r] # k
  BY <1>1, <1>4
<1>8. PInv'
  BY <1>2, <1>3, <1>5, <1>6 DEF PInv, PlayerTypes, GoodCalls
<1>9. QED  BY <1>2, <1>5, <1>7, <1>8

LEMMA PlayersStutter == PInv /\ UNCHANGED playerVars => PInv'
BY DEF PInv, PlayerTypes, GoodCalls, GuestsApart, GuestsHaveSessions, playerVars

LEMMA DirStutter == DInv /\ UNCHANGED <<dirVars, events>> => DInv'
BY DEF DInv, DirTypes, DirApart, dirVars

LEMMA DirMoves ==
    ASSUME DInv, UNCHANGED <<greeting, rounds>>, events' \subseteq Event,
           cache' \in [Nodes -> [RoomIds -> Nodes \cup {Nowhere}]],
           \A k \in Nodes, r \in RoomIds : cache'[k][r] # k,
           pulls' \subseteq Pull, \A p \in pulls' : p.at # p.of
    PROVE  DInv'
BY DEF DInv, DirTypes, DirApart

LEMMA DirParts ==
    DInv => /\ events \subseteq Event /\ pulls \subseteq Pull /\ \A p \in pulls : p.at # p.of
            /\ cache \in [Nodes -> [RoomIds -> Nodes \cup {Nowhere}]]
            /\ \A k \in Nodes, r \in RoomIds : cache[k][r] # k
BY DEF DInv, DirTypes, DirApart

LEMMA AskedType ==
    ASSUME DInv, NEW n \in Nodes, NEW m \in Nodes \ {n}
    PROVE  Asked(n, m) \subseteq Pull /\ \A p \in Asked(n, m) : p.at # p.of
BY DirParts DEF Asked, Pull

LEMMA MetInv ==
    ASSUME PInv, DInv, NEW n \in Nodes, NEW m \in Nodes \ {n}, NEW i, Met(n, m, i),
           pulls' \in {pulls, Asked(n, m)}
    PROVE  PInv' /\ DInv'
<1>1. pulls' \subseteq Pull /\ \A p \in pulls' : p.at # p.of
  BY AskedType, DirParts
<1>2. UNCHANGED <<greeting, rounds>>
  BY DEF Met
<1>3. CASE NodeOffline(n, m, Online(n))
  BY <1>1, <1>2, <1>3, OfflineInv, OnlineType, DirMoves
<1>4. CASE UNCHANGED <<playerVars, cache, events>>
  BY <1>1, <1>2, <1>4, PlayersStutter, DirParts, DirMoves
<1>5. QED  BY <1>3, <1>4 DEF Met

LEMMA CrashesInv ==
    ASSUME FInv, NEW n \in Nodes, Crashes(n)
    PROVE  FInv'
<1>1. NInv'
  BY CrashApart DEF FInv, Crashes
<1>2. /\ rooms \in Rooms /\ calls \in GoodCalls
      /\ userConn \in Records /\ federated \in Records
      /\ sessions \in [Nodes -> [Users -> SUBSET Nodes]]
      /\ proxied \in [Nodes -> [Users -> Seats \cup {NoSeat}]]
      /\ cache \in [Nodes -> [RoomIds -> Nodes \cup {Nowhere}]]
      /\ GuestsApart /\ GuestsHaveSessions /\ DirTypes /\ DirApart
  BY DEF FInv, PInv, DInv, PlayerTypes, DirTypes
<1>3. PlayerTypes' /\ calls' \in GoodCalls
  <2>1. ASSUME NEW s \in Slots
        PROVE  calls'[s] \in Call \cup {Idle} /\ (calls'[s].kind = "join" => calls'[s].seat.node # calls'[s].at)
    <3>1. calls[s] \in Call \cup {Idle} /\ (calls[s].kind = "join" => calls[s].seat.node # calls[s].at)
      BY <1>2 DEF GoodCalls, Calls
    <3>2. calls'[s] \in {calls[s], Idle, [calls[s] EXCEPT !.phase = "orphan"]}
      BY DEF Crashes
    <3>3. calls[s] # Idle => [calls[s] EXCEPT !.phase = "orphan"] \in Call
      BY <3>1 DEF Call
    <3>4. calls[s] = Idle => calls'[s] = Idle
      BY DEF Crashes
    <3>5. CASE calls[s] = Idle
      BY <3>4, <3>5, IdleApart
    <3>6. CASE calls[s] # Idle
      <4>1. calls[s] \in Call
        BY <3>1, <3>6
      <4>2. [calls[s] EXCEPT !.phase = "orphan"].kind = "join"
                => calls[s].kind = "join" /\ [calls[s] EXCEPT !.phase = "orphan"].seat = calls[s].seat
                   /\ [calls[s] EXCEPT !.phase = "orphan"].at = calls[s].at
        BY <4>1 DEF Call
      <4>3. QED  BY <3>1, <3>2, <3>3, <3>6, <4>1, <4>2, IdleApart
    <3>7. QED  BY <3>5, <3>6
  <2>2. calls' = [s \in Slots |-> calls'[s]]
    BY DEF Crashes
  <2>3. calls' \in GoodCalls
    BY <2>1, <2>2 DEF GoodCalls, Calls
  <2>4. /\ rooms' \in Rooms /\ userConn' \in Records /\ federated' \in Records
        /\ sessions' \in [Nodes -> [Users -> SUBSET Nodes]]
        /\ proxied' \in [Nodes -> [Users -> Seats \cup {NoSeat}]]
    BY <1>2 DEF Crashes, Rooms, Records
  <2>5. QED  BY <2>3, <2>4 DEF PlayerTypes, GoodCalls
<1>4. GuestsApart' /\ GuestsHaveSessions'
  BY <1>2 DEF Crashes, GuestsApart, GuestsHaveSessions, Records
<1>5. DInv'
  <2>1. cache' \in [Nodes -> [RoomIds -> Nodes \cup {Nowhere}]] /\ \A k \in Nodes, r \in RoomIds : cache'[k][r] # k
    BY <1>2 DEF Crashes, DirApart
  <2>2. /\ greeting' \subseteq Nodes \X RoomIds /\ events' \subseteq Event
        /\ pulls' \subseteq Pull /\ \A p \in pulls' : p.at # p.of
    BY <1>2 DEF Crashes, DirTypes, DirApart
  <2>3. /\ rounds' \in [Nodes -> [Rounds -> Round]]
        /\ \A k \in Nodes, i \in Rounds :
               k \notin rounds'[k][i].waiting /\ \A r \in RoomIds : rounds'[k][i].found[r] # k
    <3>1. rounds' = [rounds EXCEPT ![n] = [i \in Rounds |-> NoRound]]
      BY DEF Crashes
    <3>2. NoRound \in Round /\ NoRound.waiting = {} /\ \A k \in Nodes, r \in RoomIds : NoRound.found[r] # k
      BY DEF NoRound, Round
    <3> HIDE DEF NoRound
    <3>3. QED  BY <1>2, <3>1, <3>2 DEF DirTypes, DirApart
  <2>4. QED  BY <2>1, <2>2, <2>3 DEF DInv, DirTypes, DirApart
<1>6. QED  BY <1>1, <1>3, <1>4, <1>5 DEF FInv, PInv

LEMMA NodeStepInv == NoSelfSeeds /\ FInv /\ NodeStep => FInv'
<1> SUFFICES ASSUME NoSelfSeeds, FInv, NodeStep  PROVE FInv'
  OBVIOUS
<1>1. NInv /\ PInv /\ DInv
  BY DEF FInv
<1>2. ASSUME NInv', UNCHANGED <<playerVars, dirVars, events>>  PROVE FInv'
  BY <1>1, <1>2, PlayersStutter, DirStutter DEF FInv
<1>3. ASSUME NEW n \in Nodes, Starts(n) \/ TimersStart(n)  PROVE FInv'
  BY <1>1, <1>2, <1>3, StartNodeApart, StartTimersApart DEF Starts, TimersStart
<1>4. ASSUME NEW g \in msgs, HelloLost(g)  PROVE FInv'
  BY <1>1, <1>2, <1>4, MessageLostApart DEF HelloLost
<1>5. ASSUME NEW g \in msgs, GreetedBy(g)  PROVE FInv'
  <2>1. g.to \in Nodes /\ g.from \in Nodes \ {g.to}
    BY <1>1, MessageType
  <2>2. NInv'
    BY <1>1, <1>5, HandshakeApart DEF GreetedBy
  <2>3. PInv' /\ DInv'
    BY <1>1, <1>5, <2>1, MetInv DEF GreetedBy
  <2>4. QED  BY <2>2, <2>3 DEF FInv
<1>6. ASSUME NEW g \in msgs, Greeted(g)  PROVE FInv'
  <2>1. g.to \in Nodes /\ g.from \in Nodes \ {g.to}
    BY <1>1, MessageType
  <2>2. NInv'
    BY <1>1, <1>6, AnswerApart DEF Greeted
  <2>3. PInv' /\ DInv'
    BY <1>1, <1>6, <2>1, MetInv DEF Greeted
  <2>4. QED  BY <2>2, <2>3 DEF FInv
<1>7. ASSUME NEW n \in Nodes, NEW m \in Nodes, CheckOk(n, m)  PROVE FInv'
  <2>1. NInv'
    BY <1>1, <1>7, CheckApart DEF CheckOk
  <2>2. m \in Nodes \ {n}
    BY <1>7 DEF CheckOk, CheckSucceeds, FInv, NInv, NetApart, Known, KnownIn
  <2>3. pulls' \subseteq Pull /\ \A p \in pulls' : p.at # p.of
    BY <1>1, <1>7, <2>2, AskedType, DirParts DEF CheckOk
  <2>4. DInv'
    BY <1>1, <1>7, <2>3, DirParts, DirMoves DEF CheckOk
  <2>5. PInv'
    BY <1>1, <1>7, PlayersStutter DEF CheckOk
  <2>6. QED  BY <2>1, <2>4, <2>5 DEF FInv
<1>8. ASSUME NEW n \in Nodes, NEW m \in Nodes, CheckMissed(n, m)  PROVE FInv'
  <2>1. NInv'
    BY <1>1, <1>8, CheckApart DEF CheckMissed
  <2>2. /\ PInv' /\ events' \subseteq Event
        /\ cache' \in [Nodes -> [RoomIds -> Nodes \cup {Nowhere}]]
        /\ \A k \in Nodes, r \in RoomIds : cache'[k][r] # k
    <3>1. Online(n) \ {m} \in SUBSET Nodes
      BY OnlineType
    <3>2. NodeOffline(n, m, Online(n) \ {m})
      BY <1>8 DEF CheckMissed
    <3>3. QED  BY <1>1, <3>1, <3>2, OfflineInv
  <2>3. DInv'
    BY <1>1, <1>8, <2>2, DirParts, DirMoves DEF CheckMissed
  <2>4. QED  BY <2>1, <2>2, <2>3 DEF FInv
<1>9. ASSUME NEW n \in Nodes, NEW m \in Nodes, CheckRefused(n, m)  PROVE FInv'
  BY <1>1, <1>2, <1>9, CheckApart DEF CheckRefused
<1>10. ASSUME NEW n \in Nodes, NEW m \in Nodes, NodeRemoved(n, m)  PROVE FInv'
  <2>1. NInv' /\ PInv'
    BY <1>1, <1>10, RemoveApart, PlayersStutter DEF NodeRemoved
  <2>2. /\ cache' \in [Nodes -> [RoomIds -> Nodes \cup {Nowhere}]]
        /\ \A k \in Nodes, r \in RoomIds : cache'[k][r] # k
    BY <1>1, <1>10, DirParts DEF NodeRemoved
  <2>3. DInv'
    BY <1>1, <1>10, <2>2, DirParts, DirMoves DEF NodeRemoved
  <2>4. QED  BY <2>1, <2>3 DEF FInv
<1>11. QED
  BY <1>3, <1>4, <1>5, <1>6, <1>7, <1>8, <1>9, <1>10, CrashesInv DEF NodeStep

-----------------------------------------------------------------------------
LEMMA NextInv == ASSUME NoSelfSeeds PROVE FInv /\ [Next]_vars => FInv'
<1>1. FInv /\ UNCHANGED vars => FInv'
  BY NetStutter, PlayersStutter, DirStutter DEF FInv, vars
<1>2. QED  BY <1>1, RoomStepInv, CallStepInv, EventStepInv, PullStepInv, RoundStepInv, NodeStepInv DEF Next

LEMMA InitInv == Init => FInv
<1> SUFFICES ASSUME Init  PROVE FInv
  OBVIOUS
<1>1. NInv
  BY DEF Init, NetInit, NInv, NetTypeOK, NetApart
<1>2. PInv
  <2>1. PlayerTypes
    BY DEF Init, Quiet, PlayerTypes, Rooms, Records, Calls
  <2>2. calls \in GoodCalls
    BY IdleApart DEF Init, Quiet, GoodCalls, Calls
  <2>3. GuestsApart /\ GuestsHaveSessions
    BY DEF Init, Quiet, GuestsApart, GuestsHaveSessions
  <2>4. QED  BY <2>1, <2>2, <2>3 DEF PInv
<1>3. DInv
  BY DEF Init, Quiet, DInv, DirTypes, DirApart, NoRound, Round
<1>4. QED  BY <1>1, <1>2, <1>3 DEF FInv

(* The invariant that the following two rest on: types, guests, and no     *)
(* node ever deals with itself.                                            *)
THEOREM FederationInductive == ASSUME NoSelfSeeds PROVE Spec => []FInv
<1>1. FInv /\ [Next]_vars => FInv'
  BY NextInv
<1>2. QED  BY InitInv, <1>1, PTL DEF Spec

(* All variables of nodes, rooms, sessions, caches, events and calls keep  *)
(* their types, for any number of nodes, users, rooms and requests under   *)
(* way, faults and restarts.                                               *)
THEOREM FederationTypes == ASSUME NoSelfSeeds PROVE Spec => []TypeOK
<1>1. FInv => TypeOK
  BY Parts DEF FInv, NInv, PInv, DInv
<1>2. QED  BY <1>1, FederationInductive, PTL

(* A player that a node takes for federated has its virtual session there  *)
(* (handleIncomingJoin, removeIncomingFederatedPlayer, handleNodeOffline), *)
(* whatever joins, leaves, events, crashes and handshakes interleave.      *)
THEOREM GuestsAlwaysHaveSessions == ASSUME NoSelfSeeds PROVE Spec => []GuestsHaveSessions
<1>1. FInv => GuestsHaveSessions
  BY DEF FInv, PInv
<1>2. QED  BY <1>1, FederationInductive, PTL

LEMMA MeshedInv == ASSUME NEW rs \in Rooms, Meshed(rs) PROVE FInv
<1>1. NInv
  <2>1. Absent \in Entries /\ OnlineEntry(1) \in Entries
    BY DEF Entries, OnlineEntry, Peer
  <2>2. nodes \in [Nodes -> [Nodes -> Entries]]
    BY <2>1 DEF Meshed
  <2>3. NetTypeOK
    BY <2>2 DEF Meshed, NetTypeOK, Entries
  <2>4. NetApart
    BY DEF Meshed, NetApart
  <2>5. QED  BY <2>3, <2>4 DEF NInv
<1>2. PInv
  <2>1. PlayerTypes
    BY DEF Meshed, Quiet, PlayerTypes, Records, Calls
  <2>2. calls \in GoodCalls
    BY IdleApart DEF Meshed, Quiet, GoodCalls, Calls
  <2>3. GuestsApart /\ GuestsHaveSessions
    BY DEF Meshed, Quiet, GuestsApart, GuestsHaveSessions
  <2>4. QED  BY <2>1, <2>2, <2>3 DEF PInv
<1>3. DInv
  <2>1. ASSUME NEW n \in Nodes, NEW r \in RoomIds  PROVE cache[n][r] # n
    BY DEF Meshed
  <2>2. QED  BY <2>1 DEF Meshed, Quiet, DInv, DirTypes, DirApart, NoRound, Round
<1>4. QED  BY <1>1, <1>2, <1>3 DEF FInv

(* The same for a federation that has met, with any rooms rs: the states   *)
(* from which the instances for TLC start.                                 *)
THEOREM MeshedGuestsHaveSessions ==
    ASSUME NoSelfSeeds, NEW rs \in Rooms
    PROVE  Meshed(rs) /\ [][Next]_vars => []GuestsHaveSessions
<1>1. FInv /\ [Next]_vars => FInv'
  BY NextInv
<1>2. FInv => GuestsHaveSessions
  BY DEF FInv, PInv
<1>3. QED  BY MeshedInv, <1>1, <1>2, PTL
=============================================================================
