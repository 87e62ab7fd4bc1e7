# Verification of the phira-mp Node.js server

TLA+ models of the multiplayer server in `src/` (TypeScript), the TLC instances
that check them, and TLAPS proofs of what matters most for any number of users,
rooms, calls, connections, nodes and bans. Line numbers of every definition are in `PROJECT.json`
("map"); paths below are relative to `src/src/`.

## The system

The server is one Node.js process. Handlers run to completion on the event
loop; what interleaves is whole handlers, the continuations after an `await` of
the phira web API, socket close events and timers.

| Component | State | Operations | Talks to |
|---|---|---|---|
| Rooms: `domain/rooms/RoomManager.ts` | `rooms`: id -> Room (players in insertion order, owner, flags, lists, phase, chart), `globalLocked` | create, add and remove players, set owner, phase, flags, lists, migrate a connection | called by all others |
| Protocol: `domain/protocol/ProtocolHandler.ts` | `sessions`, `userConnections`, `broadcastCallbacks`, `connectionClosers`, `connectionIps` | one handler per client command; administrators' operations; disconnection; `checkGameEnd`, `endGame` | RoomManager, web API, BanManager, Federation |
| TCP: `network/TcpServer.ts` | sockets, `connectionsPerIp`, `illegalPacketCounts` | accept, proxy header, framing, heartbeat, close | ProtocolHandler, BanManager |
| Bans: `domain/auth/BanManager.ts` | `idBans`, `ipBans`, two JSON files | ban, unban, test, expire, load, save | TCP, logins, administrators |
| Logins: `domain/auth/AuthService.ts` | none | token -> user by the web API | ProtocolHandler |
| Web: `network/HttpServer.ts` | login attempts, login blacklist, rate limits, sessions | administrators' API, status, login | ProtocolHandler, BanManager, Federation |
| Broadcasts: `network/WebSocketServer.ts` | clients, throttle timer | room list, statistics | RoomManager |
| Federation: `federation/FederationManager.ts` | nodes, cache of remote rooms, proxied and federated players | discovery, health, synchronisation, proxied join, command and leave, events | other servers over HTTP, ProtocolHandler |
| Codec: `domain/protocol/BinaryProtocol.ts`, `Commands.ts` | none | bytes <-> commands | TCP |
| Console, configuration, logging, web pages | - | input, output, wiring | - |

What is hard here, and what it takes to be correct:

* **Rooms and games.** Three handlers wait for the web API between their checks
  and their effects (`handleSelectChart`, `handlePlayed`, the two list setters)
  and hold a room *object* meanwhile, while other code looks rooms up by id.
  A game must end when its last player is done, however that player goes; the
  host must always be somebody in the room; clients must know phase and host;
  access rules must hold for whoever comes in.
* **Connections.** A login waits twice. Meanwhile its connection closes, the
  same user logs in elsewhere, or a ban arrives. A destroyed socket emits its
  close event later. The session tables, the seat in the room and the count
  per address must survive every order of these.
* **Federation.** Several servers with HTTP in between: requests that are served
  although nobody waits for the answer any more, events that overtake each
  other, nodes that die, restart or are only taken for dead. Each node keeps a
  copy of what the others have, and nothing repeats what was lost.
* **Persistence.** Files rewritten in place, one after the other, and read back
  after a crash in the middle of that.
* **The byte stream.** TCP cuts it anywhere; what is understood must not depend
  on where.

All hazards, at their lines, are in `PROJECT.json` ("hazards").

## Modules

| Module | What it is |
|---|---|
| `Rooms` | The Room object and what RoomManager does to one: pure operators. |
| `RoomServer` | All room commands, administrators' operations, web API calls in flight, list enforcement: the state machine over `Rooms`. |
| `Lobby` | Abstract: what the rooms of a server promise; `RoomServer` implements it. |
| `Connections` | Sockets, addresses, proxy headers, strikes, bans, logins, sessions, seats. |
| `Presence` | Abstract: what logging in promises; `Connections` implements it. |
| `Framing` | From bytes to commands: buffer, length prefixes, parser. |
| `Discovery` | How nodes find and watch each other: handshakes, gossip, health checks, nodes file. |
| `Federation` | Rooms and players across the nodes of `Discovery`, which it extends. |
| `Bans` | Abstract: what a list of bans promises. |
| `BanStore` | The lists of BanManager and of the web login, with their files; implements `Bans` twice. |
| `GameHistory` | History variables beside `RoomServer`: who has really finished the game that is on. |
| `MCRoomServer`, `MCGameHistory`, `MCConnections`, `MCDiscovery`, `MCFederation`, `MCBanStore`, `MCFraming` | Instances for TLC. |
| `RoomServerProofs`, `AccessProofs`, `GameProofs` | Theorems about `RoomServer`: the invariants all rest on; who may be in, and that they implement `Lobby`; games. |
| `ConnectionsProofs`, `FramingProofs`, `DiscoveryProofs`, `FederationProofs`, `BanStoreProofs` | Theorems about the modules they name. |

`RoomServer` takes any user as logged in and able to send any command at any
time; `Connections` takes a room as a seat that a user has or has not. They meet
in three places: `EnterRoom`/`LeaveRoom` stand for the commands that change
membership, `SocketClosed` is what `RoomServer` sees as `Disconnect`, and the
kicks of `Connections` are its `Kick`. `Federation` repeats both in the small
(a room is the set of who is in it, a session is where it comes from) and adds
what other nodes do to them. `Connections` asks who is banned; `BanStore` says
for how long. The commands that `Framing` hands over are the actions of
`RoomServer`.

Definitions named `Slip_...` are mutated forms of the definition that follows
them: plausible mistakes, each of which one of the properties must notice. No
specification uses them.

### Rooms and RoomServer

* `heap` holds every Room object created, `dir` the object registered under an
  id (`RoomManager.rooms`). A continuation that kept `room` goes through `heap`,
  one that passes `room.id` to RoomManager goes through `dir`: after a room was
  closed and its id used again the two differ, as in the code.
* A JavaScript `Map` keeps insertion order, and the order decides who inherits a
  room and who is next in cycle mode: `order` is a sequence, the flags of
  players are sets.
* `calls[s]` is a handler waiting for the web API: `SelectChart` / `ChartFetched`,
  `Played` / `RecordFetched`, `SetList` / `NamesFetched`, or `FetchFails`. A result
  in flight remembers whether its PlayerInfo object is still the one in the room
  (`same`), as the code marks the object it captured.
* `sweep` is the loop that kicks players after a list was set. It kicks one player
  a step and is synchronous: `Next` lets nothing else run until it is through.
* `view[u]` is what the client of u was last told about phase and host, which
  the broadcasts of each handler update (`TellState`, `TellHost`). A stale object
  broadcasts to connections that may have been replaced: `Hearers` chooses which
  are still heard.
* `PlayerStep`, `AccessStep` and `AdminStep` group the actions; `GameSpec`,
  `AccessSpec`, `StaleSpec` restrict `Spec` to groups so that larger instances
  stay small: their steps are steps of `Spec`.
* `GameHistory` follows each step and remembers who has finished the game that is
  on (`done`), which results in flight belong to a game that is over (`late`), and
  whom such a result has marked as finished all the same (`mistaken`): the flag
  `finished` of a player cannot tell these apart. Nothing of `RoomServer` depends on
  the three.

* `Lobby` knows no room objects, calls under way, flags, lists or charts: an open
  room is its members, its host and whether a game is on. The mapping goes
  through the directory: `rooms[id]` is the `Outline` of the object registered
  under `id`. A handler that put the object it kept back into the directory,
  changed two rooms, let somebody in during a game, or passed a room on while its
  host stays and no game ends, has no step there. The end of a game of an earlier
  room with the same id is allowed to end this one's and to pass it on
  (`Lobby!Stop`), because the code does that (see the departures below).

Left out: scores, names, avatars, chat and the message history (cut at 50 lines),
live flags, and federated players, which `Federation` has.

### Connections

* `socket[c]` goes from none to open, to destroyed (somebody closed it), to
  closed (`SocketClosed`, the close event with `handleDisconnection`).
* `sessions`, `userConn`, `closers`, `known` are the maps of ProtocolHandler,
  `seat[u]` is `PlayerInfo.connectionId`.
* A login is in slot `s` of `auths`: `Authenticate`, then `TokenAccepted` (ban
  checks) or `TokenRejected`, then `UserInfoFetched` with its three cases: nobody
  else, a player in a room (migrated), a user outside (disconnected).
* `Suspicious` counts against an address and bans it at `MaxStrikes`;
  `ProxyHeader` moves a connection to its real address, although the limit per
  address keeps counting the peer.
* `BanId`, `BanIp`, `Kick` act at once on who is online.
* `Presence` knows no sockets, tokens or close events: a user is online on one
  connection and moves to another at one stroke, seat included. The mapping:
  `online` is `userConn`, `seat` is `seat`. A migration that forgets the seat, a late
  close event that frees it, or an index entry left behind has no step there.

Left out: durations of bans (they end by `UnbanId`/`UnbanIp` at any time, which
covers expiry) and the files, which `BanStore` has; federated sessions, which
`Federation` has; the whitelists of the configuration.

### Discovery

* `nodes[n]` is `FederationManager.nodes` of process n, `disk[n]` what
  `saveNodes` wrote last. `instance[n]` is the `instanceId`: a new number for
  every process.
* A handshake and its answer are messages. `StartNode` loads the file and asks
  the seeds; `StartTimers` is the rest of `start()`, once every seed has answered
  or failed; `HandleIncomingHandshake` is the HTTP route; `HandshakeAnswered` is
  the code after the await of `handshakeWithNode` and of `reverseHandshake`, which
  asks the strangers the answer names. `CheckSucceeds` and `CheckFails` are one
  round of `checkNode` for one node. A message that an administrator's "add
  node" sends is the same handshake and has no action of its own.
* A node whose seeds name itself is refused with status 200 and an answer that
  has no id: it enters itself under the key `undefined`, `nodes[n][n]` here.
* Writing the nodes file is one step: a file cut short by a crash makes the node
  start from its seeds, as at its first start.

### Federation

* `rooms[n][r]` are the players of room r on node n. `sessions[n][u]` says where
  the sessions of u at n come from: n itself, for its own connection, or the node
  that proxies u (the virtual session `fed:node:user`). `federated[n][u]` is the
  record in `federatedPlayers` at the node that has the room, `proxied[n][u]` the
  one in `proxyPlayers` at home.
* A forwarded join, command or leave is a call in a slot. It is sent, then served
  (`JoinServed`, `CommandServed`, `LeaveServed`) or refused, and answered
  (`JoinAnswered`, ...), which is the code after the await; or the requester gives
  up (`CallFails`), and what it asked for may still be served (`orphan`).
* `HandleMessage` is the same for a client and for a forwarded command, as in the
  code: a player already proxied is forwarded on, a join may go on to a third
  node.
* `cache[n]` is `remoteRooms`. It is fed by `events` (`HandleIncomingEvent`), by
  `pulls` after a handshake, and by `rounds` of `syncAllRooms`, which build a new
  map while events change the old one. `greeting` are the rooms whose creation
  is announced 250 ms after they were made.
* `GreetedBy`, `Greeted`, `CheckOk`, `CheckMissed`, `NodeRemoved` join an action of
  `Discovery` with what it does to players and rooms: `NodeOffline` is
  `handleNodeOffline`.
* A copy of the same deletion event is one message: receiving it twice has the
  effect of receiving it once.

Left out: what is known of a remote room beyond its id and node, locks, lists
and phases of rooms (a join may always be refused), calls back to clients, and
the graceful stop.

### Bans and BanStore

* `entries` are the maps `idBans`, `ipBans` and the login's `blacklistedIps`: an
  entry is its end, `Forever` for `expiresAt: null`. `Ban`, `Unban`, `LookUp` are
  `banId`/`banIp`, `unban...` and `is...Banned` of each; a look-up deletes an entry
  that is over.
* `pending` are the writes left of a save in progress. Nothing else runs until
  they are done, but the process may die between them (`Crash`) or within one
  (`CrashInWrite`), or one throws (`WriteFails`), which the code logs.
* `LoadBans` reads two files up to the first that does not parse, `LoadBlacklist`
  one; both drop what is over and save again.
* `Bans` has neither process nor file. An order takes effect (`Take`) before the
  next call; a ban ends by itself. The mapping: `until[t]` is `InForce(t)`, the
  entry in memory, or in the file while the process is down or the write is
  still to come; an entry that is over counts as none.

### Framing

* `Data(chunk)` is the data handler for any number of bytes: version byte, append,
  `ProcessPackets`. `TakePacket` parses one packet (`Parse`, over the fields that
  each command has) and closes the connection for an illegal one.
* The reference is `Hear`, an automaton fed byte by byte, with a buffer only for
  the packet it is in; `ChunkingIrrelevant` compares the two after every event. It
  gives up at a negative length, whose packet depends on what has come so far.
* The loops (`Value` of a length, `ProcessPackets`, `Hearing`) are recursive
  functions over the rounds made so far; the loop of `processPackets` has one round
  per byte at most, since every round but the last takes a byte. `Index` is what
  `Buffer.subarray` makes of a negative index.


## Runs

| Run | Instance | What it shows |
|---|---|---|
| `RoomsRemade` | 2 users (no monitors), 2 room ids, 2 objects, 1 call for a result, no charts | Ids used again under a waiting handler: ownership, one room per user; all of it implements `Lobby`. |
| `RoomsAccess` | 3 users, 1 room, 2 calls | Overlapping list updates, locks and capacity: who comes in (not in a game, which administrators force), and that a blacklisted member is about to be kicked and leaves. |
| `RoomsGame` | 3 users, 1 room, 1 call | Games: start clean, can end, end only when all are done with this very game, do end; clients in sync; the chart shown is the one selected. |
| `Logins` | 3 connections, 2 users, 2 logins at once | Sessions, index and seats agree; late close events spare migrated players; whoever is logged out is closed; all of it implements `Presence`; dead seats are freed. |
| `Addresses` | 2 connections, 2 users, 2 addresses (one local), proxy protocol, 2 strikes | Every action of `Connections`: types, and the limit counts every live connection. |
| `Mesh` | 3 nodes, one the seed of the others, 2 processes each, 1 fault: a crash of the seed or of another (and its restart), a lost message or a wrong verdict | The nodes file forgets nobody; every node ends up seeing every other online, a restarted one included. |
| `Directory` | 2 nodes, 1 user, 1 room id, 2 overlapping rounds, 2 processes each, 1 fault | The cache of the other node forgets a room that is gone and learns of one that stays. |
| `Guests` | 2 nodes, a user of one of them acting, 1 room id, 1 forwarded request, 2 processes each, 1 fault | Virtual sessions stay with their records; a dead node leaves nothing behind unless another fault follows; a player the other side has lost is set free. |
| `Bans` | 2 users (one exempt), 1 address, 1 web client, durations 0 and 1, time to 2, 1 fault | The lists implement `Bans`; what a restart finds is what is in force. |
| `Framing` | bytes 0, 1, 3, 15, 129; packets to 3 bytes; streams to 7 bytes | The way the stream is cut makes no difference; the buffer is bounded. |
| `LateChart` | 3 users | Violated: a chart fetched late ends a running game. |
| `CountLeak` | 1 connection | Violated: refused attempts fill the limit of their address. |

The two violations are described in `PROJECT.json` ("findings") with the lines
that say otherwise. Six more departures of the code from what one would expect
are part of the models, and properties are stated so that they hold beside them:

* An administrator kicks the last player still in a game: nobody looks whether
  the game is over, and the others wait (`ProtocolHandler.ts:216`). `GameCanEnd`
  is checked without this kick and fails with it.
* A player gives up, or the game ends in some other way, while the player's
  result is still being fetched. The record comes when the next game of the
  room is on, and marks the player as finished in that one
  (`ProtocolHandler.ts:1860`, no second look at the game): the game may end under
  it. `GamesEndWhenDone` excepts this player (`Mistaken`) and no other.
* A room is emptied while a result of its game is in flight, and made again under
  its id. The result then ends the game of the new room, and shows there the chart
  of the old one (`ProtocolHandler.ts:2072`, `RoomManager.setRoomState` by id). The
  game properties but `GameCanEnd` are checked with one object per id.
* A connection closes while its login awaits the web API: the session is
  registered, and the player's seat migrated, to a connection that is closed
  already (`ProtocolHandler.ts:935`).
* A user banned between the ban check of its login and the end of it stays
  online until it reconnects (`ProtocolHandler.ts:916`).
* An address banned by its own traffic keeps its other connections, which
  `README.md:31` says are dropped at once (`TcpServer.ts:438`).

And in `Federation`: a join whose answer is lost, or a leave that is lost, leaves
the player in the remote room until a node goes offline; a kicked player keeps
its virtual session and goes on acting at the remote node; a node that dies and
is back before a health check missed it keeps its players elsewhere until its
handshake names the new process. If that handshake is lost as well, or if the
other side had the dead process from its file only, nothing ever does: health
checks do not look at the instance, and the players stay for ever
(`FederationManager.ts:620`). `DownForgotten` says what holds beside these two
cases: whatever the process that died has left goes away unless another fault follows.

**Bounds.** Two users show everything about joining, inheriting and ids used
again; a third is needed where two others go on playing after one is done
(`RoomsGame`), where a listed member stands between owner and newcomer
(`RoomsAccess`) and where a take-over meets another user's login (`Logins`).
`MaxRooms` bounds the room objects of a behaviour: one suffices but for the
reuse of ids, where two are needed: the stale one and its successor. `Slots`
bounds calls in flight: one against all synchronous actions, two where updates
overlap. `RoomSize` 3 does not bind by itself; `Capacities` {1} lowers it below
the number of members. `MaxPerIp`, `MaxStrikes` are 2 so that the limit is met;
the code has 50 and 10. Each connection id is used once. Symmetry (users and
room ids) is used in `RoomsRemade` only, which checks invariants and single steps
(`LobbyExact` has no fairness); neither `RoomServer` nor `Lobby` tells two of them apart.

Three nodes are the least that gossip needs: two that know each other only
through the third. `MaxFaults` 1 is one lost message, crash or wrong verdict at
any point; everything late or reordered is free, and a request to a node that is
down is lost for nothing. With two faults (42 minutes, not one of the runs)
`DownForgotten` still holds if the arrival of a handshake and the verdict of a
health check are strongly fair: the model's few `Slots`, which the code does not
have, can be taken whenever either needs one. In `Mesh` a crash comes while all run and two messages
at most are under way (`MaxUnderWay`), and the two nodes that are no seed are
taken for alike. `Underway` (in `MCFederation`)
lets two things besides players' requests be under way between two nodes, which
is what it takes for an event to overtake another, or for a pull to overtake an
event; in `Guests` the arrival of a handshake is not held back by it. Two rounds overlap. With the two nodes of `Directory` and `Guests` a
request is never forwarded twice; the code for it is in the model, and
`FederationProofs`, for any number of nodes, covers it.
In `Bans`, two time steps suffice for a ban to end, to be met late, and to be
replaced by one that ends earlier or later. In `Framing` the five bytes are zero, a
length that fits, one that is the limit, one above it, and a byte that continues;
as types they are answered (0), read with a field (1), dropped (3, 129) or
passed on (15). Seven bytes hold a version and two packets, a prefix that is too
long, or a length that is negative (15 as its fifth byte).

**Fairness.** `GamesEnd` assumes that a player in a game who has not finished
gives up in the end or loses its connection (`GivesUp`): clients send Abort when
a player leaves a song, and the heartbeat closes silent connections. It assumes
nothing about results, which depend on the web API. `BlacklistedLeave` assumes
that a settled fetch is resumed although other handlers run in between (strong
fairness of `NamesFetched`: a loop in progress disables it for a while) and that
a loop runs on; `fetch` in the list setters settles for every name, an error
included. `DeadSeatsFreed` assumes that Node emits the close event of a destroyed
socket.

`NetFairness` (in `Mesh`): a node that is down is started in the end; a request arrives or
fails (every fetch of the code has a timeout); a running node checks each other
node it knows again and again, and is answered again and again if the other is
up. `FairGuestSpec` and `FairListSpec`: what is under way arrives or is lost; a
forwarded request is answered or given up (10 s timeout); a dead node is missed
by the health checks or started again; rounds start (a timer) and end (each
request has a timeout). Nothing is assumed about players, except in
`AstrayComeHome`, which is about a player who keeps sending commands.
`MeshCompletes` starts from `Connected`: seeds are asked once, at the start, so a
node that has no file and whose seeds were down is found by nobody.

**Deadlock.** Off where the system may really stop, or a bound stops the model:
rooms used up (`MaxRooms`), connections all closed, starts (`MaxStarts`), streams
(`MaxStream`) or time used up.

## Proofs

`RoomServerProofs` proves for `Spec`, any constants within the assumptions of the
modules:

* `Inductive`: `IInv`, the conjunction of types, ownership, distinctness of
  orders, one room per user, solo confirmation and what is known of calls and of
  a loop in progress;
* `TypeCorrect`, `OwnerAlwaysMember`, `OneRoomAlways`, `SoloAlwaysAlone`: the
  invariants of the runs.

The invariants are not inductive alone: the owner is a member only because an
order has no repetitions (removing a player must remove it altogether), a
handler that resumes must find its object on the heap, and every registered
object must be registered under its own id for `dir` updates by id not to touch
another. The proof has a lemma for each operator of `Rooms` (what it does to
types, members, owner and solo flag), general lemmas on steps that change one
object or remove a member, one lemma for each group of actions, and the
temporal step by PTL.

`AccessProofs` proves `BlacklistAlwaysEnforced` for `Spec`. Its invariant,
`BanInv`, holds in the middle of a loop too: every listed member of a registered
room is either on the list of a call that still fetches, or ahead of the loop in
progress. Most operators only shrink a room (`Shrinks`: same list, no newcomer),
a join is refused to who is listed, and a loop drops from its list only whom it
has just kicked; that kick removes the player from this room and no other
because nobody is in two rooms, which is where `OneRoomPerUser` is needed. The same
lemmas show that nobody comes into any object by another step than a join, and so
`GrowthAlwaysRespectsAccess`.

It also proves `LobbyImplemented`: `Spec` implements `Lobby`, with late answers for
any object, loops, administrators and ids used again. Most handlers change one
object and neither its players nor its owner (`Remains`, `StartsOrStops`): that is
a start, a stop or nothing, and nothing if the object is not registered. The end
of a game touches the object held and the one registered under its id, of which
only the second is open (`SettledLobby`). A departure is `Leave` in its three forms
(`DepartLobby`). That the host is one of the members afterwards, that an open room
is one object, and that who is in no registered object is in no open room, come
from `IInv`.

`GameProofs` proves `GamesCanAlwaysEnd` for `GameSpec`, players and the web API
without administrators, whose kick is the departure above. Whoever finishes,
gives up, leaves or loses its connection is followed by `checkGameEnd` in the same
step (`SettledNotEndless`), on the object that the handler holds; the proof also
covers results that arrive for an object that is no longer registered.
`GamesStartFresh` (`FreshStart`) goes through the same steps: the end of a game,
a late chart or result, on whatever object, starts none.

Three more theorems of it are about all of `Spec`, administrators included, and
say what the departure above about ids used again takes away:

* `ChartAlwaysShown` (`ChartShownIsSelected`) and `GamesNeverCutShort`
  (`GamesEndWhenDone`) hold along every behaviour in which no other room takes the
  id of a room while a chart or result for that room is awaited (`IdsKept`). The
  second is about `HistorySpec`, which is `Spec` with the history of its games: every
  step but the arrival of a late chart ends a game only when each of those who
  stay in it has finished that game, or is the one whose own result of an earlier
  game has just been taken for it. The invariant (`Accounted`) accounts for every
  flag `finished` by one of the two;
* `ClientsAlwaysInSync` (`ClientsInSync`) holds along every behaviour in which, of
  the rooms for which an answer is awaited, each is still registered or has no
  members left and an id that is free (`NobodyBehind`).

The hypotheses are about what happens between a request and its answer and about
nothing else: rooms, ids, objects and administrators are as free as in `Spec`
while no answer is awaited. They cannot be dropped: without `IdsKept` TLC finds
the end of another room's game by a late result, and the wrong chart with it;
an administrator who closes a room under a player whose chart is being fetched
makes the late answer tell players about a room that is no longer theirs. In
`RoomsGame` both hold in every state (one object, and nobody closes it), so the
run and the theorems speak of the same behaviours. The first two look at
every room object a step touches (`AllProper`): none is made to announce another
chart, and no game of it is cut short. The third
says of each member what its client shows, and goes through every broadcast: the
next host of cycle mode is shown to be a member by taking the least position of
the players' order that qualifies (`Turns`, `NextHostMember`), which is why that
choice is written with positions.

`ConnectionsProofs` proves:

* `TypeCorrect`: types, with the count of an address within its limit;
* `LimitAlwaysHolds`: every step counts a connection once when it is accepted
  and uncounts it once when it is closed, however often it was destroyed; the
  invariant also says that the connections of an address are finitely many;
* `SessionsAlwaysIndexed` and `SeatsAlwaysHaveSessions`, when each client sends the
  tokens of one user (`OneUserEach`): `sessions` and `userConnections` stay inverse,
  and whoever has a seat has its session on that very connection. The inductive
  invariant `SInv` adds that sessions and logins in flight carry the account of
  their connection: without it a take-over could replace another user's session
  whose index entry stays, which is what two tokens sent at once on one
  connection do;
* `LateCloseAlwaysSparesSeat` and `LoggedOutAlwaysClosed`: the action properties of
  `Logins`. The first needs `OneUserEach`, the second does not;
* `PresenceImplemented`, when `OneUserEach`: `Spec` implements `Presence`. A login's
  second half (`UserInfoFetched`) is `LogIn` in each of its three cases, a close
  event is `LogOut` or, when the user is online elsewhere, nothing; sockets,
  tokens, strikes, bans and proxy headers are nothing.

`FramingProofs` proves for any set of bytes, all 256 included, and any limit on packets, for streams of any
length (`MaxStream` is any number):

* `CuttingIrrelevant` (`ChunkingIrrelevant`): the commands handled, in their order,
  and whether the connection is closed, are those of a receiver that is given the
  stream byte by byte. The invariant, `FInv`: a receiver that starts afresh from
  what was handled and hears what is in the buffer is where one is that heard
  everything. A data event keeps it because what a receiver hears of two pieces
  is what it hears of the second after the first (`HearingConcat`), and each round
  of the loop because a complete packet is heard as the command it is parsed to
  (`PacketTaken`, `RoundAgrees`); of the parser it uses only that it refuses an empty
  packet. That the
  loop stops with nothing left to take (`LoopAgrees`) is what makes the two agree
  after the event;
* `BufferAlwaysBounded` (`BufferBounded`), from the same invariant.

The loops are followed by a lemma of induction over a set of numbers (`Counting`,
from the well-foundedness of `<`), one that says that a loop has results
(`LoopRuns`) and one that they are unique (`SameLoop`): with these, what a loop does
is proved by writing down what it has after each round. A fifth byte of a length
may have high bits: `LengthOf` keeps 32 of them with their sign, as the shifts of
`readULEB` do, so a length may be negative. It passes the limit, is complete at
once, and stands for a packet that reaches to what happens to be the end of the
buffer: there, and only there, the cutting matters. `CuttingIrrelevant` then says
that what was handled up to it is what the receiver of single bytes heard (`FInv`
has the case, and `PacketCut` what is cut off), `BufferAlwaysBounded` holds
unchanged.

`BanStoreProofs` proves for any users, addresses, clients, durations, exemptions,
any clock and any number of crashes and faults:

* `StoreTypes`, `StoredAlways`: the invariants of the run. The inductive form says
  of a save in progress which files it has already brought up to date;
* `BansImplemented`, `BlacklistImplemented`: `Spec` implements `Bans` under the two
  mappings above. Every step of the store maps to a step of `Bans` or to a stutter:
  a call to `Order` or `Ask`; the write that puts the entry into its file to
  `Take`; the clean-up of an entry that is over, late or at a restart, to nothing,
  because `InForce` did not count it any more; a crash to `Forget`; a fault in the
  files of the list to `Damage`, and one in the files of the other list to
  nothing. The two refinements share one lemma per step (`IsList`).

`DiscoveryProofs` proves for any nodes and seeds, and for `CrashSpec`, where nodes
crash whenever they like:

* `NetTypes`: types;
* `FilesRemember`: no known node is missing from the file. The handler that does
  not save (`reverseHandshake`) makes this more than a guard: it enters a node
  that must be in the file already. The inductive invariant says that a reverse
  handshake under way, and its answer, is about a node that is in the table and
  in the file of the requester (`ReverseIsSaved`), and that answers only come to
  the process that asked (`ReplyIsAwaited`). `RemoveNode` (by hand or after seven
  days offline) is outside: it may come between the two.

`FederationProofs` proves for any nodes, users, rooms and requests under way,
with crashes, restarts and lost answers, from the start and from a federation
that has met:

* `FederationTypes`: types;
* `GuestsAlwaysHaveSessions`, `MeshedGuestsHaveSessions`: a player taken for
  federated has its virtual session.

The session of a guest and that of a client at home are entries of one table,
and a client that disconnects at home removes its entry. The second theorem
therefore rests on no node ever dealing with itself: it is not in its own
table or file, sends itself no message (`NetApart`), forwards no join to itself
(`GoodCalls`), records no guest as coming from itself (`GuestsApart`) and caches
or pulls no room of its own (`DirApart`). This holds as long as no node is a seed
of its own (`NoSelfSeeds`), which the code does not test: such a node greets
itself before it knows any id.

Only model-checked: the liveness properties (`BlacklistedLeave`, `GamesEnd`,
`DeadSeatsFreed`, `MeshCompletes`, `CacheForgets`, `CacheLearns`, `DownForgotten`,
`AstrayComeHome`), which rest on fairness and stay with TLC, as ENABLED is out of
the provers' reach. Every invariant and every other action property of the runs is
proved.

## Not modelled

Worth adding next: a third node in `Federation`'s instances.

Left out, and why:

* the graceful stop of the federation (`FederationManager.ts:167-183`): a leave
  for every proxied player, then the process exits; the model has it as these
  leaves one after the other, each of which may be lost, followed by a crash;
* counting of failed web logins, rate limits: counters inside one synchronous
  handler each; the blacklist they feed is in `BanStore`;
* broadcasts to web clients: a timer that merges notifications; the lists are
  formatting of state modelled here;
* what the server sends: encoding of commands and callbacks to clients, but for
  phase and host, which `view` tracks;
* the bytes of PROXY headers (what they decide is in `Connections`);
* the console (calls operations modelled above), configuration and start-up,
  logging, web pages, CAPTCHA and HTTP sessions: input, output or sequential code
  that unit tests reach.
