----------------------------- MODULE RoomServer -----------------------------
(***************************************************************************)
(* The rooms of one phira-mp server: the room commands of                  *)
(* domain/protocol/ProtocolHandler.ts over the data of RoomManager.ts.     *)
(*                                                                         *)
(* Handlers run to completion on Node's event loop, so each one is one     *)
(* action -- except that three of them wait for the phira web API: they    *)
(* are split at the await into a step that passes the guards and captures  *)
(* the room OBJECT, and a step that applies the answer.  What happens in   *)
(* between is every other action of the module.                            *)
(*                                                                         *)
(* A captured object may meanwhile have left the directory, and another    *)
(* room may have been created under its id.  Hence the heap of objects     *)
(* next to the directory: code that keeps a reference goes through heap,   *)
(* code that passes room.id to RoomManager goes through dir.               *)
(*                                                                         *)
(* Connections are abstracted: an authenticated user may send any command  *)
(* at any time.  Federation is off (as in the default configuration).      *)
(***************************************************************************)
EXTENDS Rooms

CONSTANTS
    Capacities,   \* the values an administrator gives to maxPlayers
    Lists,        \* the black- and whitelists an administrator sets
    Slots,        \* bound: API calls in flight at once
    MaxRooms      \* bound: room objects created in a behaviour

ASSUME CapacitiesAssumption == Capacities \subseteq Nat
ASSUME ListsAssumption == Lists \subseteq SUBSET Users
ASSUME MaxRoomsAssumption == MaxRooms \in Nat

VARIABLES
    created,      \* number of room objects so far
    heap,         \* heap[o]: the o-th Room object
    dir,          \* RoomManager.rooms: the object registered under an id, or None
    globalLocked, \* RoomManager.globalLocked
    calls,        \* calls[s]: the handler waiting in slot s for the web API
    sweep,        \* a list enforcement loop that is kicking players
    view          \* view[u]: what the client of u was last told about its room

vars == <<created, heap, dir, globalLocked, calls, sweep, view>>

None == 0
Objects == 1..created

Idle == [kind |-> "idle"]
Call == [kind: {"chart"}, room: Objects, chart: Charts]
        \cup [kind: {"record"}, room: Objects, user: Users, same: BOOLEAN]
        \cup [kind: {"blacklist", "whitelist"}, room: Objects, list: SUBSET Users]

NoSweep == [kind |-> "idle", room |-> None, list |-> {}, todo |-> <<>>]

(* A client outside every room shows no room; host is its idea of isHost. *)
Outside == [state |-> Selecting(NoChart), host |-> FALSE]

(* Only types: correctness of the contents is in the invariants below. *)
TypeOK ==
    /\ created \in Nat
    /\ heap \in [Objects -> Room]
    /\ dir \in [RoomIds -> Objects \cup {None}]
    /\ globalLocked \in BOOLEAN
    /\ calls \in [Slots -> Call \cup {Idle}]
    /\ sweep \in [kind: {"idle", "blacklist", "whitelist"}, room: Objects \cup {None},
                  list: SUBSET Users, todo: Seq(Users)]
    /\ view \in [Users -> [state: RoomState, host: BOOLEAN]]

Listed(o) == dir[heap[o].id] = o

(* getRoomByUserId *)
RoomsOf(u) == {o \in Objects : Listed(o) /\ u \in Members(heap[o])}

Init ==
    /\ created = 0
    /\ heap = <<>>
    /\ dir = [id \in RoomIds |-> None]
    /\ globalLocked = FALSE
    /\ calls = [s \in Slots |-> Idle]
    /\ sweep = NoSweep
    /\ view = [u \in Users |-> Outside]

-----------------------------------------------------------------------------
(* What the clients are told. *)

TellState(v, us, s) == [u \in Users |-> IF u \in us THEN [v[u] EXCEPT !.state = s] ELSE v[u]]
TellHost(v, us, h)  == [u \in Users |-> IF u \in us THEN [v[u] EXCEPT !.host = (u = h)] ELSE v[u]]

(* Broadcasts go to the connections recorded in the object's players.  In  *)
(* a registered room these are the members' current connections; in a      *)
(* stale one each may have been replaced since.                            *)
Hearers(o) == IF Listed(o) THEN {Members(heap[o])} ELSE SUBSET Members(heap[o])

-----------------------------------------------------------------------------
(* The end of a game: checkGameEnd and endGame on object o of heap h. *)

Ended(h, o) ==
    [x \in DOMAIN h |->
        LET a == IF x = o THEN ClearFlags(h[x]) ELSE h[x]
        IN  IF x = dir[h[o].id] THEN EndState(a, h[o]) ELSE a]

Settled(h, o) == IF GameOver(h[o]) THEN Ended(h, o) ELSE h

Slip_HostNotTold(v, h, o, ears) ==
    IF GameOver(h[o]) THEN TellState(v, ears, Ended(h, o)[o].state) ELSE v

SettledView(v, h, o, ears) ==
    LET r == h[o]
        s == Ended(h, o)[o].state
    IN  IF ~GameOver(r) THEN v
        ELSE TellState(IF Rotates(r) THEN TellHost(v, ears, NextHost(r)) ELSE v, ears, s)

-----------------------------------------------------------------------------
(* Leaving.  The PlayerInfo object of u in room o is gone: a result still  *)
(* in flight for it will be written to an object nobody looks at.          *)

Forget(u, o) ==
    [s \in Slots |->
        IF calls[s].kind = "record" /\ calls[s].room = o /\ calls[s].user = u
        THEN [calls[s] EXCEPT !.same = FALSE]
        ELSE calls[s]]

(* removePlayerFromRoom with the host migration messages around it. *)
Depart(u, o, checksGameEnd) ==
    LET r == RemovePlayer(heap[o], u)
        h == [heap EXCEPT ![o] = r]
        migrated == IF heap[o].ownerId = u THEN TellHost(view, Members(r), r.ownerId) ELSE view
        v == [migrated EXCEPT ![u] = Outside]
    IN  /\ IF r.order = <<>>
           THEN /\ dir' = [dir EXCEPT ![r.id] = None]
                /\ heap' = h
                /\ view' = v
           ELSE /\ dir' = dir
                /\ heap' = IF checksGameEnd THEN Settled(h, o) ELSE h
                /\ view' = IF checksGameEnd THEN SettledView(v, h, o, Members(r)) ELSE v
        /\ calls' = Forget(u, o)

Slip_LeaveEndsNothing(u) ==
    \E o \in RoomsOf(u) :
        /\ Depart(u, o, FALSE)
        /\ UNCHANGED <<created, globalLocked, sweep>>

LeaveRoom(u) ==
    \E o \in RoomsOf(u) :
        /\ Depart(u, o, TRUE)
        /\ UNCHANGED <<created, globalLocked, sweep>>

(* handleDisconnection of the connection of a user in a room.  The abort   *)
(* it records first goes to the PlayerInfo it then removes.                *)
Disconnect(u) ==
    \E o \in RoomsOf(u) :
        /\ Depart(u, o, TRUE)
        /\ UNCHANGED <<created, globalLocked, sweep>>

(* kickPlayer, called by an administrator. *)
Kick(u) ==
    \E o \in RoomsOf(u) :
        /\ Depart(u, o, FALSE)
        /\ UNCHANGED <<created, globalLocked, sweep>>

-----------------------------------------------------------------------------
CreateRoom(u, id) ==
    /\ created < MaxRooms
    /\ RoomsOf(u) = {}
    /\ ~globalLocked
    /\ dir[id] = None
    /\ created' = created + 1
    /\ heap' = [o \in 1..(created + 1) |-> IF o \in Objects THEN heap[o] ELSE NewRoom(id, u)]
    /\ dir' = [dir EXCEPT ![id] = created + 1]
    /\ view' = [view EXCEPT ![u] = [state |-> Selecting(NoChart), host |-> TRUE]]
    /\ UNCHANGED <<globalLocked, calls, sweep>>

Slip_JoinFromAnywhere(u, id, monitor) ==
    /\ dir[id] # None
    /\ LET o == dir[id]
           r == heap[o]
       IN  /\ r.state.type = "SelectChart"
           /\ Admits(r, u)
           /\ u \notin Members(r)
           /\ heap' = [heap EXCEPT ![o] = AddPlayer(r, u, monitor)]
           /\ view' = [view EXCEPT ![u] = [state |-> r.state, host |-> FALSE]]
    /\ UNCHANGED <<created, dir, globalLocked, calls, sweep>>

JoinRoom(u, id, monitor) ==
    /\ RoomsOf(u) = {}
    /\ dir[id] # None
    /\ LET o == dir[id]
           r == heap[o]
       IN  /\ r.state.type = "SelectChart"
           /\ Admits(r, u)
           /\ heap' = [heap EXCEPT ![o] = AddPlayer(r, u, monitor)]
           /\ view' = [view EXCEPT ![u] = [state |-> r.state, host |-> FALSE]]
    /\ UNCHANGED <<created, dir, globalLocked, calls, sweep>>

LockRoom(u, lock) ==
    \E o \in RoomsOf(u) :
        /\ heap[o].ownerId = u
        /\ heap' = [heap EXCEPT ![o].locked = lock]
        /\ UNCHANGED <<created, dir, globalLocked, calls, sweep, view>>

CycleRoom(u, cycle) ==
    \E o \in RoomsOf(u) :
        /\ heap[o].ownerId = u
        /\ heap' = [heap EXCEPT ![o].cycle = cycle]
        /\ UNCHANGED <<created, dir, globalLocked, calls, sweep, view>>

-----------------------------------------------------------------------------
(* Choosing a chart: guards, then the chart API, then three updates by id. *)

SelectChart(u, c, s) ==
    /\ calls[s] = Idle
    /\ \E o \in RoomsOf(u) :
        /\ heap[o].state.type = "SelectChart"
        /\ heap[o].ownerId = u
        /\ calls' = [calls EXCEPT ![s] = [kind |-> "chart", room |-> o, chart |-> c]]
        /\ UNCHANGED <<created, heap, dir, globalLocked, sweep, view>>

ChartSet(r, c) ==
    [r EXCEPT !.selectedChart = c, !.state = Selecting(c), !.soloConfirmPending = FALSE]

ChartFetched(s) ==
    /\ calls[s].kind = "chart"
    /\ LET o == calls[s].room
           c == calls[s].chart
           t == dir[heap[o].id]
       IN  /\ heap' = IF t = None THEN heap ELSE [heap EXCEPT ![t] = ChartSet(@, c)]
           /\ \E ears \in Hearers(o) : view' = TellState(view, ears, Selecting(c))
    /\ calls' = [calls EXCEPT ![s] = Idle]
    /\ UNCHANGED <<created, dir, globalLocked, sweep>>

(* The API fails: the client gets an error, nothing changes. *)
FetchFails(s) ==
    /\ calls[s].kind \in {"chart", "record"}
    /\ calls' = [calls EXCEPT ![s] = Idle]
    /\ UNCHANGED <<created, heap, dir, globalLocked, sweep, view>>

-----------------------------------------------------------------------------
(* Starting a game. *)

(* Room o goes on as r, and its members are told r's state. *)
Announce(o, r) ==
    /\ heap' = [heap EXCEPT ![o] = r]
    /\ view' = TellState(view, Members(r), r.state)

Slip_ResultsKept(r, rdy, fin) == [r EXCEPT !.ready = rdy, !.state = Playing]

StartPlaying(r, rdy, fin) == [SetFlags(r, rdy, fin) EXCEPT !.state = Playing]

(* With company the room waits for everyone to get ready.  A lone player   *)
(* must ask twice: the first request only arms soloConfirmPending.         *)
RequestStart(u) ==
    \E o \in RoomsOf(u) :
        LET r == heap[o] IN
        /\ r.state.type = "SelectChart"
        /\ r.ownerId = u
        /\ \/ /\ Len(r.order) > 1
              /\ Announce(o, [SetFlags(r, {u}, {}) EXCEPT !.state = Waiting])
           \/ /\ Len(r.order) <= 1
              /\ ~r.soloConfirmPending
              /\ heap' = [heap EXCEPT ![o].soloConfirmPending = TRUE]
              /\ view' = view
           \/ /\ Len(r.order) <= 1
              /\ r.soloConfirmPending
              /\ Announce(o, [StartPlaying(r, {}, {}) EXCEPT !.soloConfirmPending = FALSE])
        /\ UNCHANGED <<created, dir, globalLocked, calls, sweep>>

(* The last of the owner's guests to get ready starts the game. *)
Ready(u) ==
    \E o \in RoomsOf(u) :
        LET r == heap[o]
            rdy == r.ready \cup {u}
        IN
        /\ r.state = Waiting
        /\ u \notin r.ready
        /\ IF Members(r) \ {r.ownerId} \subseteq rdy
           THEN Announce(o, StartPlaying(r, rdy, {}))
           ELSE /\ heap' = [heap EXCEPT ![o].ready = rdy]
                /\ view' = view
        /\ UNCHANGED <<created, dir, globalLocked, calls, sweep>>

CancelReady(u) ==
    \E o \in RoomsOf(u) :
        LET r == heap[o] IN
        /\ r.state = Waiting
        /\ \/ /\ r.ownerId = u
              /\ Announce(o, [ClearFlags(r) EXCEPT !.state = Selecting(r.selectedChart),
                                                   !.soloConfirmPending = FALSE])
           \/ /\ r.ownerId # u
              /\ u \in r.ready
              /\ heap' = [heap EXCEPT ![o] = SetFlags(r, r.ready \ {u}, r.finished \ {u})]
              /\ view' = view
        /\ UNCHANGED <<created, dir, globalLocked, calls, sweep>>

-----------------------------------------------------------------------------
(* Finishing a game. *)

(* A client reports its result; the record is fetched from the API. *)
Played(u, s) ==
    /\ calls[s] = Idle
    /\ \E o \in RoomsOf(u) :
        /\ heap[o].state = Playing
        /\ u \notin heap[o].finished
        /\ calls' = [calls EXCEPT ![s] = [kind |-> "record", room |-> o, user |-> u, same |-> TRUE]]
        /\ UNCHANGED <<created, heap, dir, globalLocked, sweep, view>>

(* The captured PlayerInfo is marked, then the captured room is checked. *)
RecordFetched(s) ==
    /\ calls[s].kind = "record"
    /\ LET o == calls[s].room
           h == IF calls[s].same
                THEN [heap EXCEPT ![o].finished = @ \cup {calls[s].user}]
                ELSE heap
       IN  /\ heap' = Settled(h, o)
           /\ \E ears \in Hearers(o) : view' = SettledView(view, h, o, ears)
    /\ calls' = [calls EXCEPT ![s] = Idle]
    /\ UNCHANGED <<created, dir, globalLocked, sweep>>

Slip_AbortEndsNothing(u) ==
    \E o \in RoomsOf(u) :
        /\ heap[o].state = Playing
        /\ u \notin heap[o].finished
        /\ heap' = [heap EXCEPT ![o].finished = @ \cup {u}]
        /\ UNCHANGED <<created, dir, globalLocked, calls, sweep, view>>

Abort(u) ==
    \E o \in RoomsOf(u) :
        LET h == [heap EXCEPT ![o].finished = @ \cup {u}] IN
        /\ heap[o].state = Playing
        /\ u \notin heap[o].finished
        /\ heap' = Settled(h, o)
        /\ view' = SettledView(view, h, o, Members(h[o]))
        /\ UNCHANGED <<created, dir, globalLocked, calls, sweep>>

-----------------------------------------------------------------------------
(* Administration. *)

(* Whoever is neither ready nor the owner is counted as having given up. *)
ForceStart(id) ==
    /\ dir[id] # None
    /\ LET o == dir[id]
           r == heap[o]
       IN  /\ r.state.type \in {"WaitingForReady", "SelectChart"}
           /\ r.selectedChart # NoChart
           /\ Announce(o, StartPlaying(r, {}, Members(r) \ (r.ready \cup {r.ownerId})))
    /\ UNCHANGED <<created, dir, globalLocked, calls, sweep>>

ToggleRoomLock(id) ==
    /\ dir[id] # None
    /\ heap' = [heap EXCEPT ![dir[id]].locked = ~@]
    /\ UNCHANGED <<created, dir, globalLocked, calls, sweep, view>>

ToggleRoomMode(id) ==
    /\ dir[id] # None
    /\ heap' = [heap EXCEPT ![dir[id]].cycle = ~@]
    /\ UNCHANGED <<created, dir, globalLocked, calls, sweep, view>>

SetRoomMaxPlayers(id, n) ==
    /\ dir[id] # None
    /\ heap' = [heap EXCEPT ![dir[id]].maxPlayers = n]
    /\ UNCHANGED <<created, dir, globalLocked, calls, sweep, view>>

(* The object keeps its players, who are told to leave. *)
CloseRoom(id) ==
    /\ dir[id] # None
    /\ dir' = [dir EXCEPT ![id] = None]
    /\ view' = [u \in Users |-> IF u \in Members(heap[dir[id]]) THEN Outside ELSE view[u]]
    /\ UNCHANGED <<created, heap, globalLocked, calls, sweep>>

SetGlobalLocked(b) ==
    /\ globalLocked' = b
    /\ UNCHANGED <<created, heap, dir, calls, sweep, view>>

-----------------------------------------------------------------------------
(* Black- and whitelists: the list takes effect at once for those who want *)
(* to join; the names are fetched; then the players of the captured object *)
(* are examined against the captured list and kicked one by one.           *)

SetList(id, kind, list, s) ==
    /\ calls[s] = Idle
    /\ dir[id] # None
    /\ heap' = [heap EXCEPT ![dir[id]] = IF kind = "blacklist"
                                         THEN [@ EXCEPT !.blacklist = list]
                                         ELSE [@ EXCEPT !.whitelist = list]]
    /\ calls' = [calls EXCEPT ![s] = [kind |-> kind, room |-> dir[id], list |-> list]]
    /\ UNCHANGED <<created, dir, globalLocked, sweep, view>>

NamesFetched(s) ==
    /\ calls[s].kind \in {"blacklist", "whitelist"}
    /\ sweep' = IF calls[s].kind = "whitelist" /\ calls[s].list = {}
                THEN NoSweep
                ELSE [kind |-> calls[s].kind, room |-> calls[s].room, list |-> calls[s].list,
                      todo |-> heap[calls[s].room].order]
    /\ calls' = [calls EXCEPT ![s] = Idle]
    /\ UNCHANGED <<created, heap, dir, globalLocked, view>>

Sweeping == sweep.todo # <<>>

Slip_OwnerSpared(u) ==
    /\ u # heap[sweep.room].ownerId
    /\ IF sweep.kind = "blacklist" THEN u \in sweep.list ELSE u \notin sweep.list

Unwelcome(u) ==
    IF sweep.kind = "blacklist"
    THEN u \in sweep.list
    ELSE u \notin sweep.list /\ u # heap[sweep.room].ownerId

(* One round of the loop.  It is synchronous: Next lets nothing else run.  *)
(* The user is kicked from whatever room it is in.                         *)
SweepNext ==
    LET u == Head(sweep.todo) IN
    /\ IF Unwelcome(u) /\ RoomsOf(u) # {}
       THEN \E o \in RoomsOf(u) : Depart(u, o, FALSE)
       ELSE UNCHANGED <<heap, dir, calls, view>>
    /\ sweep' = IF Len(sweep.todo) = 1 THEN NoSweep ELSE [sweep EXCEPT !.todo = Tail(@)]
    /\ UNCHANGED <<created, globalLocked>>

-----------------------------------------------------------------------------
(* What players and the web API do. *)
Joins(modes) == \E u \in Users, id \in RoomIds, m \in modes : JoinRoom(u, id, m)

Commands ==
    \/ \E u \in Users :
        \/ \E id \in RoomIds : CreateRoom(u, id)
        \/ LeaveRoom(u) \/ Disconnect(u)
        \/ \E b \in BOOLEAN : CycleRoom(u, b)
        \/ RequestStart(u) \/ Ready(u) \/ CancelReady(u) \/ Abort(u)
        \/ \E s \in Slots : Played(u, s) \/ \E c \in Charts : SelectChart(u, c, s)
    \/ \E s \in Slots : ChartFetched(s) \/ RecordFetched(s) \/ FetchFails(s)

PlayerStep == Joins(BOOLEAN) \/ Commands

(* Who may come in. *)
AccessStep ==
    \/ \E u \in Users, b \in BOOLEAN : LockRoom(u, b)
    \/ \E id \in RoomIds :
        \/ ToggleRoomLock(id)
        \/ \E n \in Capacities : SetRoomMaxPlayers(id, n)
        \/ \E s \in Slots, list \in Lists, kind \in {"blacklist", "whitelist"} :
               SetList(id, kind, list, s)
    \/ \E s \in Slots : NamesFetched(s)
    \/ \E b \in BOOLEAN : SetGlobalLocked(b)

(* What administrators do to games and players. *)
AdminStep ==
    \/ \E id \in RoomIds : ForceStart(id) \/ ToggleRoomMode(id) \/ CloseRoom(id)
    \/ \E u \in Users : Kick(u)

Next ==
    \/ Sweeping /\ SweepNext
    \/ ~Sweeping /\ (PlayerStep \/ AccessStep \/ AdminStep)

Spec == Init /\ [][Next]_vars

(* Rooms run by their players alone. *)
GameSpec == Init /\ [][PlayerStep]_vars

(* Coming and going, around the games that an administrator forces.        *)
MemberStep ==
    \/ \E u \in Users :
        \/ \E id \in RoomIds : CreateRoom(u, id) \/ JoinRoom(u, id, FALSE)
        \/ LeaveRoom(u) \/ Kick(u)
        \/ \E s \in Slots, c \in Charts : SelectChart(u, c, s)
    \/ \E s \in Slots : ChartFetched(s)
    \/ \E id \in RoomIds : CloseRoom(id) \/ ForceStart(id)

AccessNext ==
    \/ Sweeping /\ SweepNext
    \/ ~Sweeping /\ (MemberStep \/ AccessStep)

AccessSpec == Init /\ [][AccessNext]_vars

(* Players without charts, none of them a monitor, whose rooms are closed  *)
(* under them.                                                             *)
ChartlessStep ==
    \/ \E u \in Users :
        \/ \E id \in RoomIds : CreateRoom(u, id) \/ JoinRoom(u, id, FALSE)
        \/ LeaveRoom(u) \/ Disconnect(u)
        \/ \E b \in BOOLEAN : CycleRoom(u, b)
        \/ RequestStart(u) \/ Ready(u) \/ CancelReady(u) \/ Abort(u)
        \/ \E s \in Slots : Played(u, s)
    \/ \E s \in Slots : RecordFetched(s) \/ FetchFails(s)
    \/ \E id \in RoomIds : CloseRoom(id) \/ ToggleRoomMode(id)

StaleSpec == Init /\ [][ChartlessStep]_vars

(* A client does not play forever: if the web API has no result of it, it  *)
(* gives up, or its connection is lost and the heartbeat notices.          *)
GivesUp(u) ==
    /\ \E o \in RoomsOf(u) : heap[o].state = Playing /\ u \notin heap[o].finished
    /\ Abort(u) \/ Disconnect(u)

FairGameSpec == GameSpec /\ \A u \in Users : WF_vars(GivesUp(u))

(* Node serves every settled promise: a fetch that has its answer is       *)
(* resumed although other handlers run in between, and a loop runs on.     *)
FairAccessSpec ==
    /\ AccessSpec
    /\ WF_vars(Sweeping /\ SweepNext)
    /\ \A s \in Slots : SF_vars(~Sweeping /\ NamesFetched(s))

-----------------------------------------------------------------------------
(* Every registered object is registered under its own id, has players,    *)
(* and is owned by one of them: removePlayerFromRoom never leaves an empty *)
(* or ownerless room behind, whichever of leave, disconnect, kick and list *)
(* enforcement removes the last or the owning player, and no game end or   *)
(* late answer, for this room object or a stale one, breaks that.          *)
OwnerIsMember ==
    \A id \in RoomIds :
        dir[id] # None => /\ heap[dir[id]].id = id
                          /\ heap[dir[id]].ownerId \in Members(heap[dir[id]])

(* getRoomByUserId returns the first room it finds: no user is ever in two *)
(* registered rooms (nor twice in the order of one).                       *)
OneRoomPerUser ==
    /\ \A u \in Users : \A o, p \in RoomsOf(u) : o = p
    /\ \A o \in Objects : \A i, j \in DOMAIN heap[o].order :
           heap[o].order[i] = heap[o].order[j] => i = j

(* The confirmation of a solo start (handleRequestStart) is only ever      *)
(* armed in a room with a single player, so it cannot start a game without *)
(* asking the others to get ready: every joiner disarms it.                *)
SoloMeansAlone ==
    \A o \in Objects : heap[o].soloConfirmPending => Len(heap[o].order) <= 1

(* Outside an enforcement loop, a member on the blacklist of its room is   *)
(* about to be kicked by a setRoomBlacklistByAdmin still fetching names.   *)
BlacklistEnforced ==
    ~Sweeping =>
        \A o \in Objects : Listed(o) =>
            \A u \in Members(heap[o]) \cap heap[o].blacklist :
                \E s \in Slots : /\ calls[s].kind = "blacklist"
                                 /\ calls[s].room = o
                                 /\ u \in calls[s].list

(* A game in progress can still end: unless all its members are monitors,  *)
(* some active player has not finished, and checkGameEnd will run when it  *)
(* does.  Otherwise nobody's Played or Abort would ever reach endGame.     *)
GameCanEnd ==
    \A o \in Objects :
        Listed(o) /\ heap[o].state = Playing /\ Active(heap[o]) # {} => ~GameOver(heap[o])

(* Every client in a room shows the room's state and knows whether it is   *)
(* the host: each change of either is broadcast, host migration included.  *)
ClientsInSync ==
    \A o \in Objects : Listed(o) =>
        \A u \in Members(heap[o]) :
            view[u] = [state |-> heap[o].state, host |-> (heap[o].ownerId = u)]

(* The chart id a state announces is the chart the room has selected. *)
ChartShownIsSelected ==
    \A o \in Objects : Listed(o) /\ heap[o].state.type = "SelectChart" =>
        heap[o].state.chartId = heap[o].selectedChart

(* A room o that is registered before and after the step. *)
StaysListed(o) == Listed(o) /\ Listed(o)'

StopsPlaying(o)  == heap[o].state = Playing /\ heap'[o].state # Playing
StartsPlaying(o) == heap[o].state # Playing /\ heap'[o].state = Playing

(* Nothing of an earlier game, not even a result fetched after its end, is *)
(* left when a game starts among players.                                  *)
FreshStart ==
    [][\A o \in Objects : StaysListed(o) /\ StartsPlaying(o) => heap'[o].finished = {}]_vars

(* A room only gains a member that its lock, its size, its lists and its   *)
(* phase let in at that moment.                                            *)
GrowthRespectsAccess ==
    [][\A o \in Objects : \A u \in Users :
            StaysListed(o) /\ u \in Members(heap'[o]) \ Members(heap[o])
            => /\ heap[o].state.type = "SelectChart"
               /\ ~heap[o].locked
               /\ Len(heap'[o].order) <= heap[o].maxPlayers
               /\ u \notin heap[o].blacklist
               /\ heap[o].whitelist # {} => u \in heap[o].whitelist]_vars

(* Every game ends, whoever leaves, disconnects, or becomes host meanwhile. *)
GamesEnd ==
    \A id \in RoomIds :
        (dir[id] # None /\ heap[dir[id]].state = Playing)
            ~> (dir[id] = None \/ heap[dir[id]].state # Playing)

(* Blacklisting a player gets it out of the room, or the list was replaced. *)
BlacklistedLeave ==
    \A id \in RoomIds : \A u \in Users :
        (dir[id] # None /\ u \in Members(heap[dir[id]]) \cap heap[dir[id]].blacklist)
            ~> (dir[id] = None \/ u \notin Members(heap[dir[id]]) \cap heap[dir[id]].blacklist)

-----------------------------------------------------------------------------
(* What Lobby sees of a room. *)
Outline(r) == [members |-> Members(r), host |-> r.ownerId, playing |-> r.state = Playing]

OpenRooms == INSTANCE Lobby WITH
    rooms <- [id \in {i \in RoomIds : dir[i] # None} |-> Outline(heap[dir[id]])]

(* Commands, administrators, list enforcement and late answers together    *)
(* implement Lobby: a handler, whichever room object it holds, changes one *)
(* open room at most; it closes it, or lets one user in or out, or starts  *)
(* or ends its game, and passes it on only when the host goes or a game    *)
(* ends.                                                                   *)
LobbyExact == OpenRooms!Spec

-----------------------------------------------------------------------------
(* A statement of the source that the code does not keep. *)

AtMostOneUnfinished(r) == \E u \in Users : Active(r) \ r.finished \subseteq {u}

(* "illegal state" (handleSelectChart): the chart is not changed while a   *)
(* game is on.  The guard precedes the fetch and is not repeated after it. *)
ChartKeepsGame ==
    [][\A o \in Objects : StaysListed(o) /\ StopsPlaying(o) => AtMostOneUnfinished(heap[o])]_vars

=============================================================================
