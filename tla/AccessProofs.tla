---------------------------- MODULE AccessProofs ----------------------------
(* Who may be in a room of RoomServer, for all values of its constants,    *)
(* and that all it does to rooms is what Lobby allows.                     *)
EXTENDS RoomServerProofs

(* A setRoomBlacklistByAdmin that will examine the players of room o       *)
(* against a list with u on it is still fetching names.                    *)
Fetching(o, u) ==
    \E s \in Slots : calls[s].kind = "blacklist" /\ calls[s].room = o /\ u \in calls[s].list

(* Or its loop is running, and has not come to u yet.                      *)
UpNext(o, u) ==
    /\ sweep.kind = "blacklist" /\ sweep.room = o
    /\ u \in sweep.list /\ u \in Elems(sweep.todo)

(* The listed members of a room: each is about to be kicked, in the one    *)
(* way or the other.                                                       *)
Banned(r) == Members(r) \cap r.blacklist

BanInv == \A o \in Objects : Listed(o) => \A u \in Banned(heap[o]) : Fetching(o, u) \/ UpNext(o, u)

LEMMA BanInvEnforces == IInv /\ BanInv => BlacklistEnforced
<1> SUFFICES ASSUME IInv, BanInv, ~Sweeping,
                    NEW o \in Objects, Listed(o), NEW u \in Banned(heap[o])
             PROVE  Fetching(o, u)
  BY DEF BlacklistEnforced, Banned, Fetching
<1>1. Elems(sweep.todo) = {}
  BY DEF Sweeping, Elems
<1>2. QED  BY <1>1 DEF BanInv, UpNext

-----------------------------------------------------------------------------
(* What the operators of Rooms do to who is banned in a room.              *)

(* Room r goes on as s: the list is the same, and nobody has come in.      *)
Shrinks(r, s) == s.id = r.id /\ s.blacklist = r.blacklist /\ Members(s) \subseteq Members(r)

(* Moreover, it has the same players and the same owner.                   *)
Remains(r, s) ==
    /\ s.id = r.id /\ s.blacklist = r.blacklist
    /\ s.order = r.order /\ s.ownerId = r.ownerId

LEMMA FieldsRemain ==
    ASSUME NEW r \in Room, NEW rdy, NEW fin, NEW st, NEW x
    PROVE  /\ Remains(r, r)
           /\ Remains(r, SetFlags(r, rdy, fin))
           /\ Remains(r, [SetFlags(r, rdy, fin) EXCEPT !.state = st])
           /\ Remains(r, [SetFlags(r, rdy, fin) EXCEPT !.state = st, !.soloConfirmPending = FALSE])
           /\ Remains(r, [r EXCEPT !.ready = rdy])
           /\ Remains(r, [r EXCEPT !.finished = fin])
           /\ Remains(r, [r EXCEPT !.soloConfirmPending = x])
           /\ Remains(r, [r EXCEPT !.locked = x])
           /\ Remains(r, [r EXCEPT !.cycle = x])
           /\ Remains(r, [r EXCEPT !.maxPlayers = x])
           /\ Remains(r, [r EXCEPT !.whitelist = x])
           /\ Remains(r, ChartSet(r, x))
BY DEF Remains, Room, SetFlags, ChartSet

LEMMA RemainsShrinks ==
    ASSUME NEW r, NEW s, Remains(r, s)
    PROVE  Shrinks(r, s)
BY DEF Remains, Shrinks, Members

LEMMA EndStateShrinks ==
    ASSUME NEW a \in Room, NEW r \in Room
    PROVE  Shrinks(a, EndState(a, r))
<1>1. CASE r.cycle
  <2> DEFINE h == IF Rotates(r) /\ NextHost(r) \in Members(a) THEN NextHost(r) ELSE a.ownerId
  <2>1. EndState(a, r) = [a EXCEPT !.ownerId = h, !.state = Waiting]
    BY <1>1 DEF EndState, Room
  <2> HIDE DEF h
  <2>2. QED  BY <2>1 DEF Shrinks, Members, Room
<1>2. CASE ~r.cycle
  BY <1>2 DEF EndState, Shrinks, Members, Room
<1>3. QED  BY <1>1, <1>2

LEMMA SettledShrinks ==
    ASSUME NEW n \in Nat, NEW h \in [1..n -> Room], NEW o \in 1..n, NEW x \in 1..n
    PROVE  Shrinks(h[x], Settled(h, o)[x])
<1> DEFINE a == IF x = o THEN ClearFlags(h[x]) ELSE h[x]
<1>1. a \in Room /\ Shrinks(h[x], a)
  BY FieldsRemain, RemainsShrinks, FlagsType DEF ClearFlags
<1>2. Shrinks(a, EndState(a, h[o]))
  <2> HIDE DEF a
  <2>1. QED  BY <1>1, EndStateShrinks
<1>3. Ended(h, o)[x] = IF x = dir[h[o].id] THEN EndState(a, h[o]) ELSE a
  BY DEF Ended
<1> HIDE DEF a
<1>4. Shrinks(h[x], Ended(h, o)[x])
  BY <1>1, <1>2, <1>3 DEF Shrinks
<1>5. Shrinks(h[x], h[x])
  BY DEF Shrinks
<1>6. QED  BY <1>4, <1>5 DEF Settled

-----------------------------------------------------------------------------
(* Steps after which nobody is banned who was not before, and nobody is in *)
(* who was not in.                                                         *)

NobodyComesIn == \A o \in Objects : Members(heap'[o]) \subseteq Members(heap[o])

BlacklistCallsKept == \A s \in Slots : calls[s].kind = "blacklist" => calls'[s] = calls[s]

LEMMA ListedBefore ==
    ASSUME IInv, NEW o \in Objects, heap'[o].id = heap[o].id,
           \A id \in RoomIds : dir'[id] \in {dir[id], None}, Listed(o)'
    PROVE  Listed(o)
<1>1. heap[o].id \in RoomIds /\ o # None
  BY Parts DEF Room, Objects, None
<1>2. QED  BY <1>1 DEF Listed

LEMMA ShrinkingStep ==
    ASSUME IInv, BanInv, created' = created, sweep' = sweep, BlacklistCallsKept,
           \A o \in Objects : Shrinks(heap[o], heap'[o]),
           \A id \in RoomIds : dir'[id] \in {dir[id], None}
    PROVE  BanInv' /\ NobodyComesIn
<1>1. Objects' = Objects
  BY DEF Objects
<1> SUFFICES ASSUME NEW o \in Objects, Listed(o)', NEW u \in Banned(heap'[o])
             PROVE  Fetching(o, u)' \/ UpNext(o, u)'
  BY <1>1 DEF BanInv, Banned, Members, NobodyComesIn, Shrinks
<1>2. Listed(o) /\ u \in Banned(heap[o])
  BY ListedBefore DEF Shrinks, Banned
<1>3. Fetching(o, u) => Fetching(o, u)'
  BY DEF Fetching, BlacklistCallsKept
<1>4. UpNext(o, u) => UpNext(o, u)'
  BY DEF UpNext, Elems
<1>5. QED  BY <1>2, <1>3, <1>4 DEF BanInv

LEMMA ShrinkingRoom ==
    ASSUME IInv, BanInv, UNCHANGED <<created, dir, sweep>>, BlacklistCallsKept,
           NEW o \in Objects, NEW s, Shrinks(heap[o], s), heap' = [heap EXCEPT ![o] = s]
    PROVE  BanInv' /\ NobodyComesIn
<1>1. \A x \in Objects : Shrinks(heap[x], heap'[x])
  BY Parts DEF Shrinks
<1>2. QED  BY <1>1, ShrinkingStep

LEMMA ShrinkingSettled ==
    ASSUME IInv, BanInv, UNCHANGED <<created, dir, sweep>>, BlacklistCallsKept,
           NEW o \in Objects, NEW s \in Room, Shrinks(heap[o], s),
           heap' = Settled([heap EXCEPT ![o] = s], o)
    PROVE  BanInv' /\ NobodyComesIn
<1> DEFINE h == [heap EXCEPT ![o] = s]
<1>1. /\ created \in Nat /\ o \in 1..created /\ h \in [1..created -> Room]
      /\ \A x \in Objects : Shrinks(heap[x], h[x])
  BY Parts DEF Objects, Shrinks
<1> HIDE DEF h
<1>2. \A x \in Objects : Shrinks(h[x], heap'[x])
  BY <1>1, SettledShrinks DEF h, Objects
<1>3. \A x \in Objects : Shrinks(heap[x], heap'[x])
  BY <1>1, <1>2 DEF Shrinks
<1>4. QED  BY <1>3, ShrinkingStep

(* What removePlayerFromRoom leaves of the room of a user.                 *)
LEMMA PlayerRemoved ==
    ASSUME IInv, NEW u \in Users, NEW o \in RoomsOf(u)
    PROVE  LET r == RemovePlayer(heap[o], u)
           IN  /\ o \in Objects /\ u \in Members(heap[o])
               /\ r \in Room /\ r.id = heap[o].id /\ r.state = heap[o].state
               /\ r.blacklist = heap[o].blacklist
               /\ r.ownerId = IF heap[o].ownerId = u /\ r.order # <<>>
                              THEN Head(r.order) ELSE heap[o].ownerId
               /\ Members(r) = Members(heap[o]) \ {u}
<1> DEFINE r == RemovePlayer(heap[o], u)
<1>1. o \in Objects /\ u \in Members(heap[o]) /\ heap[o] \in Room
  BY Parts DEF RoomsOf
<1>2. r.blacklist = heap[o].blacklist
  BY <1>1 DEF RemovePlayer, Room
<1>3. Members(r) = Members(heap[o]) \ {u}
  <2>1. heap[o].order \in Seq(Users) /\ Distinct(heap[o].order)
    BY <1>1 DEF IInv, OneRoomPerUser, Distinct, Room
  <2>2. Members(heap[o]) = Elems(heap[o].order) /\ Members(r) = Elems(r.order)
    BY DEF Members, Elems
  <2>3. r.order = Without(heap[o].order, u)
    BY <1>1, RemovePlayerType
  <2>4. QED  BY <1>1, <2>1, <2>2, <2>3, WithoutMembers
<1>4. QED  BY <1>1, <1>2, <1>3, RemovePlayerType

(* A user leaves its room, and is not in it any more.                      *)
LEMMA DepartShrinks ==
    ASSUME IInv, NEW u \in Users, NEW o \in RoomsOf(u), NEW c \in BOOLEAN, Depart(u, o, c)
    PROVE  /\ \A x \in Objects : Shrinks(heap[x], heap'[x])
           /\ u \notin Members(heap'[o])
           /\ \A id \in RoomIds : dir'[id] \in {dir[id], None}
           /\ BlacklistCallsKept
<1> DEFINE r == RemovePlayer(heap[o], u)
           h == [heap EXCEPT ![o] = r]
<1>1. /\ created \in Nat /\ o \in Objects /\ u \in Members(heap[o])
      /\ heap \in [Objects -> Room] /\ heap[o] \in Room
  BY Parts DEF RoomsOf
<1>2. r \in Room /\ r.id = heap[o].id /\ r.blacklist = heap[o].blacklist
  BY PlayerRemoved
<1>4. Members(r) = Members(heap[o]) \ {u}
  BY PlayerRemoved
<1>5. heap' = h \/ heap' = Settled(h, o)
  BY DEF Depart
<1>6. dir' = IF r.order = <<>> THEN [dir EXCEPT ![r.id] = None] ELSE dir
  BY DEF Depart
<1> HIDE DEF r
<1>7. /\ h \in [1..created -> Room] /\ h[o] = r /\ o \in 1..created
      /\ \A x \in Objects : Shrinks(heap[x], h[x])
  BY <1>1, <1>2, <1>4 DEF Objects, Shrinks
<1> HIDE DEF h
<1>8. \A x \in Objects : Shrinks(h[x], heap'[x])
  <2>1. CASE heap' = h
    BY <2>1 DEF Shrinks
  <2>2. CASE heap' = Settled(h, o)
    BY <1>1, <1>7, <2>2, SettledShrinks DEF Objects
  <2>3. QED  BY <1>5, <2>1, <2>2
<1>9. \A x \in Objects : Shrinks(heap[x], heap'[x])
  BY <1>7, <1>8 DEF Shrinks
<1>10. u \notin Members(heap'[o])
  BY <1>1, <1>4, <1>7, <1>8 DEF Shrinks
<1>11. \A id \in RoomIds : dir'[id] \in {dir[id], None}
  BY <1>6, Parts
<1>12. BlacklistCallsKept
  BY DEF BlacklistCallsKept, Depart, Forget
<1>13. QED  BY <1>9, <1>10, <1>11, <1>12

-----------------------------------------------------------------------------
(* The steps one by one. *)

LEMMA CreateRoomBans ==
    ASSUME IInv, BanInv, NEW u \in Users, NEW id \in RoomIds, CreateRoom(u, id)
    PROVE  BanInv' /\ NobodyComesIn
<1> DEFINE n == created + 1
<1>1. /\ n \in Nat /\ n \notin Objects /\ Objects' = Objects \cup {n}
      /\ dir[id] = None /\ None \notin Objects
  BY Parts DEF CreateRoom, Objects, None
<1>2. /\ \A o \in Objects : heap'[o] = heap[o]
      /\ heap'[n] = NewRoom(id, u)
      /\ dir' = [dir EXCEPT ![id] = n]
      /\ calls' = calls /\ sweep' = sweep
  BY <1>1 DEF CreateRoom, Objects
<1> HIDE DEF n
<1>3. Banned(heap'[n]) = {}
  BY <1>2 DEF Banned, NewRoom
<1>4. ASSUME NEW o \in Objects, Listed(o)', NEW w \in Banned(heap'[o])
      PROVE  Fetching(o, w)' \/ UpNext(o, w)'
  <2>1. heap[o].id \in RoomIds
    BY Parts DEF Room
  <2>2. Listed(o) /\ w \in Banned(heap[o])
    BY <1>1, <1>2, <1>4, <2>1, Parts DEF Listed
  <2>3. QED  BY <1>2, <2>2 DEF BanInv, Fetching, UpNext, Elems
<1>5. BanInv'
  BY <1>1, <1>3, <1>4 DEF BanInv, Banned, Members
<1>6. QED  BY <1>2, <1>5 DEF NobodyComesIn

(* The list is looked at before anybody comes in (addPlayerToRoom).        *)
LEMMA JoinRoomBans ==
    ASSUME IInv, BanInv, NEW u \in Users, NEW id \in RoomIds, NEW m \in BOOLEAN,
           JoinRoom(u, id, m)
    PROVE  BanInv'
<1> DEFINE o == dir[id]
           r == AddPlayer(heap[o], u, m)
<1>1. /\ o \in Objects /\ heap[o] \in Room /\ u \notin heap[o].blacklist
      /\ heap' = [heap EXCEPT ![o] = r]
      /\ UNCHANGED <<created, dir, calls, sweep>> /\ Objects' = Objects
  BY Parts DEF JoinRoom, Admits, Objects
<1>2. r.id = heap[o].id /\ r.order = Append(heap[o].order, u) /\ r.blacklist = heap[o].blacklist
  BY <1>1 DEF AddPlayer, Room
<1>3. Members(r) = Members(heap[o]) \cup {u}
  <2>1. heap[o].order \in Seq(Users)
    BY <1>1 DEF Room
  <2>2. Members(heap[o]) = Elems(heap[o].order) /\ Members(r) = Elems(r.order)
    BY DEF Members, Elems
  <2>3. QED  BY <1>2, <2>1, <2>2, AppendMembers
<1> HIDE DEF o, r
<1>4. \A x \in Objects : heap'[x].id = heap[x].id /\ Banned(heap'[x]) = Banned(heap[x])
  BY <1>1, <1>2, <1>3, Parts DEF Banned
<1>5. ASSUME NEW x \in Objects, Listed(x)', NEW w \in Banned(heap'[x])
      PROVE  Fetching(x, w)' \/ UpNext(x, w)'
  <2>1. Listed(x) /\ w \in Banned(heap[x])
    BY <1>1, <1>4, <1>5 DEF Listed
  <2>2. QED  BY <1>1, <2>1 DEF BanInv, Fetching, UpNext, Elems
<1>6. QED  BY <1>1, <1>5 DEF BanInv, Banned, Members

LEMMA DepartBans ==
    ASSUME IInv, BanInv, created' = created, sweep' = sweep,
           NEW u \in Users, NEW o \in RoomsOf(u), NEW c \in BOOLEAN, Depart(u, o, c)
    PROVE  BanInv' /\ NobodyComesIn
BY DepartShrinks, ShrinkingStep

(* Steps that change one room, without its list and its members.           *)
LEMMA RoomCommandsRemain ==
    ASSUME IInv, NEW u \in Users,
           \/ \E b \in BOOLEAN : LockRoom(u, b) \/ CycleRoom(u, b)
           \/ RequestStart(u) \/ Ready(u) \/ CancelReady(u)
    PROVE  \E o \in RoomsOf(u) : \E s : Remains(heap[o], s) /\ heap' = [heap EXCEPT ![o] = s]
<1>1. \A o \in RoomsOf(u) : o \in Objects /\ heap[o] \in Room
  BY Parts
<1>2. ASSUME NEW b \in BOOLEAN, LockRoom(u, b) \/ CycleRoom(u, b)
      PROVE  \E o \in RoomsOf(u) : \E s : Remains(heap[o], s) /\ heap' = [heap EXCEPT ![o] = s]
  <2>1. PICK o \in RoomsOf(u) : \/ heap' = [heap EXCEPT ![o] = [heap[o] EXCEPT !.locked = b]]
                                \/ heap' = [heap EXCEPT ![o] = [heap[o] EXCEPT !.cycle = b]]
    BY <1>1, <1>2, Parts DEF LockRoom, CycleRoom
  <2>2. QED  BY <1>1, <2>1, FieldsRemain
<1>3. CASE RequestStart(u)
  <2>1. PICK o \in RoomsOf(u) :
          LET r == heap[o] IN
          \/ heap' = [heap EXCEPT ![o] = [SetFlags(r, {u}, {}) EXCEPT !.state = Waiting]]
          \/ heap' = [heap EXCEPT ![o] = [r EXCEPT !.soloConfirmPending = TRUE]]
          \/ heap' = [heap EXCEPT ![o] = [SetFlags(r, {}, {}) EXCEPT !.state = Playing,
                                                      !.soloConfirmPending = FALSE]]
    BY <1>1, <1>3, Parts DEF RequestStart, Announce, StartPlaying
  <2>2. QED  BY <1>1, <2>1, FieldsRemain
<1>4. CASE Ready(u)
  <2>1. PICK o \in RoomsOf(u) :
          LET r == heap[o]
              rdy == heap[o].ready \cup {u} IN
          \/ heap' = [heap EXCEPT ![o] = [SetFlags(r, rdy, {}) EXCEPT !.state = Playing]]
          \/ heap' = [heap EXCEPT ![o] = [r EXCEPT !.ready = rdy]]
    BY <1>1, <1>4, Parts DEF Ready, Announce, StartPlaying
  <2>2. QED  BY <1>1, <2>1, FieldsRemain
<1>5. CASE CancelReady(u)
  <2>1. PICK o \in RoomsOf(u) :
          LET r == heap[o] IN
          \/ heap' = [heap EXCEPT ![o] = [SetFlags(r, {}, {}) EXCEPT
                          !.state = Selecting(r.selectedChart), !.soloConfirmPending = FALSE]]
          \/ heap' = [heap EXCEPT ![o] = SetFlags(r, r.ready \ {u}, r.finished \ {u})]
    BY <1>1, <1>5, Parts DEF CancelReady, Announce, ClearFlags
  <2>2. QED  BY <1>1, <2>1, FieldsRemain
<1>6. QED  BY <1>2, <1>3, <1>4, <1>5

LEMMA RoomSettingsRemain ==
    ASSUME IInv, NEW id \in RoomIds,
           \/ ToggleRoomLock(id) \/ ToggleRoomMode(id) \/ ForceStart(id)
           \/ \E n \in Capacities : SetRoomMaxPlayers(id, n)
    PROVE  /\ dir[id] \in Objects
           /\ \E s : Remains(heap[dir[id]], s) /\ heap' = [heap EXCEPT ![dir[id]] = s]
<1> DEFINE o == dir[id]
           r == heap[o]
           Changed == \E s : Remains(r, s) /\ heap' = [heap EXCEPT ![o] = s]
<1>1. o \in Objects /\ r \in Room
  BY Parts DEF ToggleRoomLock, ToggleRoomMode, ForceStart, SetRoomMaxPlayers
<1>2. CASE ToggleRoomLock(id)
  <2>1. heap' = [heap EXCEPT ![o] = [r EXCEPT !.locked = ~r.locked]]
    BY <1>1, <1>2, Parts DEF ToggleRoomLock
  <2>2. QED  BY <1>1, <2>1, FieldsRemain
<1>3. CASE ToggleRoomMode(id)
  <2>1. heap' = [heap EXCEPT ![o] = [r EXCEPT !.cycle = ~r.cycle]]
    BY <1>1, <1>3, Parts DEF ToggleRoomMode
  <2>2. QED  BY <1>1, <2>1, FieldsRemain
<1>4. CASE ForceStart(id)
  <2>1. PICK fin : heap' = [heap EXCEPT ![o] = [SetFlags(r, {}, fin) EXCEPT !.state = Playing]]
    BY <1>4 DEF ForceStart, Announce, StartPlaying
  <2>2. QED  BY <1>1, <2>1, FieldsRemain
<1>5. ASSUME NEW n \in Capacities, SetRoomMaxPlayers(id, n)  PROVE Changed
  <2>1. heap' = [heap EXCEPT ![o] = [r EXCEPT !.maxPlayers = n]]
    BY <1>1, <1>5, Parts DEF SetRoomMaxPlayers
  <2>2. QED  BY <1>1, <2>1, FieldsRemain
<1>6. QED  BY <1>1, <1>2, <1>3, <1>4, <1>5

LEMMA RemainingRoom ==
    ASSUME IInv, BanInv, UNCHANGED <<created, dir, calls, sweep>>,
           \E o \in Objects : \E s : Remains(heap[o], s) /\ heap' = [heap EXCEPT ![o] = s]
    PROVE  BanInv' /\ NobodyComesIn
<1>1. PICK o \in Objects : \E s : Remains(heap[o], s) /\ heap' = [heap EXCEPT ![o] = s]
  OBVIOUS
<1>2. PICK s : Remains(heap[o], s) /\ heap' = [heap EXCEPT ![o] = s]
  BY <1>1
<1>3. Shrinks(heap[o], s) /\ BlacklistCallsKept
  BY <1>2, RemainsShrinks DEF BlacklistCallsKept
<1>4. QED  BY <1>2, <1>3, ShrinkingRoom

LEMMA RoomCommandsBan ==
    ASSUME IInv, BanInv, NEW u \in Users,
           \/ \E b \in BOOLEAN : LockRoom(u, b) \/ CycleRoom(u, b)
           \/ RequestStart(u) \/ Ready(u) \/ CancelReady(u)
    PROVE  BanInv' /\ NobodyComesIn
<1>1. UNCHANGED <<created, dir, calls, sweep>>
  BY DEF LockRoom, CycleRoom, RequestStart, Ready, CancelReady
<1>2. \A o \in RoomsOf(u) : o \in Objects
  BY DEF RoomsOf
<1>3. QED  BY <1>1, <1>2, RoomCommandsRemain, RemainingRoom

LEMMA RoomSettingsBan ==
    ASSUME IInv, BanInv, NEW id \in RoomIds,
           \/ ToggleRoomLock(id) \/ ToggleRoomMode(id) \/ ForceStart(id)
           \/ \E n \in Capacities : SetRoomMaxPlayers(id, n)
    PROVE  BanInv' /\ NobodyComesIn
<1>1. UNCHANGED <<created, dir, calls, sweep>>
  BY DEF ToggleRoomLock, ToggleRoomMode, ForceStart, SetRoomMaxPlayers
<1>2. QED  BY <1>1, RoomSettingsRemain, RemainingRoom

LEMMA AbortBans ==
    ASSUME IInv, BanInv, NEW u \in Users, Abort(u)
    PROVE  BanInv' /\ NobodyComesIn
<1>1. PICK o \in RoomsOf(u) : heap' = Settled([heap EXCEPT ![o].finished = @ \cup {u}], o)
  BY DEF Abort
<1>2. o \in Objects /\ heap[o] \in Room
  BY Parts
<1> DEFINE fin == heap[o].finished \cup {u}
           s == [heap[o] EXCEPT !.finished = fin]
<1>3. fin \in SUBSET Users
  BY <1>2 DEF Room
<1>4. heap' = Settled([heap EXCEPT ![o] = s], o)
  BY <1>1, <1>2, Parts
<1> HIDE DEF fin
<1>5. s \in Room /\ Shrinks(heap[o], s)
  BY <1>2, <1>3, FieldsRemain, RemainsShrinks DEF Room
<1>6. UNCHANGED <<created, dir, sweep>> /\ BlacklistCallsKept
  BY DEF Abort, BlacklistCallsKept
<1> HIDE DEF s
<1>7. QED  BY <1>2, <1>4, <1>5, <1>6, ShrinkingSettled

LEMMA CloseRoomBans ==
    ASSUME IInv, BanInv, NEW id \in RoomIds, CloseRoom(id)
    PROVE  BanInv' /\ NobodyComesIn
<1>1. \A i \in RoomIds : dir'[i] \in {dir[i], None}
  BY Parts DEF CloseRoom
<1>2. \A o \in Objects : Shrinks(heap[o], heap'[o])
  BY DEF CloseRoom, Shrinks
<1>3. UNCHANGED <<created, sweep>> /\ BlacklistCallsKept
  BY DEF CloseRoom, BlacklistCallsKept
<1>4. QED  BY <1>1, <1>2, <1>3, ShrinkingStep

(* Steps that leave the rooms alone.                                       *)
LEMMA RoomsAloneBan ==
    ASSUME IInv, BanInv, UNCHANGED <<created, heap, dir, sweep>>, BlacklistCallsKept
    PROVE  BanInv' /\ NobodyComesIn
<1>1. \A o \in Objects : Shrinks(heap[o], heap'[o])
  BY DEF Shrinks
<1>2. QED  BY <1>1, ShrinkingStep

LEMMA CallsBan ==
    ASSUME IInv, BanInv, NEW s \in Slots,
           \/ \E u \in Users : Played(u, s) \/ \E c \in Charts : SelectChart(u, c, s)
           \/ FetchFails(s)
    PROVE  BanInv' /\ NobodyComesIn
<1>1. calls[s].kind # "blacklist"
  BY DEF Played, SelectChart, FetchFails, Idle
<1>2. BlacklistCallsKept
  BY <1>1, Parts DEF Played, SelectChart, FetchFails, BlacklistCallsKept
<1>3. QED  BY <1>2, RoomsAloneBan DEF Played, SelectChart, FetchFails

LEMMA ChartFetchedBans ==
    ASSUME IInv, BanInv, NEW s \in Slots, ChartFetched(s)
    PROVE  BanInv' /\ NobodyComesIn
<1> DEFINE o == calls[s].room
           c == calls[s].chart
           t == dir[heap[o].id]
<1>1. BlacklistCallsKept /\ UNCHANGED <<created, dir, sweep>>
  BY Parts DEF ChartFetched, BlacklistCallsKept
<1>2. o \in Objects
  <2>1. calls[s] \in Call \cup {Idle} /\ calls[s].kind = "chart"
    BY Parts DEF ChartFetched
  <2>2. QED  BY <2>1 DEF Call, Idle
<1>3. heap' = IF t = None THEN heap ELSE [heap EXCEPT ![t] = ChartSet(heap[t], c)]
  BY Parts DEF ChartFetched
<1>4. t \in Objects \cup {None}
  BY <1>2, Parts DEF Room
<1> HIDE DEF t, c
<1>5. CASE t = None
  BY <1>1, <1>3, <1>5, RoomsAloneBan
<1>6. CASE t \in Objects
  <2>1. t # None /\ heap[t] \in Room
    BY <1>6, Parts DEF Objects, None
  <2>2. Shrinks(heap[t], ChartSet(heap[t], c))
    BY <2>1, FieldsRemain, RemainsShrinks
  <2>3. QED  BY <1>1, <1>3, <1>6, <2>1, <2>2, ShrinkingRoom
<1>7. QED  BY <1>4, <1>5, <1>6

LEMMA RecordFetchedBans ==
    ASSUME IInv, BanInv, NEW s \in Slots, RecordFetched(s)
    PROVE  BanInv' /\ NobodyComesIn
<1> DEFINE o == calls[s].room
           fin == heap[o].finished \cup {calls[s].user}
           r == IF calls[s].same THEN [heap[o] EXCEPT !.finished = fin] ELSE heap[o]
<1>1. calls[s] \in [kind: {"record"}, room: Objects, user: Users, same: BOOLEAN]
  <2>1. calls[s] \in Call \cup {Idle} /\ calls[s].kind = "record"
    BY Parts DEF RecordFetched
  <2>2. QED  BY <2>1 DEF Call, Idle
<1>2. o \in Objects /\ heap[o] \in Room /\ fin \in SUBSET Users
  BY <1>1, Parts DEF Room
<1>3. (IF calls[s].same THEN [heap EXCEPT ![o].finished = @ \cup {calls[s].user}] ELSE heap)
        = [heap EXCEPT ![o] = r]
  BY <1>2, Parts
<1>4. heap' = Settled([heap EXCEPT ![o] = r], o)
  BY <1>3 DEF RecordFetched
<1>5. BlacklistCallsKept /\ UNCHANGED <<created, dir, sweep>>
  BY Parts DEF RecordFetched, BlacklistCallsKept
<1> HIDE DEF fin
<1>6. r \in Room /\ Shrinks(heap[o], r)
  <2>1. /\ [heap[o] EXCEPT !.finished = fin] \in Room
        /\ Shrinks(heap[o], [heap[o] EXCEPT !.finished = fin]) /\ Shrinks(heap[o], heap[o])
    BY <1>2, FieldsRemain, RemainsShrinks DEF Room
  <2>2. QED  BY <1>2, <2>1
<1> HIDE DEF r
<1>7. QED  BY <1>2, <1>4, <1>5, <1>6, ShrinkingSettled

(* A new blacklist comes with the call that will enforce it.               *)
LEMMA SetListBans ==
    ASSUME IInv, BanInv, NEW id \in RoomIds, NEW kind \in {"blacklist", "whitelist"},
           NEW list \in Lists, NEW s \in Slots, SetList(id, kind, list, s)
    PROVE  BanInv' /\ NobodyComesIn
<1> DEFINE o == dir[id]
           c == [kind |-> kind, room |-> o, list |-> list]
<1>1. /\ o \in Objects /\ heap[o] \in Room /\ Objects' = Objects
      /\ calls' = [calls EXCEPT ![s] = c] /\ calls[s] = Idle
      /\ UNCHANGED <<created, dir, sweep>>
  BY Parts DEF SetList, Objects
<1>2. BlacklistCallsKept /\ calls'[s] = c
  BY <1>1, Parts DEF BlacklistCallsKept, Idle
<1>3. CASE kind = "whitelist"
  <2>1. heap' = [heap EXCEPT ![o] = [heap[o] EXCEPT !.whitelist = list]]
    BY <1>1, <1>3, Parts DEF SetList
  <2>2. Shrinks(heap[o], [heap[o] EXCEPT !.whitelist = list])
    BY <1>1, FieldsRemain, RemainsShrinks
  <2>3. QED  BY <1>1, <1>2, <2>1, <2>2, ShrinkingRoom
<1>4. CASE kind = "blacklist"
  <2> DEFINE r == [heap[o] EXCEPT !.blacklist = list]
  <2>1. heap' = [heap EXCEPT ![o] = r]
    BY <1>1, <1>4, Parts DEF SetList
  <2>2. r.id = heap[o].id /\ r.blacklist = list
    BY <1>1 DEF Room
  <2> HIDE DEF r, o
  <2>3. \A x \in Objects : heap'[x].id = heap[x].id /\ (x # o => heap'[x] = heap[x])
    BY <1>1, <2>1, <2>2, Parts
  <2>4. heap'[o].blacklist = list
    BY <1>1, <2>1, <2>2, Parts
  <2>5. ASSUME NEW x \in Objects, Listed(x)', NEW w \in Banned(heap'[x])
        PROVE  Fetching(x, w)' \/ UpNext(x, w)'
    <3>1. CASE x = o
      <4>1. w \in list
        BY <2>4, <2>5, <3>1 DEF Banned
      <4>2. c.kind = "blacklist" /\ c.room = o /\ c.list = list
        BY <1>4
      <4>3. QED  BY <1>2, <3>1, <4>1, <4>2 DEF Fetching
    <3>2. CASE x # o
      <4>1. Listed(x) /\ w \in Banned(heap[x])
        BY <1>1, <2>3, <2>5, <3>2 DEF Listed
      <4>2. QED  BY <1>1, <1>2, <4>1 DEF BanInv, Fetching, UpNext, Elems, BlacklistCallsKept
    <3>3. QED  BY <3>1, <3>2
  <2>6. BanInv'
    BY <1>1, <2>5 DEF BanInv, Banned, Members
  <2>7. r.order = heap[o].order
    BY <1>1 DEF r, o, Room
  <2>8. NobodyComesIn
    BY <1>1, <2>1, <2>7, Parts DEF NobodyComesIn, Members
  <2>9. QED  BY <2>6, <2>8
<1>5. QED  BY <1>3, <1>4

(* The loop has every member of now in front of it.                        *)
LEMMA NamesFetchedBans ==
    ASSUME IInv, BanInv, ~Sweeping, NEW s \in Slots, NamesFetched(s)
    PROVE  BanInv' /\ NobodyComesIn
<1>1. UNCHANGED <<created, heap, dir>> /\ Objects' = Objects
      /\ \A x \in Slots \ {s} : calls'[x] = calls[x]
  BY Parts DEF NamesFetched, Objects
<1>2. ASSUME NEW o \in Objects, Listed(o)', NEW u \in Banned(heap'[o])
      PROVE  Fetching(o, u)' \/ UpNext(o, u)'
  <2>1. Listed(o) /\ u \in Banned(heap[o]) /\ u \in Elems(heap[o].order)
    BY <1>1, <1>2 DEF Listed, Banned, Members, Elems
  <2>2. ~UpNext(o, u)
    BY DEF UpNext, Elems, Sweeping
  <2>3. PICK x \in Slots : calls[x].kind = "blacklist" /\ calls[x].room = o /\ u \in calls[x].list
    BY <2>1, <2>2 DEF BanInv, Fetching
  <2>4. CASE x = s
    <3>1. sweep' = [kind |-> calls[s].kind, room |-> calls[s].room, list |-> calls[s].list,
                    todo |-> heap[calls[s].room].order]
      BY <2>3, <2>4 DEF NamesFetched
    <3>2. QED  BY <2>1, <2>3, <2>4, <3>1 DEF UpNext
  <2>5. CASE x # s
    BY <1>1, <2>3, <2>5 DEF Fetching
  <2>6. QED  BY <2>4, <2>5
<1>3. BanInv'
  BY <1>1, <1>2 DEF BanInv, Banned, Members
<1>4. QED  BY <1>1, <1>3 DEF NobodyComesIn

(* Whoever the loop has come to is not in the room any more, if it was     *)
(* listed; the others are still ahead.                                     *)
LEMMA SweepNextBans ==
    ASSUME IInv, BanInv, Sweeping, SweepNext
    PROVE  BanInv' /\ NobodyComesIn
<1> DEFINE u == Head(sweep.todo)
<1>1. sweep.todo \in Seq(Users) /\ sweep.todo # <<>> /\ u \in Users
  BY Parts DEF Sweeping, Sweeps
<1>2. \A w \in Elems(sweep.todo) : w = u \/ w \in Elems(Tail(sweep.todo))
  <2>1. ASSUME NEW i \in DOMAIN sweep.todo, i # 1
        PROVE  i - 1 \in DOMAIN Tail(sweep.todo) /\ Tail(sweep.todo)[i - 1] = sweep.todo[i]
    BY <1>1, <2>1
  <2>2. u = sweep.todo[1]
    BY <1>1
  <2>3. ASSUME NEW i \in DOMAIN sweep.todo, i # 1
        PROVE  sweep.todo[i] \in Elems(Tail(sweep.todo))
    BY <2>1, <2>3 DEF Elems
  <2>4. \A i \in DOMAIN sweep.todo : sweep.todo[i] = u \/ sweep.todo[i] \in Elems(Tail(sweep.todo))
    BY <2>2, <2>3
  <2>5. QED  BY <2>4 DEF Elems
<1>3. Len(sweep.todo) = 1 => Elems(Tail(sweep.todo)) = {}
  BY <1>1 DEF Elems
<1> HIDE DEF u
<1>4. ASSUME NEW o, NEW w, UpNext(o, w), w # u
      PROVE  UpNext(o, w)'
  <2>1. w \in Elems(Tail(sweep.todo))
    BY <1>2, <1>4 DEF UpNext
  <2>2. Len(sweep.todo) # 1
    BY <1>3, <2>1
  <2>3. sweep' = [sweep EXCEPT !.todo = Tail(sweep.todo)] /\ sweep \in Sweeps
    BY <2>2, Parts DEF SweepNext
  <2>4. QED  BY <1>4, <2>1, <2>3 DEF UpNext, Sweeps, Elems
<1>5. Objects' = Objects
  BY DEF SweepNext, Objects
<1>6. /\ \A x \in Objects : Shrinks(heap[x], heap'[x])
      /\ \A id \in RoomIds : dir'[id] \in {dir[id], None}
      /\ BlacklistCallsKept
  <2>1. CASE \E o \in RoomsOf(u) : Depart(u, o, FALSE)
    BY <1>1, <2>1, DepartShrinks
  <2>2. CASE UNCHANGED <<heap, dir, calls, view>>
    BY <2>2 DEF Shrinks, BlacklistCallsKept
  <2>3. QED  BY <2>1, <2>2 DEF SweepNext, u
<1>7. ASSUME NEW o \in Objects, Listed(o), u \in Members(heap[o]), UpNext(o, u)
      PROVE  u \notin Members(heap'[o])
  <2>1. Unwelcome(u)
    BY <1>7 DEF Unwelcome, UpNext
  <2>2. o \in RoomsOf(u)
    BY <1>7 DEF RoomsOf
  <2>3. PICK p \in RoomsOf(u) : Depart(u, p, FALSE)
    BY <2>1, <2>2 DEF SweepNext, u
  <2>4. p = o
    BY <1>1, <2>2, <2>3 DEF IInv, OneRoomPerUser
  <2>5. QED  BY <1>1, <2>3, <2>4, DepartShrinks
<1>8. ASSUME NEW o \in Objects, Listed(o)', NEW w \in Banned(heap'[o])
      PROVE  Fetching(o, w)' \/ UpNext(o, w)'
  <2>1. Listed(o) /\ w \in Banned(heap[o])
    BY <1>6, <1>8, ListedBefore DEF Shrinks, Banned
  <2>2. Fetching(o, w) => Fetching(o, w)'
    BY <1>6 DEF Fetching, BlacklistCallsKept
  <2>3. UpNext(o, w) => w # u
    BY <1>7, <1>8, <2>1 DEF Banned
  <2>4. QED  BY <1>4, <2>1, <2>2, <2>3 DEF BanInv
<1>9. BanInv'
  BY <1>5, <1>8 DEF BanInv, Banned, Members
<1>10. QED  BY <1>6, <1>9 DEF NobodyComesIn, Shrinks

-----------------------------------------------------------------------------
LEMMA InitBans == Init => BanInv
<1>1. Init => Objects = {}
  BY DEF Init, Objects
<1>2. QED  BY <1>1 DEF BanInv

LEMMA NextBans == IInv /\ BanInv /\ [Next]_vars => BanInv' /\ (NobodyComesIn \/ Joins(BOOLEAN))
<1> DEFINE Fair == BanInv' /\ (NobodyComesIn \/ Joins(BOOLEAN))
<1> SUFFICES ASSUME IInv, BanInv, [Next]_vars  PROVE Fair
  OBVIOUS
<1>1. CASE Sweeping /\ SweepNext
  BY <1>1, SweepNextBans
<1>2. CASE PlayerStep
  <2>1. ASSUME NEW u \in Users, NEW id \in RoomIds, CreateRoom(u, id)  PROVE Fair
    BY <2>1, CreateRoomBans
  <2>2. ASSUME NEW u \in Users, NEW id \in RoomIds, NEW m \in BOOLEAN, JoinRoom(u, id, m)
        PROVE  Fair
    BY <2>2, JoinRoomBans DEF Joins
  <2>3. ASSUME NEW u \in Users, LeaveRoom(u) \/ Disconnect(u)  PROVE Fair
    BY <2>3, DepartBans DEF LeaveRoom, Disconnect
  <2>4. ASSUME NEW u \in Users,
               \/ \E b \in BOOLEAN : CycleRoom(u, b)
               \/ RequestStart(u) \/ Ready(u) \/ CancelReady(u)
        PROVE  Fair
    BY <2>4, RoomCommandsBan
  <2>5. ASSUME NEW u \in Users, Abort(u)  PROVE Fair
    BY <2>5, AbortBans
  <2>6. ASSUME NEW u \in Users, NEW s \in Slots, Played(u, s) \/ \E c \in Charts : SelectChart(u, c, s)
        PROVE  Fair
    BY <2>6, CallsBan
  <2>7. ASSUME NEW s \in Slots, ChartFetched(s) \/ RecordFetched(s) \/ FetchFails(s)  PROVE Fair
    BY <2>7, CallsBan, ChartFetchedBans, RecordFetchedBans
  <2>8. QED  BY <1>2, <2>1, <2>2, <2>3, <2>4, <2>5, <2>6, <2>7 DEF PlayerStep, Joins, Commands
<1>3. CASE ~Sweeping /\ AccessStep
  <2>1. ASSUME NEW u \in Users, NEW b \in BOOLEAN, LockRoom(u, b)  PROVE Fair
    BY <2>1, RoomCommandsBan
  <2>2. ASSUME NEW id \in RoomIds, ToggleRoomLock(id) \/ \E n \in Capacities : SetRoomMaxPlayers(id, n)
        PROVE  Fair
    BY <2>2, RoomSettingsBan
  <2>3. ASSUME NEW id \in RoomIds, NEW s \in Slots, NEW list \in Lists,
               NEW kind \in {"blacklist", "whitelist"}, SetList(id, kind, list, s)
        PROVE  Fair
    BY <2>3, SetListBans
  <2>4. ASSUME NEW s \in Slots, NamesFetched(s)  PROVE Fair
    BY <1>3, <2>4, NamesFetchedBans
  <2>5. ASSUME NEW b \in BOOLEAN, SetGlobalLocked(b)  PROVE Fair
    BY <2>5, RoomsAloneBan DEF SetGlobalLocked, BlacklistCallsKept
  <2>6. QED  BY <1>3, <2>1, <2>2, <2>3, <2>4, <2>5 DEF AccessStep
<1>4. CASE AdminStep
  <2>1. ASSUME NEW id \in RoomIds, ForceStart(id) \/ ToggleRoomMode(id)  PROVE Fair
    BY <2>1, RoomSettingsBan
  <2>2. ASSUME NEW id \in RoomIds, CloseRoom(id)  PROVE Fair
    BY <2>2, CloseRoomBans
  <2>3. ASSUME NEW u \in Users, Kick(u)  PROVE Fair
    BY <2>3, DepartBans DEF Kick
  <2>4. QED  BY <1>4, <2>1, <2>2, <2>3 DEF AdminStep
<1>5. CASE UNCHANGED vars
  BY <1>5, RoomsAloneBan DEF vars, BlacklistCallsKept
<1>6. QED  BY <1>1, <1>2, <1>3, <1>4, <1>5 DEF Next

LEMMA GrowthOK ==
    ASSUME IInv, NobodyComesIn \/ Joins(BOOLEAN),
           NEW o \in Objects, NEW u \in Members(heap'[o]) \ Members(heap[o])
    PROVE  /\ heap[o].state.type = "SelectChart"
           /\ ~heap[o].locked
           /\ Len(heap'[o].order) <= heap[o].maxPlayers
           /\ u \notin heap[o].blacklist
           /\ heap[o].whitelist # {} => u \in heap[o].whitelist
<1>1. PICK v \in Users, id \in RoomIds, m \in BOOLEAN : JoinRoom(v, id, m)
  BY DEF NobodyComesIn, Joins
<1> DEFINE d == dir[id]
           r == AddPlayer(heap[d], v, m)
<1>2. /\ d \in Objects /\ heap[d] \in Room /\ heap' = [heap EXCEPT ![d] = r]
      /\ heap[d].state.type = "SelectChart" /\ Admits(heap[d], v)
  BY <1>1, Parts DEF JoinRoom
<1>3. r.order = Append(heap[d].order, v) /\ heap[d].order \in Seq(Users)
  BY <1>2 DEF AddPlayer, Room
<1>4. Members(r) = Members(heap[d]) \cup {v}
  <2>1. Members(heap[d]) = Elems(heap[d].order) /\ Members(r) = Elems(r.order)
    BY DEF Members, Elems
  <2>2. QED  BY <1>3, <2>1, AppendMembers
<1> HIDE DEF d, r
<1>5. o = d /\ u = v /\ heap'[o] = r
  BY <1>2, <1>4, Parts
<1>6. Len(r.order) = Len(heap[d].order) + 1 /\ heap[d].maxPlayers \in Nat
  BY <1>2, <1>3 DEF Room
<1>7. QED  BY <1>2, <1>5, <1>6 DEF Admits

(* Outside an enforcement loop, a member on the blacklist of its room is   *)
(* about to be kicked, for any users, rooms, lists and calls in flight:    *)
(* nobody slips in between setRoomBlacklistByAdmin's new list and its      *)
(* kicks, whatever joins, updates and kicks come in between.               *)
THEOREM BlacklistAlwaysEnforced == Spec => []BlacklistEnforced
<1>1. Spec => [](IInv /\ BanInv)
  BY Inductive, InitBans, NextBans, PTL DEF Spec
<1>2. QED  BY <1>1, BanInvEnforces, PTL

(* A room only gains a member that its lock, its size, its lists and its   *)
(* phase let in at that moment (handleJoinRoom and addPlayerToRoom): no    *)
(* other handler, late answer or kick adds a player, to any object.        *)
THEOREM GrowthAlwaysRespectsAccess == Spec => GrowthRespectsAccess
<1>1. Spec => [](IInv /\ BanInv)
  BY Inductive, InitBans, NextBans, PTL DEF Spec
<1>2. IInv /\ BanInv /\ [Next]_vars =>
        \A o \in Objects : \A u \in Users :
            StaysListed(o) /\ u \in Members(heap'[o]) \ Members(heap[o])
            => /\ heap[o].state.type = "SelectChart"
               /\ ~heap[o].locked
               /\ Len(heap'[o].order) <= heap[o].maxPlayers
               /\ u \notin heap[o].blacklist
               /\ heap[o].whitelist # {} => u \in heap[o].whitelist
  BY NextBans, GrowthOK
<1>3. QED  BY <1>1, <1>2, PTL DEF Spec, GrowthRespectsAccess

-----------------------------------------------------------------------------
(* The rooms that Lobby sees. *)

Hall == [id \in {i \in RoomIds : dir[i] # None} |-> Outline(heap[dir[id]])]

LobbyStep == [OpenRooms!Next]_(OpenRooms!vars)

LEMMA OfOneRoom ==
    ASSUME NEW id \in DOMAIN Hall,
           \/ OpenRooms!Start(id) \/ OpenRooms!Close(id)
           \/ \E u \in Users : OpenRooms!Enter(u, id) \/ OpenRooms!Leave(u, id) \/ OpenRooms!Stop(id, u)
    PROVE  LobbyStep
<1>1. OpenRooms!Next
  BY DEF OpenRooms!Next, Hall
<1>2. QED  BY <1>1 DEF LobbyStep

(* A room that is open is a listed object, and its host is a member.       *)
LEMMA OpenListed ==
    ASSUME IInv
    PROVE  /\ DOMAIN Hall = {i \in RoomIds : dir[i] # None}
           /\ \A i \in DOMAIN Hall :
                 /\ i \in RoomIds /\ dir[i] \in Objects
                 /\ heap[dir[i]] \in Room /\ heap[dir[i]].id = i
                 /\ heap[dir[i]].ownerId \in Members(heap[dir[i]])
                 /\ Hall[i] = Outline(heap[dir[i]])
           /\ \A o \in Objects : heap[o].id \in RoomIds /\ o # None
           /\ \A o \in Objects : Listed(o) => heap[o].id \in DOMAIN Hall
<1>1. OwnerIsMember
  BY DEF IInv
<1>2. \A o \in Objects : o # None /\ heap[o] \in Room /\ heap[o].id \in RoomIds
  BY Parts DEF Objects, None, Room
<1>3. QED  BY <1>1, <1>2, Parts DEF Hall, OwnerIsMember, Listed

(* A step that changes no outline is a stutter. *)
LEMMA SameHall ==
    ASSUME IInv, dir' = dir, \A o \in Objects : Outline(heap'[o]) = Outline(heap[o])
    PROVE  Hall' = Hall
<1>1. \A i \in DOMAIN Hall : Outline(heap'[dir[i]]) = Outline(heap[dir[i]])
  BY OpenListed
<1>2. QED  BY <1>1, OpenListed DEF Hall

(* The step changes the outline of one open room to w. *)
LEMMA OneOutline ==
    ASSUME IInv, dir' = dir, NEW t \in Objects, Listed(t),
           \A o \in Objects \ {t} : Outline(heap'[o]) = Outline(heap[o])
    PROVE  Hall' = [i \in DOMAIN Hall \cup {heap[t].id} |->
                      IF i = heap[t].id THEN Outline(heap'[t]) ELSE Hall[i]]
<1> DEFINE id == heap[t].id
<1>1. id \in DOMAIN Hall /\ dir[id] = t
  BY OpenListed DEF Listed
<1>2. \A i \in DOMAIN Hall : i # id => dir[i] \in Objects \ {t}
  BY OpenListed
<1>3. \A i \in DOMAIN Hall : Outline(heap'[dir[i]]) = IF i = id THEN Outline(heap'[t]) ELSE Hall[i]
  BY <1>1, <1>2, OpenListed
<1>4. DOMAIN Hall = {i \in RoomIds : dir[i] # None}
  BY OpenListed
<1>5. QED  BY <1>1, <1>3, <1>4 DEF Hall

(* Whatever changes one room object, keeps its members, and passes it on   *)
(* only if it ends its game, is nothing, Start or Stop.                    *)
LEMMA StartsOrStops ==
    ASSUME IInv, OwnerIsMember', dir' = dir, NEW t \in Objects,
           \A o \in Objects \ {t} : Outline(heap'[o]) = Outline(heap[o]),
           Members(heap'[t]) = Members(heap[t]),
           heap'[t].ownerId = heap[t].ownerId \/ heap'[t].state # Playing
    PROVE  LobbyStep
<1> DEFINE w == Outline(heap'[t])
<1>1. CASE ~Listed(t) \/ w = Outline(heap[t])
  <2>1. CASE w = Outline(heap[t])
    BY <2>1, SameHall DEF LobbyStep, OpenRooms!vars, Hall
  <2>2. CASE ~Listed(t)
    <3>1. \A i \in DOMAIN Hall : dir[i] \in Objects \ {t}
      BY <2>2, OpenListed DEF Listed
    <3>2. Hall' = Hall
      BY <3>1, OpenListed DEF Hall
    <3>3. QED  BY <3>2 DEF LobbyStep, OpenRooms!vars, Hall
  <2>3. QED  BY <1>1, <2>1, <2>2
<1>2. CASE Listed(t) /\ w # Outline(heap[t])
  <2>1. PICK id \in DOMAIN Hall : id = heap[t].id
    BY <1>2, OpenListed
  <2>2. dir[id] = t /\ Hall[id] = Outline(heap[t])
    BY <1>2, <2>1, OpenListed DEF Listed
  <2>3. Hall' = [i \in DOMAIN Hall \cup {id} |-> IF i = id THEN w ELSE Hall[i]]
    BY <1>2, <2>1, OneOutline
  <2>4. PICK h \in Users : h = heap'[t].ownerId /\ h \in Members(heap[t])
    <3>1. heap'[t].ownerId \in Members(heap'[t])
      BY <2>1, <2>2, OpenListed DEF OwnerIsMember
    <3>2. Members(heap[t]) \subseteq Users
      BY <2>1, <2>2, OpenListed DEF Members, Room
    <3>3. QED  BY <3>1, <3>2
  <2>5. Hall[id].members = Members(heap[t]) /\ Hall[id].host = heap[t].ownerId
    BY <2>2 DEF Outline
  <2>6. CASE heap'[t].state = Playing
    <3>1. heap[t].state # Playing
      BY <1>2, <2>6 DEF Outline
    <3>2. w = [members |-> Hall[id].members, host |-> Hall[id].host, playing |-> TRUE]
      BY <2>5, <2>6 DEF Outline
    <3>3. ~Hall[id].playing
      <4>1. Hall[id] = [members |-> Members(heap[t]), host |-> heap[t].ownerId, playing |-> FALSE]
        BY <2>2, <3>1 DEF Outline
      <4>2. QED  BY <4>1
    <3>4. OpenRooms!Start(id)
      BY <2>3, <3>2, <3>3 DEF OpenRooms!Start, OpenRooms!Becomes, Hall
    <3>5. QED  BY <3>4, OfOneRoom
  <2>7. CASE heap'[t].state # Playing
    <3>1. w = [members |-> Hall[id].members, host |-> h, playing |-> FALSE]
      BY <2>4, <2>5, <2>7 DEF Outline
    <3>2. OpenRooms!Stop(id, h)
      BY <2>3, <2>4, <2>5, <3>1 DEF OpenRooms!Stop, OpenRooms!Becomes, Hall
    <3>3. QED  BY <3>2, OfOneRoom
  <2>8. QED  BY <2>6, <2>7
<1>3. QED  BY <1>1, <1>2

LEMMA RemainingLobby ==
    ASSUME IInv, OwnerIsMember', dir' = dir, NEW o \in Objects, NEW s,
           s.order = heap[o].order, s.ownerId = heap[o].ownerId,
           heap' = [heap EXCEPT ![o] = s]
    PROVE  LobbyStep
<1>1. heap'[o] = s /\ \A x \in Objects \ {o} : heap'[x] = heap[x]
  BY Parts
<1>2. Members(heap'[o]) = Members(heap[o])
  BY <1>1, MembersSameOrder
<1>3. QED  BY <1>1, <1>2, StartsOrStops

LEMMA SameOutline ==
    ASSUME NEW r, NEW s, s.order = r.order, s.ownerId = r.ownerId, s.state = r.state
    PROVE  Outline(s) = Outline(r)
BY DEF Outline, Members

LEMMA EndStops ==
    ASSUME NEW a \in Room, NEW r \in Room
    PROVE  EndState(a, r).state # Playing /\ Members(EndState(a, r)) = Members(a)
<1>1. EndState(a, r).state # Playing
  BY DEF EndState, Room, Waiting, Selecting, Playing
<1>2. QED  BY <1>1, EndStateType, MembersSameOrder

(* The end of a game, on whatever object: at most the room that has the id *)
(* now is changed.                                                         *)
LEMMA SettledLobby ==
    ASSUME IInv, OwnerIsMember', dir' = dir, NEW o \in Objects, NEW s \in Room,
           s.id = heap[o].id, s.order = heap[o].order, s.ownerId = heap[o].ownerId,
           s.state = heap[o].state,
           heap' = Settled([heap EXCEPT ![o] = s], o)
    PROVE  LobbyStep
<1> DEFINE h == [heap EXCEPT ![o] = s]
           t == dir[s.id]
           a(x) == IF x = o THEN ClearFlags(h[x]) ELSE h[x]
<1>1. /\ h \in [Objects -> Room] /\ h[o] = s
      /\ \A x \in Objects : Outline(h[x]) = Outline(heap[x])
  BY Parts, SameOutline
<1>2. ASSUME \A x \in Objects : Outline(heap'[x]) = Outline(heap[x])
      PROVE  LobbyStep
  BY <1>2, SameHall DEF LobbyStep, OpenRooms!vars, Hall
<1> HIDE DEF h
<1>3. CASE ~GameOver(s)
  BY <1>1, <1>2, <1>3 DEF Settled, h
<1>4. CASE GameOver(s)
  <2>1. heap' = [x \in Objects |-> IF x = t THEN EndState(a(x), s) ELSE a(x)]
    BY <1>1, <1>4 DEF Settled, Ended, h
  <2>2. \A x \in Objects : a(x) \in Room /\ Outline(a(x)) = Outline(heap[x])
    <3>1. \A r \in Room : ClearFlags(r) \in Room /\ Outline(ClearFlags(r)) = Outline(r)
      BY FlagsType, SameOutline DEF ClearFlags
    <3>2. QED  BY <1>1, <3>1
  <2>3. t \in Objects \cup {None}
    BY Parts DEF Room
  <2> HIDE DEF a, t
  <2>4. \A x \in Objects \ {t} : Outline(heap'[x]) = Outline(heap[x])
    BY <2>1, <2>2
  <2>5. CASE t \notin Objects
    BY <1>2, <2>4, <2>5
  <2>6. CASE t \in Objects
    <3>1. heap'[t] = EndState(a(t), s) /\ a(t) \in Room
      BY <2>1, <2>2, <2>6
    <3>2. Members(a(t)) = Members(heap[t])
      BY <2>2, <2>6 DEF Outline
    <3>3. heap'[t].state # Playing /\ Members(heap'[t]) = Members(heap[t])
      BY <3>1, <3>2, EndStops
    <3>4. QED  BY <2>4, <2>6, <3>3, StartsOrStops
  <2>7. QED  BY <2>5, <2>6
<1>5. QED  BY <1>3, <1>4

(* The others are left as they are by whoever goes. *)
LEMMA HallCloses ==
    ASSUME IInv, NEW id \in DOMAIN Hall, dir' = [dir EXCEPT ![id] = None],
           \A i \in DOMAIN Hall \ {id} : Outline(heap'[dir[i]]) = Outline(heap[dir[i]])
    PROVE  OpenRooms!Close(id)
<1>1. \A i \in RoomIds : dir'[i] = IF i = id THEN None ELSE dir[i]
  BY Parts
<1>2. {i \in RoomIds : dir'[i] # None} = DOMAIN Hall \ {id}
  BY <1>1, OpenListed
<1>3. \A i \in DOMAIN Hall \ {id} : Outline(heap'[dir'[i]]) = Hall[i]
  BY <1>1, OpenListed
<1>4. Hall' = [i \in DOMAIN Hall \ {id} |-> Hall[i]]
  BY <1>2, <1>3 DEF Hall
<1>5. QED  BY <1>4 DEF OpenRooms!Close, Hall

LEMMA OneLeaves ==
    ASSUME NEW id \in DOMAIN Hall, NEW u \in Users, u \in Hall[id].members,
           NEW w \in Hall[id].members \ {u}, Hall[id].host # u => w = Hall[id].host,
           Hall' = [i \in DOMAIN Hall \cup {id} |->
                      IF i = id
                      THEN [members |-> Hall[id].members \ {u}, host |-> w, playing |-> Hall[id].playing]
                      ELSE Hall[i]]
    PROVE  LobbyStep
<1>1. OpenRooms!Becomes(id, Hall[id].members \ {u}, w, Hall[id].playing)
  BY DEF OpenRooms!Becomes, Hall
<1>2. OpenRooms!Leave(u, id)
  BY <1>1 DEF OpenRooms!Leave, Hall
<1>3. QED  BY <1>2, OfOneRoom

LEMMA LastOneLeaves ==
    ASSUME NEW id \in DOMAIN Hall, NEW u \in Users, u \in Hall[id].members,
           NEW w \in Hall[id].members \ {u}, Hall[id].playing,
           Hall' = [i \in DOMAIN Hall \cup {id} |->
                      IF i = id
                      THEN [members |-> Hall[id].members \ {u}, host |-> w, playing |-> FALSE]
                      ELSE Hall[i]]
    PROVE  LobbyStep
<1>1. OpenRooms!Becomes(id, Hall[id].members \ {u}, w, FALSE)
  BY DEF OpenRooms!Becomes, Hall
<1>2. OpenRooms!Leave(u, id)
  BY <1>1 DEF OpenRooms!Leave, Hall
<1>3. QED  BY <1>2, OfOneRoom

LEMMA DepartLobby ==
    ASSUME IInv, OwnerIsMember', NEW u \in Users, NEW o \in RoomsOf(u), NEW c \in BOOLEAN,
           Depart(u, o, c)
    PROVE  LobbyStep
<1> DEFINE r == RemovePlayer(heap[o], u)
           rest == Members(heap[o]) \ {u}
           h == [heap EXCEPT ![o] = r]
<1>1. /\ o \in Objects /\ u \in Members(heap[o])
      /\ r \in Room /\ r.id = heap[o].id /\ r.state = heap[o].state
      /\ Members(r) = rest
      /\ heap[o].ownerId # u => r.ownerId = heap[o].ownerId
  BY PlayerRemoved
<1>2. PICK id \in DOMAIN Hall : id = heap[o].id /\ dir[id] = o
  BY <1>1, OpenListed DEF RoomsOf, Listed
<1>3. /\ Hall[id] = Outline(heap[o])
      /\ Hall[id].members = Members(heap[o]) /\ Hall[id].host = heap[o].ownerId
  BY <1>2, OpenListed DEF Outline
<1>4. h \in [Objects -> Room] /\ h[o] = r /\ \A x \in Objects \ {o} : h[x] = heap[x]
  BY <1>1, Parts
<1>5. \A i \in DOMAIN Hall \ {id} : dir[i] \in Objects \ {o}
  BY <1>2, OpenListed
<1>6. rest = {} <=> r.order = <<>>
  <2>1. r.order \in Seq(Users)
    BY <1>1 DEF Room
  <2>2. r.order # <<>> => 1 \in DOMAIN r.order
    BY <2>1
  <2>3. Members(r) = {} <=> DOMAIN r.order = {}
    BY DEF Members
  <2>4. QED  BY <1>1, <2>1, <2>2, <2>3
<1>7. /\ r.order = <<>> => dir' = [dir EXCEPT ![id] = None] /\ heap' = h
      /\ r.order # <<>> => dir' = dir /\ heap' \in {h, Settled(h, o)}
  BY <1>1, <1>2 DEF Depart
<1> HIDE DEF r, h
<1>8. CASE r.order = <<>>
  <2>1. OpenRooms!Close(id)
    BY <1>4, <1>5, <1>7, <1>8, HallCloses
  <2>2. QED  BY <2>1, OfOneRoom
<1>9. CASE r.order # <<>>
  <2>1. dir' = dir /\ heap' \in {h, Settled(h, o)}
    BY <1>7, <1>9
  <2>2. CASE heap' = h
    <3>1. Hall' = [i \in DOMAIN Hall \cup {id} |-> IF i = id THEN Outline(r) ELSE Hall[i]]
      BY <1>1, <1>2, <1>4, <2>1, <2>2, OneOutline DEF Listed
    <3>2. PICK w \in rest : w = r.ownerId
      BY <1>1, <1>2, <1>4, <2>1, <2>2, OpenListed DEF OwnerIsMember
    <3>3. Outline(r) = [members |-> rest, host |-> w, playing |-> Hall[id].playing]
      BY <1>1, <1>3, <3>2 DEF Outline
    <3>4. Hall' = [i \in DOMAIN Hall \cup {id} |->
                     IF i = id
                     THEN [members |-> Hall[id].members \ {u}, host |-> w,
                           playing |-> Hall[id].playing]
                     ELSE Hall[i]]
      BY <1>3, <3>1, <3>3
    <3>5. QED  BY <1>1, <1>3, <3>2, <3>4, OneLeaves
  <2>3. CASE heap' = Settled(h, o) /\ heap' # h
    <3>1. GameOver(r) /\ heap' = Ended(h, o)
      BY <1>4, <2>3 DEF Settled
    <3>2. /\ heap'[o] = EndState(ClearFlags(r), r)
          /\ \A x \in Objects \ {o} : heap'[x] = heap[x]
      BY <1>1, <1>2, <1>4, <3>1 DEF Ended
    <3>3. heap'[o].state # Playing /\ Members(heap'[o]) = rest
      <4>1. ClearFlags(r) \in Room /\ Members(ClearFlags(r)) = rest
        BY <1>1, FlagsType, MembersSameOrder DEF ClearFlags
      <4>2. QED  BY <1>1, <3>2, <4>1, EndStops
    <3>4. Hall' = [i \in DOMAIN Hall \cup {id} |->
                     IF i = id THEN Outline(heap'[o]) ELSE Hall[i]]
      BY <1>1, <1>2, <2>1, <3>2, OneOutline DEF Listed
    <3>5. PICK w \in rest : w = heap'[o].ownerId
      BY <1>2, <2>1, <3>3, OpenListed DEF OwnerIsMember
    <3>6. Outline(heap'[o]) = [members |-> rest, host |-> w, playing |-> FALSE]
      BY <3>3, <3>5 DEF Outline
    <3>7. Hall[id].playing
      <4>1. heap[o].state = Playing
        BY <1>1, <3>1 DEF GameOver
      <4>2. Hall[id] = [members |-> Members(heap[o]), host |-> heap[o].ownerId, playing |-> TRUE]
        BY <1>3, <4>1 DEF Outline
      <4>3. QED  BY <4>2
    <3>8. Hall' = [i \in DOMAIN Hall \cup {id} |->
                     IF i = id
                     THEN [members |-> Hall[id].members \ {u}, host |-> w, playing |-> FALSE]
                     ELSE Hall[i]]
      BY <1>3, <3>4, <3>6
    <3>9. QED  BY <1>1, <1>3, <3>5, <3>7, <3>8, LastOneLeaves
  <2>4. QED  BY <2>1, <2>2, <2>3
<1>10. QED  BY <1>8, <1>9

LEMMA NotIn ==
    ASSUME IInv, NEW u \in Users, RoomsOf(u) = {}
    PROVE  ~OpenRooms!In(u)
<1>1. \A i \in DOMAIN Hall : u \notin Hall[i].members
  <2>1. \A i \in DOMAIN Hall : Listed(dir[i]) /\ Hall[i].members = Members(heap[dir[i]])
    BY OpenListed DEF Listed, Outline
  <2>2. QED  BY <2>1, OpenListed DEF RoomsOf
<1>2. QED  BY <1>1 DEF OpenRooms!In, Hall

LEMMA CreateRoomLobby ==
    ASSUME IInv, NEW u \in Users, NEW id \in RoomIds, CreateRoom(u, id)
    PROVE  LobbyStep
<1> DEFINE n == created + 1
<1>1. /\ n \in Nat /\ n # None /\ n \notin Objects /\ dir[id] = None
      /\ \A o \in Objects : heap'[o] = heap[o]
      /\ heap'[n] = NewRoom(id, u)
      /\ dir' = [dir EXCEPT ![id] = n]
  BY Parts DEF CreateRoom, Objects, None
<1> HIDE DEF n
<1>2. \A i \in RoomIds : dir'[i] = IF i = id THEN n ELSE dir[i]
  BY <1>1, Parts
<1>3. id \notin DOMAIN Hall /\ {i \in RoomIds : dir'[i] # None} = DOMAIN Hall \cup {id}
  BY <1>1, <1>2, OpenListed
<1>4. Outline(NewRoom(id, u)) = [members |-> {u}, host |-> u, playing |-> FALSE]
  <2>1. NewRoom(id, u).state # Playing
    BY DEF NewRoom, Selecting, Playing
  <2>2. QED  BY <2>1, NewRoomType DEF Outline
<1>5. \A i \in DOMAIN Hall : Outline(heap'[dir'[i]]) = Hall[i]
  BY <1>1, <1>2, <1>3, OpenListed
<1>6. Hall' = [i \in DOMAIN Hall \cup {id} |->
                 IF i = id THEN [members |-> {u}, host |-> u, playing |-> FALSE] ELSE Hall[i]]
  <2>1. Hall' = [i \in DOMAIN Hall \cup {id} |-> Outline(heap'[dir'[i]])]
    BY <1>3 DEF Hall
  <2>2. Outline(heap'[dir'[id]]) = [members |-> {u}, host |-> u, playing |-> FALSE]
    BY <1>1, <1>2, <1>4
  <2>3. QED  BY <1>5, <2>1, <2>2
<1>7. OpenRooms!Becomes(id, {u}, u, FALSE)
  BY <1>6 DEF OpenRooms!Becomes, Hall
<1>8. ~OpenRooms!In(u)
  BY NotIn DEF CreateRoom
<1>9. OpenRooms!Open(u, id)
  BY <1>3, <1>7, <1>8 DEF OpenRooms!Open, Hall
<1>10. QED  BY <1>9 DEF LobbyStep, OpenRooms!Next

LEMMA JoinRoomLobby ==
    ASSUME IInv, NEW u \in Users, NEW id \in RoomIds, NEW m \in BOOLEAN, JoinRoom(u, id, m)
    PROVE  LobbyStep
<1> DEFINE o == dir[id]
           r == AddPlayer(heap[o], u, m)
<1>1. id \in DOMAIN Hall /\ o \in Objects /\ heap[o] \in Room /\ heap[o].id = id /\ Listed(o)
  BY OpenListed DEF JoinRoom, Listed
<1>2. /\ dir' = dir /\ heap' = [heap EXCEPT ![o] = r] /\ RoomsOf(u) = {}
      /\ heap[o].state.type = "SelectChart"
  BY DEF JoinRoom
<1>3. Members(r) = Members(heap[o]) \cup {u}
  <2>1. heap[o].order \in Seq(Users) /\ r.order = Append(heap[o].order, u)
    BY <1>1, AddPlayerType DEF Room
  <2>2. Members(heap[o]) = Elems(heap[o].order) /\ Members(r) = Elems(r.order)
    BY DEF Members, Elems
  <2>3. QED  BY <2>1, <2>2, AppendMembers
<1>4. r.ownerId = heap[o].ownerId /\ r.state = heap[o].state
  BY <1>1 DEF AddPlayer, Room
<1> HIDE DEF o, r
<1>5. heap[o].state # Playing
  BY <1>2 DEF Playing
<1>6. Hall[id] = [members |-> Members(heap[o]), host |-> heap[o].ownerId, playing |-> FALSE]
  BY <1>1, <1>5, OpenListed DEF Outline, o
<1>7. Outline(r) = [members |-> Hall[id].members \cup {u}, host |-> Hall[id].host,
                    playing |-> FALSE]
  <2>1. Hall[id].members = Members(heap[o]) /\ Hall[id].host = heap[o].ownerId
    BY <1>6
  <2>2. QED  BY <1>3, <1>4, <1>5, <2>1 DEF Outline
<1>8. heap'[o] = r /\ \A x \in Objects \ {o} : heap'[x] = heap[x]
  BY <1>1, <1>2, Parts
<1>9. Hall' = [i \in DOMAIN Hall \cup {id} |-> IF i = id THEN Outline(r) ELSE Hall[i]]
  <2>1. \A x \in Objects \ {o} : Outline(heap'[x]) = Outline(heap[x])
    BY <1>8
  <2>2. Hall' = [i \in DOMAIN Hall \cup {heap[o].id} |->
                   IF i = heap[o].id THEN Outline(heap'[o]) ELSE Hall[i]]
    BY <1>1, <1>2, <2>1, OneOutline
  <2>3. QED  BY <1>1, <1>8, <2>2
<1>10. OpenRooms!Becomes(id, Hall[id].members \cup {u}, Hall[id].host, FALSE)
  BY <1>7, <1>9 DEF OpenRooms!Becomes, Hall
<1>11. ~OpenRooms!In(u) /\ ~Hall[id].playing
  BY <1>2, <1>6, NotIn
<1>12. OpenRooms!Enter(u, id)
  BY <1>10, <1>11 DEF OpenRooms!Enter, Hall
<1>13. QED  BY <1>1, <1>12, OfOneRoom

LEMMA CloseRoomLobby ==
    ASSUME IInv, NEW id \in RoomIds, CloseRoom(id)
    PROVE  LobbyStep
<1>1. id \in DOMAIN Hall
  BY OpenListed DEF CloseRoom
<1>2. OpenRooms!Close(id)
  BY <1>1, HallCloses DEF CloseRoom
<1>3. QED  BY <1>1, <1>2, OfOneRoom

LEMMA ChartFetchedLobby ==
    ASSUME IInv, OwnerIsMember', NEW s \in Slots, ChartFetched(s)
    PROVE  LobbyStep
<1> DEFINE o == calls[s].room
           c == calls[s].chart
           t == dir[heap[o].id]
<1>1. o \in Objects
  <2>1. calls[s] \in Call \cup {Idle} /\ calls[s].kind = "chart"
    BY Parts DEF ChartFetched
  <2>2. QED  BY <2>1 DEF Call, Idle
<1>2. /\ dir' = dir
      /\ heap' = IF t = None THEN heap ELSE [heap EXCEPT ![t] = ChartSet(heap[t], c)]
  BY Parts DEF ChartFetched
<1>3. t \in Objects \cup {None}
  BY <1>1, Parts DEF Room
<1> HIDE DEF t, c
<1>4. CASE t = None
  BY <1>2, <1>4, SameHall DEF LobbyStep, OpenRooms!vars, Hall
<1>5. CASE t \in Objects
  <2>1. t # None /\ heap[t] \in Room
    BY <1>5, Parts DEF Objects, None
  <2>2. ChartSet(heap[t], c).order = heap[t].order /\ ChartSet(heap[t], c).ownerId = heap[t].ownerId
    BY <2>1 DEF ChartSet, Room
  <2>3. QED  BY <1>2, <1>5, <2>1, <2>2, RemainingLobby
<1>6. QED  BY <1>3, <1>4, <1>5

(* A result or an abort, for the PlayerInfo that is there or for none.     *)
LEMMA FinishesLobby ==
    ASSUME IInv, OwnerIsMember', dir' = dir, NEW o \in Objects, NEW fin \in SUBSET Users,
           \/ heap' = Settled([heap EXCEPT ![o] = [heap[o] EXCEPT !.finished = fin]], o)
           \/ heap' = Settled(heap, o)
    PROVE  LobbyStep
<1>1. heap[o] \in Room /\ heap = [heap EXCEPT ![o] = heap[o]]
  BY Parts
<1>2. ASSUME NEW s \in {heap[o], [heap[o] EXCEPT !.finished = fin]}
      PROVE  /\ s \in Room /\ s.id = heap[o].id /\ s.order = heap[o].order
             /\ s.ownerId = heap[o].ownerId /\ s.state = heap[o].state
  BY <1>1 DEF Room
<1>3. PICK s \in {heap[o], [heap[o] EXCEPT !.finished = fin]} :
        heap' = Settled([heap EXCEPT ![o] = s], o)
  BY <1>1
<1>4. QED  BY <1>2, <1>3, SettledLobby

LEMMA RecordFetchedLobby ==
    ASSUME IInv, OwnerIsMember', NEW s \in Slots, RecordFetched(s)
    PROVE  LobbyStep
<1> DEFINE o == calls[s].room
           fin == heap[o].finished \cup {calls[s].user}
<1>1. calls[s] \in [kind: {"record"}, room: Objects, user: Users, same: BOOLEAN]
  <2>1. calls[s] \in Call \cup {Idle} /\ calls[s].kind = "record"
    BY Parts DEF RecordFetched
  <2>2. QED  BY <2>1 DEF Call, Idle
<1>2. o \in Objects /\ fin \in SUBSET Users
  BY <1>1, Parts DEF Room
<1>3. \/ heap' = Settled([heap EXCEPT ![o] = [heap[o] EXCEPT !.finished = fin]], o)
      \/ heap' = Settled(heap, o)
  BY <1>2, Parts DEF RecordFetched
<1>4. dir' = dir
  BY DEF RecordFetched
<1> HIDE DEF o, fin
<1>5. QED  BY <1>2, <1>3, <1>4, FinishesLobby

LEMMA AbortLobby ==
    ASSUME IInv, OwnerIsMember', NEW u \in Users, Abort(u)
    PROVE  LobbyStep
<1>1. PICK o \in RoomsOf(u) :
        heap' = Settled([heap EXCEPT ![o] = [heap[o] EXCEPT !.finished = @ \cup {u}]], o)
  BY Parts DEF Abort
<1>2. o \in Objects /\ heap[o].finished \cup {u} \in SUBSET Users
  BY Parts DEF Room, RoomsOf
<1>3. dir' = dir
  BY DEF Abort
<1>4. QED  BY <1>1, <1>2, <1>3, FinishesLobby

LEMMA SetListLobby ==
    ASSUME IInv, OwnerIsMember', NEW id \in RoomIds, NEW kind \in {"blacklist", "whitelist"},
           NEW list \in Lists, NEW s \in Slots, SetList(id, kind, list, s)
    PROVE  LobbyStep
<1> DEFINE o == dir[id]
           r == IF kind = "blacklist" THEN [heap[o] EXCEPT !.blacklist = list]
                ELSE [heap[o] EXCEPT !.whitelist = list]
<1>1. o \in Objects /\ heap[o] \in Room /\ dir' = dir /\ heap' = [heap EXCEPT ![o] = r]
  BY Parts DEF SetList
<1>2. r.order = heap[o].order /\ r.ownerId = heap[o].ownerId
  BY <1>1 DEF Room
<1> HIDE DEF o, r
<1>3. QED  BY <1>1, <1>2, RemainingLobby

(* Steps that leave the rooms alone.                                       *)
LEMMA RoomsAloneLobby ==
    ASSUME IInv, UNCHANGED <<heap, dir>>
    PROVE  LobbyStep
BY SameHall DEF LobbyStep, OpenRooms!vars, Hall

LEMMA RemainingStep ==
    ASSUME IInv, OwnerIsMember', dir' = dir,
           \E o \in Objects : \E s : Remains(heap[o], s) /\ heap' = [heap EXCEPT ![o] = s]
    PROVE  LobbyStep
BY RemainingLobby DEF Remains

LEMMA NextLobby == IInv /\ [Next]_vars => LobbyStep
<1> SUFFICES ASSUME IInv, [Next]_vars  PROVE LobbyStep
  OBVIOUS
<1>0. OwnerIsMember'
  BY NextInvariant DEF IInv
<1>1. CASE Sweeping /\ SweepNext
  <2>1. Head(sweep.todo) \in Users
    BY <1>1, Parts DEF Sweeping, Sweeps
  <2>2. QED  BY <1>0, <1>1, <2>1, DepartLobby, RoomsAloneLobby DEF SweepNext
<1>2. CASE PlayerStep
  <2>1. ASSUME NEW u \in Users, NEW id \in RoomIds, CreateRoom(u, id)  PROVE LobbyStep
    BY <2>1, CreateRoomLobby
  <2>2. ASSUME NEW u \in Users, NEW id \in RoomIds, NEW m \in BOOLEAN, JoinRoom(u, id, m)
        PROVE  LobbyStep
    BY <2>2, JoinRoomLobby
  <2>3. ASSUME NEW u \in Users, LeaveRoom(u) \/ Disconnect(u)  PROVE LobbyStep
    BY <1>0, <2>3, DepartLobby DEF LeaveRoom, Disconnect
  <2>4. ASSUME NEW u \in Users,
               \/ \E b \in BOOLEAN : CycleRoom(u, b)
               \/ RequestStart(u) \/ Ready(u) \/ CancelReady(u)
        PROVE  LobbyStep
    <3>1. dir' = dir
      BY <2>4 DEF CycleRoom, RequestStart, Ready, CancelReady
    <3>2. QED  BY <1>0, <2>4, <3>1, RoomCommandsRemain, RemainingStep DEF RoomsOf
  <2>5. ASSUME NEW u \in Users, Abort(u)  PROVE LobbyStep
    BY <1>0, <2>5, AbortLobby
  <2>6. ASSUME NEW u \in Users, NEW s \in Slots, Played(u, s) \/ \E c \in Charts : SelectChart(u, c, s)
        PROVE  LobbyStep
    BY <2>6, RoomsAloneLobby DEF Played, SelectChart
  <2>7. ASSUME NEW s \in Slots, ChartFetched(s) \/ RecordFetched(s) \/ FetchFails(s)
        PROVE  LobbyStep
    BY <1>0, <2>7, ChartFetchedLobby, RecordFetchedLobby, RoomsAloneLobby DEF FetchFails
  <2>8. QED  BY <1>2, <2>1, <2>2, <2>3, <2>4, <2>5, <2>6, <2>7 DEF PlayerStep, Joins, Commands
<1>3. CASE AccessStep
  <2>1. ASSUME NEW u \in Users, NEW b \in BOOLEAN, LockRoom(u, b)  PROVE LobbyStep
    <3>1. dir' = dir
      BY <2>1 DEF LockRoom
    <3>2. QED  BY <1>0, <2>1, <3>1, RoomCommandsRemain, RemainingStep DEF RoomsOf
  <2>2. ASSUME NEW id \in RoomIds, ToggleRoomLock(id) \/ \E n \in Capacities : SetRoomMaxPlayers(id, n)
        PROVE  LobbyStep
    <3>1. dir' = dir
      BY <2>2 DEF ToggleRoomLock, SetRoomMaxPlayers
    <3>2. QED  BY <1>0, <2>2, <3>1, RoomSettingsRemain, RemainingStep
  <2>3. ASSUME NEW id \in RoomIds, NEW s \in Slots, NEW list \in Lists,
               NEW kind \in {"blacklist", "whitelist"}, SetList(id, kind, list, s)
        PROVE  LobbyStep
    BY <1>0, <2>3, SetListLobby
  <2>4. ASSUME NEW s \in Slots, NamesFetched(s)  PROVE LobbyStep
    BY <2>4, RoomsAloneLobby DEF NamesFetched
  <2>5. ASSUME NEW b \in BOOLEAN, SetGlobalLocked(b)  PROVE LobbyStep
    BY <2>5, RoomsAloneLobby DEF SetGlobalLocked
  <2>6. QED  BY <1>3, <2>1, <2>2, <2>3, <2>4, <2>5 DEF AccessStep
<1>4. CASE AdminStep
  <2>1. ASSUME NEW id \in RoomIds, ForceStart(id) \/ ToggleRoomMode(id)  PROVE LobbyStep
    <3>1. dir' = dir
      BY <2>1 DEF ForceStart, ToggleRoomMode
    <3>2. QED  BY <1>0, <2>1, <3>1, RoomSettingsRemain, RemainingStep
  <2>2. ASSUME NEW id \in RoomIds, CloseRoom(id)  PROVE LobbyStep
    BY <2>2, CloseRoomLobby
  <2>3. ASSUME NEW u \in Users, Kick(u)  PROVE LobbyStep
    BY <1>0, <2>3, DepartLobby DEF Kick
  <2>4. QED  BY <1>4, <2>1, <2>2, <2>3 DEF AdminStep
<1>5. CASE UNCHANGED vars
  BY <1>5, RoomsAloneLobby DEF vars
<1>6. QED  BY <1>1, <1>2, <1>3, <1>4, <1>5 DEF Next

(* The rooms of RoomServer, with any users, rooms, calls in flight, lists  *)
(* and administrators, and ids used again under waiting handlers,          *)
(* implement Lobby: each step of each handler is one step of one room at   *)
(* most.                                                                   *)
THEOREM LobbyImplemented == Spec => LobbyExact
<1>1. Init => OpenRooms!Init
  <2>1. Init => {i \in RoomIds : dir[i] # None} = {}
    BY DEF Init
  <2>2. QED  BY <2>1 DEF OpenRooms!Init
<1>2. IInv /\ [Next]_vars => [OpenRooms!Next]_(OpenRooms!vars)
  BY NextLobby DEF LobbyStep
<1>3. QED  BY <1>1, <1>2, Inductive, PTL DEF Spec, LobbyExact, OpenRooms!Spec
=============================================================================
