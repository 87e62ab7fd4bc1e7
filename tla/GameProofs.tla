----------------------------- MODULE GameProofs -----------------------------
(* How games of RoomServer start and end, and what the clients in a room   *)
(* are told of it, for all values of the constants.                        *)
EXTENDS RoomServerProofs, GameHistory, WellFoundedInduction

(* Everybody who could end the game has finished, and the game is still    *)
(* on: nobody's message will reach checkGameEnd any more.                  *)
Endless(r) == r.state = Playing /\ Active(r) # {} /\ Active(r) \subseteq r.finished

LEMMA NotEndless == GameCanEnd <=> \A o \in Objects : Listed(o) => ~Endless(heap[o])
BY DEF GameCanEnd, Endless, GameOver

LEMMA StatesApart == Waiting # Playing /\ \A c : Selecting(c) # Playing
BY DEF Waiting, Playing, Selecting

-----------------------------------------------------------------------------
(* What the operators of Rooms do to a game.                               *)

LEMMA ElsewhereNotEndless ==
    ASSUME NEW r \in Room, NEW rdy \in SUBSET Users, NEW fin \in SUBSET Users, NEW c
    PROVE  /\ ~Endless([SetFlags(r, rdy, fin) EXCEPT !.state = Waiting])
           /\ ~Endless([SetFlags(r, rdy, fin) EXCEPT !.state = Selecting(c),
                                                     !.soloConfirmPending = FALSE])
           /\ ~Endless(ChartSet(r, c))
           /\ r.state # Playing => ~Endless(SetFlags(r, rdy, fin))
BY StatesApart DEF Endless, SetFlags, ChartSet, Room

(* Nobody has finished when a game starts.                                 *)
LEMMA StartNotEndless ==
    ASSUME NEW r \in Room, NEW rdy \in SUBSET Users
    PROVE  /\ ~Endless(StartPlaying(r, rdy, {}))
           /\ ~Endless([StartPlaying(r, rdy, {}) EXCEPT !.soloConfirmPending = FALSE])
<1> DEFINE s == StartPlaying(r, rdy, {})
           t == [s EXCEPT !.soloConfirmPending = FALSE]
<1>1. s.finished = {} /\ t.finished = {}
  BY DEF StartPlaying, SetFlags, Room
<1> HIDE DEF s, t
<1>2. ~Endless(s) /\ ~Endless(t)
  BY <1>1 DEF Endless
<1>3. QED  BY <1>2 DEF s, t

LEMMA SameGame ==
    ASSUME NEW r \in Room, NEW x
    PROVE  /\ Endless([r EXCEPT !.cycle = x]) => Endless(r)
           /\ Endless([r EXCEPT !.soloConfirmPending = x]) => Endless(r)
           /\ r.state # Playing => ~Endless([r EXCEPT !.ready = x])
BY DEF Endless, Active, Members, Room

LEMMA EndStateNotEndless ==
    ASSUME NEW a \in Room, NEW r \in Room
    PROVE  ~Endless(EndState(a, r))
<1>1. CASE r.cycle
  <2> DEFINE h == IF Rotates(r) /\ NextHost(r) \in Members(a) THEN NextHost(r) ELSE a.ownerId
  <2>1. EndState(a, r) = [a EXCEPT !.ownerId = h, !.state = Waiting]
    BY <1>1 DEF EndState, Room
  <2> HIDE DEF h
  <2>2. QED  BY <2>1, StatesApart DEF Endless, Room
<1>2. CASE ~r.cycle
  BY <1>2, StatesApart DEF EndState, Endless, Room
<1>3. QED  BY <1>1, <1>2

(* After checkGameEnd the registered room o is not endless, and no other   *)
(* has become so.                                                          *)
LEMMA SettledNotEndless ==
    ASSUME NEW n \in Nat, NEW h \in [1..n -> Room], NEW o \in 1..n, NEW x \in 1..n,
           x = dir[h[x].id]
    PROVE  /\ x = o => ~Endless(Settled(h, o)[x])
           /\ Endless(Settled(h, o)[x]) => Endless(h[x])
<1>1. CASE ~GameOver(h[o])
  <2>1. ~Endless(h[o])
    BY <1>1 DEF Endless, GameOver
  <2>2. QED  BY <1>1, <2>1 DEF Settled
<1>2. CASE GameOver(h[o])
  <2> DEFINE a == IF x = o THEN ClearFlags(h[x]) ELSE h[x]
  <2>1. a \in Room
    BY FlagsType DEF ClearFlags
  <2>2. Settled(h, o)[x] = IF x = dir[h[o].id] THEN EndState(a, h[o]) ELSE a
    BY <1>2 DEF Settled, Ended
  <2>3. x = o => x = dir[h[o].id]
    OBVIOUS
  <2>4. CASE x = dir[h[o].id]
    <3> HIDE DEF a
    <3>1. QED  BY <2>1, <2>2, <2>4, EndStateNotEndless
  <2>5. CASE x # dir[h[o].id]
    BY <2>2, <2>3, <2>5
  <2>6. QED  BY <2>4, <2>5
<1>3. QED  BY <1>1, <1>2

-----------------------------------------------------------------------------
(* Steps that create no room.                                              *)
LEMMA NoWorse ==
    ASSUME IInv, GameCanEnd, created' = created,
           \A id \in RoomIds : dir'[id] \in {dir[id], None},
           \A o \in Objects : /\ heap'[o].id = heap[o].id
                              /\ Listed(o)' => (Endless(heap'[o]) => Endless(heap[o]))
    PROVE  GameCanEnd'
<1>1. Objects' = Objects
  BY DEF Objects
<1>2. ASSUME NEW o \in Objects, Listed(o)'
      PROVE  ~Endless(heap'[o])
  <2>1. heap[o].id \in RoomIds /\ o # None
    BY Parts DEF Room, Objects, None
  <2>2. Listed(o)
    BY <1>2, <2>1 DEF Listed
  <2>3. QED  BY <1>2, <2>2, NotEndless
<1>3. QED  BY <1>1, <1>2 DEF GameCanEnd, Endless, GameOver, Active, Members

LEMMA OneRoomNoWorse ==
    ASSUME IInv, GameCanEnd, created' = created, dir' = dir, NEW o \in Objects, NEW s,
           s.id = heap[o].id, Endless(s) => Endless(heap[o]),
           heap' = [heap EXCEPT ![o] = s]
    PROVE  GameCanEnd'
<1>1. \A x \in Objects : /\ heap'[x].id = heap[x].id
                         /\ Endless(heap'[x]) => Endless(heap[x])
  BY Parts
<1>2. QED  BY <1>1, NoWorse

(* Object o becomes s, and checkGameEnd runs.                              *)
LEMMA SettledNoWorse ==
    ASSUME IInv, GameCanEnd, created' = created, dir' = dir, NEW o \in Objects,
           NEW s \in Room, s.id = heap[o].id,
           heap' = Settled([heap EXCEPT ![o] = s], o)
    PROVE  GameCanEnd'
<1> DEFINE h == [heap EXCEPT ![o] = s]
<1>1. /\ created \in Nat /\ o \in 1..created /\ h \in [1..created -> Room]
      /\ \A x \in Objects : h[x].id = heap[x].id /\ (x # o => h[x] = heap[x])
  BY Parts DEF Objects
<1> HIDE DEF h
<1>2. \A x \in Objects : heap'[x].id = h[x].id
  BY <1>1, SettledKeeps DEF h, Keeps, Objects
<1>3. ASSUME NEW x \in Objects, Listed(x)', Endless(heap'[x])
      PROVE  Endless(heap[x])
  <2>1. x = dir[h[x].id]
    BY <1>1, <1>2, <1>3 DEF Listed
  <2>2. x # o /\ Endless(h[x])
    BY <1>1, <1>3, <2>1, SettledNotEndless DEF h, Objects
  <2>3. QED  BY <1>1, <2>2
<1>4. \A id \in RoomIds : dir'[id] \in {dir[id], None}
  OBVIOUS
<1>5. QED  BY <1>1, <1>2, <1>3, <1>4, NoWorse

LEMMA RoomsAlone ==
    ASSUME IInv, GameCanEnd, UNCHANGED <<created, heap, dir>>
    PROVE  GameCanEnd'
BY DEF GameCanEnd, Listed, Objects

-----------------------------------------------------------------------------
(* The steps one by one. *)

LEMMA CreateRoomGame ==
    ASSUME IInv, GameCanEnd, NEW u \in Users, NEW id \in RoomIds, CreateRoom(u, id)
    PROVE  GameCanEnd'
<1> DEFINE n == created + 1
<1>1. n \in Nat /\ n \notin Objects /\ Objects' = Objects \cup {n} /\ None \notin Objects
  BY Parts DEF CreateRoom, Objects, None
<1>2. /\ \A o \in Objects : heap'[o] = heap[o]
      /\ heap'[n] = NewRoom(id, u)
      /\ dir' = [dir EXCEPT ![id] = n]
  BY <1>1 DEF CreateRoom, Objects
<1> HIDE DEF n
<1>3. ~Endless(heap'[n])
  BY <1>2, StatesApart DEF Endless, NewRoom
<1>4. ASSUME NEW o \in Objects, Listed(o)'
      PROVE  ~Endless(heap'[o])
  <2>1. heap[o].id \in RoomIds
    BY Parts DEF Room
  <2>2. Listed(o)
    BY <1>1, <1>2, <1>4, <2>1, Parts DEF Listed
  <2>3. QED  BY <1>2, <2>2, NotEndless
<1>5. QED  BY <1>1, <1>3, <1>4 DEF GameCanEnd, Endless, GameOver, Active, Members

(* Nobody comes in while a game is on.                                     *)
LEMMA JoinRoomGame ==
    ASSUME IInv, GameCanEnd, NEW u \in Users, NEW id \in RoomIds, NEW m \in BOOLEAN,
           JoinRoom(u, id, m)
    PROVE  GameCanEnd'
<1> DEFINE o == dir[id]
           s == AddPlayer(heap[o], u, m)
<1>1. /\ o \in Objects /\ heap[o] \in Room /\ heap[o].state.type = "SelectChart"
      /\ heap' = [heap EXCEPT ![o] = s] /\ UNCHANGED <<created, dir>>
  BY Parts DEF JoinRoom
<1>2. s.id = heap[o].id /\ s.state = heap[o].state
  BY <1>1 DEF AddPlayer, Room
<1> HIDE DEF o, s
<1>3. ~Endless(s)
  BY <1>1, <1>2 DEF Endless, Playing
<1>4. QED  BY <1>1, <1>2, <1>3, OneRoomNoWorse

(* Leaving and disconnecting: an emptied room is not registered any more,  *)
(* in any other the end of the game is looked for.                         *)
LEMMA DepartGame ==
    ASSUME IInv, GameCanEnd, created' = created,
           NEW u \in Users, NEW o \in RoomsOf(u), Depart(u, o, TRUE)
    PROVE  GameCanEnd'
<1> DEFINE r == RemovePlayer(heap[o], u)
<1>1. o \in Objects /\ heap[o] \in Room /\ r \in Room /\ r.id = heap[o].id
      /\ heap[o].id \in RoomIds
  BY Parts, RemovePlayerType DEF Room
<1>2. /\ r.order = <<>> => /\ dir' = [dir EXCEPT ![r.id] = None]
                           /\ heap' = [heap EXCEPT ![o] = r]
      /\ r.order # <<>> => /\ dir' = dir
                           /\ heap' = Settled([heap EXCEPT ![o] = r], o)
  BY DEF Depart
<1> HIDE DEF r
<1>3. CASE r.order # <<>>
  BY <1>1, <1>2, <1>3, SettledNoWorse
<1>4. CASE r.order = <<>>
  <2>1. \A id \in RoomIds : dir'[id] \in {dir[id], None}
    BY <1>2, <1>4, Parts
  <2>2. dir'[heap'[o].id] = None /\ o # None
    BY <1>1, <1>2, <1>4, Parts DEF Objects, None
  <2>3. \A x \in Objects : heap'[x].id = heap[x].id /\ (x # o => heap'[x] = heap[x])
    BY <1>1, <1>2, <1>4, Parts
  <2>4. ~Listed(o)'
    BY <2>2 DEF Listed
  <2>5. QED  BY <2>1, <2>3, <2>4, NoWorse
<1>5. QED  BY <1>3, <1>4

LEMMA CommandsGame ==
    ASSUME IInv, GameCanEnd, NEW u \in Users,
           \/ \E b \in BOOLEAN : CycleRoom(u, b)
           \/ RequestStart(u) \/ Ready(u) \/ CancelReady(u)
    PROVE  GameCanEnd'
<1>1. UNCHANGED <<created, dir>>
  BY DEF CycleRoom, RequestStart, Ready, CancelReady
<1>2. \A o \in RoomsOf(u) : /\ o \in Objects /\ heap[o] \in Room
                            /\ heap[o].ready \in SUBSET Users /\ heap[o].finished \in SUBSET Users
  BY Parts DEF Room
<1>3. ASSUME NEW o \in RoomsOf(u), NEW s, Keeps(heap[o], s), Endless(s) => Endless(heap[o]),
             heap' = [heap EXCEPT ![o] = s]
      PROVE  GameCanEnd'
  BY <1>1, <1>2, <1>3, OneRoomNoWorse DEF Keeps
<1>4. ASSUME NEW b \in BOOLEAN, CycleRoom(u, b)
      PROVE  GameCanEnd'
  <2>1. PICK o \in RoomsOf(u) : heap' = [heap EXCEPT ![o] = [heap[o] EXCEPT !.cycle = b]]
    BY <1>2, <1>4, Parts DEF CycleRoom
  <2>2. Keeps(heap[o], [heap[o] EXCEPT !.cycle = b])
    BY <1>2 DEF Keeps, Room
  <2>3. QED  BY <1>2, <1>3, <2>1, <2>2, SameGame
<1>5. CASE RequestStart(u)
  <2>1. PICK o \in RoomsOf(u) :
          LET r == heap[o] IN
          \/ heap' = [heap EXCEPT ![o] = [SetFlags(r, {u}, {}) EXCEPT !.state = Waiting]]
          \/ /\ Len(r.order) <= 1
             /\ heap' = [heap EXCEPT ![o] = [r EXCEPT !.soloConfirmPending = TRUE]]
          \/ heap' = [heap EXCEPT ![o] = [StartPlaying(r, {}, {}) EXCEPT !.soloConfirmPending = FALSE]]
    BY <1>2, <1>5, Parts DEF RequestStart, Announce
  <2>2. CASE heap' = [heap EXCEPT ![o] = [SetFlags(heap[o], {u}, {}) EXCEPT !.state = Waiting]]
    <3>1. {u} \in SUBSET Users /\ {} \in SUBSET Users
      OBVIOUS
    <3>2. Keeps(heap[o], [SetFlags(heap[o], {u}, {}) EXCEPT !.state = Waiting])
      BY <1>2, <3>1, StartKeeps, StatesTyped
    <3>3. ~Endless([SetFlags(heap[o], {u}, {}) EXCEPT !.state = Waiting])
      BY <1>2, <3>1, ElsewhereNotEndless
    <3>4. QED  BY <1>3, <2>2, <3>2, <3>3
  <2>3. CASE /\ Len(heap[o].order) <= 1
             /\ heap' = [heap EXCEPT ![o] = [heap[o] EXCEPT !.soloConfirmPending = TRUE]]
    BY <1>2, <1>3, <2>3, StartKeeps, StatesTyped, SameGame
  <2>4. CASE heap' = [heap EXCEPT ![o] =
                        [StartPlaying(heap[o], {}, {}) EXCEPT !.soloConfirmPending = FALSE]]
    BY <1>2, <1>3, <2>4, StartKeeps, StatesTyped, StartNotEndless
  <2>5. QED  BY <2>1, <2>2, <2>3, <2>4
<1>6. CASE Ready(u)
  <2>1. PICK o \in RoomsOf(u) :
          LET r == heap[o]
              rdy == heap[o].ready \cup {u} IN
          /\ r.state = Waiting
          /\ \/ heap' = [heap EXCEPT ![o] = StartPlaying(r, rdy, {})]
             \/ heap' = [heap EXCEPT ![o] = [r EXCEPT !.ready = rdy]]
    BY <1>2, <1>6, Parts DEF Ready, Announce
  <2> DEFINE rdy == heap[o].ready \cup {u}
  <2>2. rdy \in SUBSET Users
    BY <1>2
  <2> HIDE DEF rdy
  <2>3. CASE heap' = [heap EXCEPT ![o] = StartPlaying(heap[o], rdy, {})]
    BY <1>2, <1>3, <2>2, <2>3, StartKeeps, StatesTyped, StartNotEndless
  <2>4. CASE heap' = [heap EXCEPT ![o] = [heap[o] EXCEPT !.ready = rdy]]
    <3>1. Keeps(heap[o], [heap[o] EXCEPT !.ready = rdy])
      BY <1>2, <2>2, StartKeeps, StatesTyped
    <3>2. ~Endless([heap[o] EXCEPT !.ready = rdy])
      BY <1>2, <2>1, SameGame, StatesApart
    <3>3. QED  BY <1>3, <2>4, <3>1, <3>2
  <2>5. QED  BY <2>1, <2>3, <2>4 DEF rdy
<1>7. CASE CancelReady(u)
  <2>1. PICK o \in RoomsOf(u) :
          LET r == heap[o] IN
          /\ r.state = Waiting
          /\ \/ heap' = [heap EXCEPT ![o] = [SetFlags(r, {}, {}) EXCEPT
                            !.state = Selecting(r.selectedChart), !.soloConfirmPending = FALSE]]
             \/ heap' = [heap EXCEPT ![o] = SetFlags(r, r.ready \ {u}, r.finished \ {u})]
    BY <1>2, <1>7, Parts DEF CancelReady, Announce, ClearFlags
  <2> DEFINE st == Selecting(heap[o].selectedChart)
  <2>2. st \in RoomState
    BY <1>2, StatesTyped DEF Room
  <2>3. CASE heap' = [heap EXCEPT ![o] =
                        [SetFlags(heap[o], {}, {}) EXCEPT !.state = st, !.soloConfirmPending = FALSE]]
    <3>1. ~Endless([SetFlags(heap[o], {}, {}) EXCEPT !.state = st, !.soloConfirmPending = FALSE])
      BY <1>2, ElsewhereNotEndless
    <3> HIDE DEF st
    <3>2. QED  BY <1>2, <1>3, <2>2, <2>3, <3>1, StartKeeps
  <2>4. CASE heap' = [heap EXCEPT ![o] =
                        SetFlags(heap[o], heap[o].ready \ {u}, heap[o].finished \ {u})]
    <3>1. heap[o].ready \ {u} \in SUBSET Users /\ heap[o].finished \ {u} \in SUBSET Users
      BY <1>2
    <3>2. Keeps(heap[o], SetFlags(heap[o], heap[o].ready \ {u}, heap[o].finished \ {u}))
      BY <1>2, <3>1, StartKeeps, StatesTyped
    <3>3. ~Endless(SetFlags(heap[o], heap[o].ready \ {u}, heap[o].finished \ {u}))
      BY <1>2, <2>1, <3>1, ElsewhereNotEndless, StatesApart
    <3>4. QED  BY <1>3, <2>4, <3>2, <3>3
  <2>5. QED  BY <2>1, <2>3, <2>4
<1>8. QED  BY <1>4, <1>5, <1>6, <1>7

LEMMA AbortGame ==
    ASSUME IInv, GameCanEnd, NEW u \in Users, Abort(u)
    PROVE  GameCanEnd'
<1>1. PICK o \in RoomsOf(u) : heap' = Settled([heap EXCEPT ![o].finished = @ \cup {u}], o)
  BY DEF Abort
<1>2. o \in Objects /\ heap[o] \in Room
  BY Parts
<1> DEFINE fin == heap[o].finished \cup {u}
           s == [heap[o] EXCEPT !.finished = fin]
<1>3. fin \in SUBSET Users
  BY <1>2 DEF Room
<1>4. heap' = Settled([heap EXCEPT ![o] = s], o)
  BY <1>1, <1>2, Parts
<1> HIDE DEF fin
<1>5. s \in Room /\ s.id = heap[o].id
  BY <1>2, <1>3 DEF Room
<1>6. UNCHANGED <<created, dir>>
  BY DEF Abort
<1> HIDE DEF s
<1>7. QED  BY <1>2, <1>4, <1>5, <1>6, SettledNoWorse

(* A chart that comes late ends the game of whatever room is there.        *)
LEMMA ChartFetchedGame ==
    ASSUME IInv, GameCanEnd, NEW s \in Slots, ChartFetched(s)
    PROVE  GameCanEnd'
<1> DEFINE o == calls[s].room
           c == calls[s].chart
           t == dir[heap[o].id]
<1>1. UNCHANGED <<created, dir>>
  BY DEF ChartFetched
<1>2. o \in Objects
  <2>1. calls[s] \in Call \cup {Idle} /\ calls[s].kind = "chart"
    BY Parts DEF ChartFetched
  <2>2. QED  BY <2>1 DEF Call, Idle
<1>3. heap' = IF t = None THEN heap ELSE [heap EXCEPT ![t] = ChartSet(heap[t], c)]
  BY Parts DEF ChartFetched
<1>4. t \in Objects \cup {None}
  BY <1>2, Parts DEF Room
<1> HIDE DEF t, c
<1>5. CASE t = None
  BY <1>1, <1>3, <1>5, RoomsAlone
<1>6. CASE t \in Objects
  <2>1. t # None /\ heap[t] \in Room
    BY <1>6, Parts DEF Objects, None
  <2>2. ~Endless(ChartSet(heap[t], c)) /\ ChartSet(heap[t], c).id = heap[t].id
    BY <2>1, ElsewhereNotEndless DEF ChartSet, Room
  <2>3. QED  BY <1>1, <1>3, <1>6, <2>1, <2>2, OneRoomNoWorse
<1>7. QED  BY <1>4, <1>5, <1>6

LEMMA RecordFetchedGame ==
    ASSUME IInv, GameCanEnd, NEW s \in Slots, RecordFetched(s)
    PROVE  GameCanEnd'
<1> DEFINE o == calls[s].room
           fin == heap[o].finished \cup {calls[s].user}
           r == IF calls[s].same THEN [heap[o] EXCEPT !.finished = fin] ELSE heap[o]
<1>1. calls[s] \in [kind: {"record"}, room: Objects, user: Users, same: BOOLEAN]
  <2>1. calls[s] \in Call \cup {Idle} /\ calls[s].kind = "record"
    BY Parts DEF RecordFetched
  <2>2. QED  BY <2>1 DEF Call, Idle
<1>2. o \in Objects /\ heap[o] \in Room /\ fin \in SUBSET Users
  BY <1>1, Parts DEF Room
<1>3. (IF calls[s].same THEN [heap EXCEPT ![o].finished = @ \cup {calls[s].user}] ELSE heap)
        = [heap EXCEPT ![o] = r]
  BY <1>2, Parts
<1>4. heap' = Settled([heap EXCEPT ![o] = r], o) /\ UNCHANGED <<created, dir>>
  BY <1>3 DEF RecordFetched
<1> HIDE DEF fin
<1>5. r \in Room /\ r.id = heap[o].id
  <2>1. [heap[o] EXCEPT !.finished = fin] \in Room /\ [heap[o] EXCEPT !.finished = fin].id = heap[o].id
    BY <1>2 DEF Room
  <2>2. QED  BY <1>2, <2>1
<1> HIDE DEF r
<1>6. QED  BY <1>2, <1>4, <1>5, SettledNoWorse

-----------------------------------------------------------------------------
LEMMA InitGame == Init => GameCanEnd
<1>1. Init => Objects = {}
  BY DEF Init, Objects
<1>2. QED  BY <1>1 DEF GameCanEnd

LEMMA PlayerGame == IInv /\ GameCanEnd /\ [PlayerStep]_vars => GameCanEnd'
<1> SUFFICES ASSUME IInv, GameCanEnd, [PlayerStep]_vars  PROVE GameCanEnd'
  OBVIOUS
<1>1. ASSUME NEW u \in Users, NEW id \in RoomIds, CreateRoom(u, id)  PROVE GameCanEnd'
  BY <1>1, CreateRoomGame
<1>2. ASSUME NEW u \in Users, NEW id \in RoomIds, NEW m \in BOOLEAN, JoinRoom(u, id, m)
      PROVE  GameCanEnd'
  BY <1>2, JoinRoomGame
<1>3. ASSUME NEW u \in Users, LeaveRoom(u) \/ Disconnect(u)  PROVE GameCanEnd'
  BY <1>3, DepartGame DEF LeaveRoom, Disconnect
<1>4. ASSUME NEW u \in Users,
             \/ \E b \in BOOLEAN : CycleRoom(u, b)
             \/ RequestStart(u) \/ Ready(u) \/ CancelReady(u)
      PROVE  GameCanEnd'
  BY <1>4, CommandsGame
<1>5. ASSUME NEW u \in Users, Abort(u)  PROVE GameCanEnd'
  BY <1>5, AbortGame
<1>6. ASSUME NEW u \in Users, NEW s \in Slots, Played(u, s) \/ \E c \in Charts : SelectChart(u, c, s)
      PROVE  GameCanEnd'
  BY <1>6, RoomsAlone DEF Played, SelectChart
<1>7. ASSUME NEW s \in Slots, ChartFetched(s) \/ RecordFetched(s) \/ FetchFails(s)
      PROVE  GameCanEnd'
  BY <1>7, ChartFetchedGame, RecordFetchedGame, RoomsAlone DEF FetchFails
<1>8. CASE UNCHANGED vars
  BY <1>8, RoomsAlone DEF vars
<1>9. QED
  BY <1>1, <1>2, <1>3, <1>4, <1>5, <1>6, <1>7, <1>8 DEF PlayerStep, Joins, Commands

(* Without administrators there is never a list to enforce.                *)
LEMMA NoLoop == IInv /\ sweep = NoSweep /\ [PlayerStep]_vars => [Next]_vars /\ sweep' = NoSweep
<1> SUFFICES ASSUME sweep = NoSweep, [PlayerStep]_vars  PROVE [Next]_vars /\ sweep' = NoSweep
  OBVIOUS
<1>1. ~Sweeping
  BY DEF Sweeping, NoSweep
<1>2. CASE PlayerStep
  <2>1. sweep' = sweep
    BY <1>2 DEF PlayerStep, Joins, Commands, CreateRoom, JoinRoom, LeaveRoom, Disconnect,
                CycleRoom, RequestStart, Ready, CancelReady, Abort, Played, SelectChart,
                ChartFetched, RecordFetched, FetchFails
  <2>2. QED  BY <1>1, <1>2, <2>1 DEF Next
<1>3. QED  BY <1>2 DEF vars

(* A game among players can always end, for any number of them and of      *)
(* rooms, however they leave, disconnect, join again and change the host,  *)
(* and whatever results and charts come late, even for a room whose id is  *)
(* used again (checkGameEnd after every way out of a game).                *)
THEOREM GamesCanAlwaysEnd == GameSpec => []GameCanEnd
<1> DEFINE GInv == IInv /\ sweep = NoSweep /\ GameCanEnd
<1>1. Init => GInv
  BY InitInvariant, InitGame DEF Init
<1>2. GInv /\ [PlayerStep]_vars => GInv'
  BY NoLoop, NextInvariant, PlayerGame
<1>3. GInv => GameCanEnd
  OBVIOUS
<1> HIDE DEF GInv
<1>4. QED  BY <1>1, <1>2, <1>3, PTL DEF GameSpec

-----------------------------------------------------------------------------
(* How games start. *)

Fresh == \A o \in Objects : StartsPlaying(o) => heap'[o].finished = {}

LEMMA OneRoomFresh ==
    ASSUME IInv, NEW o \in Objects, NEW s, heap' = [heap EXCEPT ![o] = s],
           s.state = Playing => heap[o].state = Playing \/ s.finished = {}
    PROVE  Fresh
BY Parts DEF Fresh, StartsPlaying

LEMMA RoomsAloneFresh == ASSUME heap' = heap  PROVE Fresh
BY DEF Fresh, StartsPlaying

(* The end of a game starts none, in no object.                            *)
LEMMA SettledStartsNone ==
    ASSUME NEW n \in Nat, NEW h \in [1..n -> Room], NEW o \in 1..n, NEW x \in 1..n,
           Settled(h, o)[x].state = Playing
    PROVE  h[x].state = Playing
<1> DEFINE a == IF x = o THEN ClearFlags(h[x]) ELSE h[x]
<1>1. a \in Room /\ a.state = h[x].state
  <2>1. ClearFlags(h[x]) \in Room
    BY FlagsType DEF ClearFlags
  <2>2. ClearFlags(h[x]).state = h[x].state
    BY DEF ClearFlags, SetFlags, Room
  <2>3. QED  BY <2>1, <2>2
<1>2. Ended(h, o)[x] = IF x = dir[h[o].id] THEN EndState(a, h[o]) ELSE a
  BY DEF Ended
<1> HIDE DEF a
<1>3. EndState(a, h[o]).state # Playing
  <2>1. CASE h[o].cycle
    BY <1>1, <2>1, StatesApart DEF EndState, Room
  <2>2. CASE ~h[o].cycle
    BY <1>1, <2>2, StatesApart DEF EndState, Room
  <2>3. QED  BY <2>1, <2>2
<1>4. QED  BY <1>1, <1>2, <1>3 DEF Settled

LEMMA SettledFresh ==
    ASSUME IInv, NEW o \in Objects, NEW s \in Room, s.state = heap[o].state,
           heap' = Settled([heap EXCEPT ![o] = s], o)
    PROVE  Fresh
<1> DEFINE h == [heap EXCEPT ![o] = s]
<1>1. /\ created \in Nat /\ o \in 1..created /\ h \in [1..created -> Room]
      /\ \A x \in Objects : h[x].state = heap[x].state
  BY Parts DEF Objects
<1> HIDE DEF h
<1>2. \A x \in Objects : heap'[x].state = Playing => heap[x].state = Playing
  BY <1>1, SettledStartsNone DEF h, Objects
<1>3. QED  BY <1>2 DEF Fresh, StartsPlaying

LEMMA DepartFresh ==
    ASSUME IInv, NEW u \in Users, NEW o \in RoomsOf(u), Depart(u, o, TRUE)
    PROVE  Fresh
<1> DEFINE r == RemovePlayer(heap[o], u)
<1>1. o \in Objects /\ heap[o] \in Room /\ r \in Room
  BY Parts, RemovePlayerType
<1>2. r.state = heap[o].state
  BY <1>1 DEF RemovePlayer, Room
<1>3. \/ heap' = [heap EXCEPT ![o] = r]
      \/ heap' = Settled([heap EXCEPT ![o] = r], o)
  BY DEF Depart
<1> HIDE DEF r
<1>4. QED  BY <1>1, <1>2, <1>3, OneRoomFresh, SettledFresh

(* Only these two start a game, both clear every flag first.               *)
LEMMA CommandsFresh ==
    ASSUME IInv, NEW u \in Users, RequestStart(u) \/ Ready(u)
    PROVE  Fresh
<1>1. \A o \in RoomsOf(u) : o \in Objects /\ heap[o] \in Room
  BY Parts
<1>2. ASSUME NEW r \in Room, NEW rdy
      PROVE  /\ StartPlaying(r, rdy, {}).finished = {}
             /\ [StartPlaying(r, rdy, {}) EXCEPT !.soloConfirmPending = FALSE].finished = {}
             /\ [SetFlags(r, rdy, {}) EXCEPT !.state = Waiting].finished = {}
             /\ [r EXCEPT !.soloConfirmPending = TRUE].state = r.state
             /\ [r EXCEPT !.ready = rdy].state = r.state
  BY DEF StartPlaying, SetFlags, Room
<1>3. PICK o \in RoomsOf(u) :
        LET r == heap[o] IN
        \E rdy :
          \/ heap' = [heap EXCEPT ![o] = StartPlaying(r, rdy, {})]
          \/ heap' = [heap EXCEPT ![o] = [StartPlaying(r, rdy, {}) EXCEPT !.soloConfirmPending = FALSE]]
          \/ heap' = [heap EXCEPT ![o] = [SetFlags(r, rdy, {}) EXCEPT !.state = Waiting]]
          \/ heap' = [heap EXCEPT ![o] = [r EXCEPT !.soloConfirmPending = TRUE]]
          \/ heap' = [heap EXCEPT ![o] = [r EXCEPT !.ready = rdy]]
  BY <1>1, Parts DEF RequestStart, Ready, Announce
<1>4. QED  BY <1>1, <1>2, <1>3, OneRoomFresh

LEMMA OthersFresh ==
    ASSUME IInv, NEW u \in Users,
           \/ CancelReady(u) \/ \E b \in BOOLEAN : CycleRoom(u, b)
           \/ \E id \in RoomIds, m \in BOOLEAN : JoinRoom(u, id, m)
    PROVE  Fresh
<1>1. \A o \in RoomsOf(u) : o \in Objects /\ heap[o] \in Room
  BY Parts
<1>2. ASSUME CancelReady(u)
      PROVE  Fresh
  <2>1. PICK o \in RoomsOf(u) : /\ heap[o].state = Waiting
                                /\ \/ heap' = [heap EXCEPT ![o] =
                                        [ClearFlags(heap[o]) EXCEPT
                                            !.state = Selecting(heap[o].selectedChart),
                                            !.soloConfirmPending = FALSE]]
                                   \/ heap' = [heap EXCEPT ![o] = SetFlags(heap[o],
                                        heap[o].ready \ {u}, heap[o].finished \ {u})]
    BY <1>2 DEF CancelReady, Announce
  <2>2. CASE heap' = [heap EXCEPT ![o] = [ClearFlags(heap[o]) EXCEPT
                        !.state = Selecting(heap[o].selectedChart), !.soloConfirmPending = FALSE]]
    <3>1. [ClearFlags(heap[o]) EXCEPT !.state = Selecting(heap[o].selectedChart),
                                      !.soloConfirmPending = FALSE].finished = {}
      BY <1>1 DEF ClearFlags, SetFlags, Room
    <3>2. QED  BY <1>1, <2>2, <3>1, OneRoomFresh
  <2>3. CASE heap' = [heap EXCEPT ![o] = SetFlags(heap[o], heap[o].ready \ {u},
                                                           heap[o].finished \ {u})]
    <3>1. SetFlags(heap[o], heap[o].ready \ {u}, heap[o].finished \ {u}).state # Playing
      BY <1>1, <2>1, StatesApart DEF SetFlags, Room
    <3>2. QED  BY <1>1, <2>3, <3>1, OneRoomFresh
  <2>4. QED  BY <2>1, <2>2, <2>3
<1>3. ASSUME NEW b \in BOOLEAN, CycleRoom(u, b)
      PROVE  Fresh
  <2>1. PICK o \in RoomsOf(u) : heap' = [heap EXCEPT ![o] = [heap[o] EXCEPT !.cycle = b]]
    BY <1>1, <1>3, Parts DEF CycleRoom
  <2>2. [heap[o] EXCEPT !.cycle = b].state = heap[o].state
    BY <1>1 DEF Room
  <2>3. QED  BY <1>1, <2>1, <2>2, OneRoomFresh
<1>4. ASSUME NEW id \in RoomIds, NEW m \in BOOLEAN, JoinRoom(u, id, m)
      PROVE  Fresh
  <2>1. /\ dir[id] \in Objects /\ heap[dir[id]] \in Room
        /\ heap' = [heap EXCEPT ![dir[id]] = AddPlayer(heap[dir[id]], u, m)]
    BY <1>4, Parts DEF JoinRoom
  <2>2. AddPlayer(heap[dir[id]], u, m).state = heap[dir[id]].state
    BY <2>1 DEF AddPlayer, Room
  <2>3. QED  BY <2>1, <2>2, OneRoomFresh
<1>5. QED  BY <1>2, <1>3, <1>4

LEMMA AbortFresh ==
    ASSUME IInv, NEW u \in Users, Abort(u)
    PROVE  Fresh
<1>1. PICK o \in RoomsOf(u) : heap' = Settled([heap EXCEPT ![o].finished = @ \cup {u}], o)
  BY DEF Abort
<1> DEFINE s == [heap[o] EXCEPT !.finished = @ \cup {u}]
<1>2. o \in Objects /\ heap[o] \in Room /\ u \in Users
  BY Parts
<1>3. s \in Room /\ s.state = heap[o].state
  BY <1>2 DEF Room
<1>4. heap' = Settled([heap EXCEPT ![o] = s], o)
  BY <1>1, <1>2, Parts
<1> HIDE DEF s
<1>5. QED  BY <1>2, <1>3, <1>4, SettledFresh

LEMMA ChartFetchedFresh ==
    ASSUME IInv, NEW s \in Slots, ChartFetched(s)
    PROVE  Fresh
<1> DEFINE c == calls[s].chart
           t == dir[heap[calls[s].room].id]
<1>1. calls[s].room \in Objects
  <2>1. calls[s] \in Call \cup {Idle} /\ calls[s].kind = "chart"
    BY Parts DEF ChartFetched
  <2>2. QED  BY <2>1 DEF Call, Idle
<1>2. heap' = IF t = None THEN heap ELSE [heap EXCEPT ![t] = ChartSet(heap[t], c)]
  BY Parts DEF ChartFetched
<1>3. t \in Objects \cup {None}
  BY <1>1, Parts DEF Room
<1> HIDE DEF t, c
<1>4. CASE t = None
  BY <1>2, <1>4, RoomsAloneFresh
<1>5. CASE t \in Objects
  <2>1. t # None /\ heap[t] \in Room
    BY <1>5, Parts DEF Objects, None
  <2>2. ChartSet(heap[t], c).state # Playing
    BY <2>1, StatesApart DEF ChartSet, Room
  <2>3. QED  BY <1>2, <1>5, <2>1, <2>2, OneRoomFresh
<1>6. QED  BY <1>3, <1>4, <1>5

LEMMA RecordFetchedFresh ==
    ASSUME IInv, NEW s \in Slots, RecordFetched(s)
    PROVE  Fresh
<1> DEFINE o == calls[s].room
           r == IF calls[s].same
                THEN [heap[o] EXCEPT !.finished = @ \cup {calls[s].user}]
                ELSE heap[o]
<1>1. calls[s] \in [kind: {"record"}, room: Objects, user: Users, same: BOOLEAN]
  <2>1. calls[s] \in Call \cup {Idle} /\ calls[s].kind = "record"
    BY Parts DEF RecordFetched
  <2>2. QED  BY <2>1 DEF Call, Idle
<1>2. o \in Objects /\ heap[o] \in Room
  BY <1>1, Parts
<1>3. r \in Room /\ r.state = heap[o].state
  BY <1>1, <1>2 DEF Room
<1>4. heap' = Settled([heap EXCEPT ![o] = r], o)
  <2>1. (IF calls[s].same THEN [heap EXCEPT ![o].finished = @ \cup {calls[s].user}] ELSE heap)
          = [heap EXCEPT ![o] = r]
    BY <1>2, Parts
  <2> HIDE DEF r
  <2>2. QED  BY <2>1 DEF RecordFetched
<1> HIDE DEF r
<1>5. QED  BY <1>2, <1>3, <1>4, SettledFresh

LEMMA PlayerFresh == IInv /\ [PlayerStep]_vars => Fresh
<1> SUFFICES ASSUME IInv, [PlayerStep]_vars  PROVE Fresh
  OBVIOUS
<1>1. ASSUME NEW u \in Users, NEW id \in RoomIds, CreateRoom(u, id)  PROVE Fresh
  <2>1. \A o \in Objects : heap'[o] = heap[o]
    BY <1>1, Parts DEF CreateRoom, Objects
  <2>2. QED  BY <2>1 DEF Fresh, StartsPlaying
<1>2. ASSUME NEW u \in Users, LeaveRoom(u) \/ Disconnect(u)  PROVE Fresh
  BY <1>2, DepartFresh DEF LeaveRoom, Disconnect
<1>3. ASSUME NEW u \in Users,
             \/ CancelReady(u) \/ \E b \in BOOLEAN : CycleRoom(u, b)
             \/ \E id \in RoomIds, m \in BOOLEAN : JoinRoom(u, id, m)
      PROVE  Fresh
  BY <1>3, OthersFresh
<1>4. ASSUME NEW u \in Users, RequestStart(u) \/ Ready(u) \/ Abort(u)  PROVE Fresh
  BY <1>4, CommandsFresh, AbortFresh
<1>5. ASSUME NEW u \in Users, NEW s \in Slots, Played(u, s) \/ \E c \in Charts : SelectChart(u, c, s)
      PROVE  Fresh
  BY <1>5, RoomsAloneFresh DEF Played, SelectChart
<1>6. ASSUME NEW s \in Slots, ChartFetched(s) \/ RecordFetched(s) \/ FetchFails(s)
      PROVE  Fresh
  BY <1>6, ChartFetchedFresh, RecordFetchedFresh, RoomsAloneFresh DEF FetchFails
<1>7. CASE UNCHANGED vars
  BY <1>7, RoomsAloneFresh DEF vars
<1>8. QED  BY <1>1, <1>2, <1>3, <1>4, <1>5, <1>6, <1>7 DEF PlayerStep, Joins, Commands

(* A game among players starts with nobody finished (handleRequestStart,   *)
(* handleReady), whatever results of earlier games or other rooms arrive,  *)
(* for objects out of the directory too: no other step starts a game.      *)
THEOREM GamesStartFresh == GameSpec => FreshStart
<1> DEFINE GInv == IInv /\ sweep = NoSweep
<1>1. Init => GInv
  BY InitInvariant DEF Init
<1>2. GInv /\ [PlayerStep]_vars => GInv'
  BY NoLoop, NextInvariant
<1>3. GInv /\ [PlayerStep]_vars =>
        \A o \in Objects : StaysListed(o) /\ StartsPlaying(o) => heap'[o].finished = {}
  BY PlayerFresh DEF Fresh
<1> HIDE DEF GInv
<1>4. QED  BY <1>1, <1>2, <1>3, PTL DEF GameSpec, FreshStart

-----------------------------------------------------------------------------
(* The rotation of a cycling room names one of its members.                *)

LEMMA NatOrder == \E R : /\ IsWellFoundedOn(R, Nat)
                         /\ \A m, n \in Nat : m < n => <<m, n>> \in R
<1>1. \A m, n \in Nat : m < n => <<m, n>> \in OpToRel(<, Nat)
  BY DEF OpToRel
<1>2. QED  BY <1>1, NatLessThanWellFounded, Zenon

(* A nonempty set of natural numbers has a least element.                  *)
LEMMA Least ==
    ASSUME NEW S \in SUBSET Nat, S # {}
    PROVE  \E m \in S : \A n \in S : m <= n
<1>1. PICK R : /\ IsWellFoundedOn(R, Nat)
               /\ \A m, n \in Nat : m < n => <<m, n>> \in R
  BY NatOrder, Zenon
<1>2. \E m \in S : \A n \in S : ~(<<n, m>> \in R)
  <2>1. IsWellFoundedOn(R, Nat) /\ S \subseteq Nat
    BY <1>1
  <2>2. QED  BY <2>1, WFMin
<1>3. PICK m \in S : \A n \in S : ~(<<n, m>> \in R)
  BY <1>2, Zenon
<1>4. \A n \in S : ~(n < m)
  BY <1>1, <1>3, Zenon
<1>5. QED  BY <1>4

LEMMA NextHostMember ==
    ASSUME NEW r \in Room, Rotates(r)
    PROVE  NextHost(r) \in Members(r)
<1> DEFINE later == {i \in Turns(r) : \E p \in Turns(r) : r.order[p] = r.ownerId /\ p < i}
           turns == IF later # {} THEN later ELSE Turns(r)
           first == CHOOSE i \in turns : \A j \in turns : i <= j
<1>1. turns # {} /\ turns \subseteq DOMAIN r.order
  BY DEF Rotates, Turns
<1>2. DOMAIN r.order \subseteq Nat
  BY DEF Room
<1>3. NextHost(r) = r.order[first]
  BY DEF NextHost
<1> HIDE DEF turns
<1>4. \E i \in turns : \A j \in turns : i <= j
  BY <1>1, <1>2, Least
<1>5. first \in turns
  BY <1>4
<1>6. QED  BY <1>1, <1>3, <1>5 DEF Members

-----------------------------------------------------------------------------
(* Late answers.  Code that waits for the web API keeps its room object    *)
(* but passes room.id to RoomManager: when the room is gone and its id is  *)
(* used again, the answer is applied to another room.  As long as no room  *)
(* takes the id of one for which an answer is awaited, this does not       *)
(* happen, whoever else comes, leaves, plays or administers.               *)
Awaited == {calls[s].room : s \in {t \in Slots : calls[t].kind \in {"chart", "record"}}}

IdsKept == \A o \in Awaited : dir[heap[o].id] \in {o, None}

Shown(r) == r.state.type = "SelectChart" => r.state.chartId = r.selectedChart

(* Room r goes on as s; us have finished its game, by this step or before. *)
(* Whoever takes part when the game ends has finished, and whoever counts  *)
(* as having finished while it goes on did so before or is among us.       *)
Tally(r, s, us) ==
    /\ r.state = Playing /\ s.state # Playing =>
           Active(r) \cap Members(s) \subseteq r.finished \cup us
    /\ s.state = Playing =>
           s.finished \subseteq (IF r.state = Playing THEN r.finished ELSE {}) \cup us

Proper(r, s, us) == (Shown(r) => Shown(s)) /\ Tally(r, s, us)

Accounts(o) == {u \in Users : Finishes(o, u) \/ Mistaken(o, u)}

AllProper == \A o \in Objects : Proper(heap[o], heap'[o], Accounts(o))

LEMMA StateKept ==
    ASSUME NEW r, NEW s, NEW us, s.state = r.state, s.selectedChart = r.selectedChart,
           r.state # Playing \/ s.finished \subseteq r.finished
    PROVE  Proper(r, s, us)
BY DEF Proper, Shown, Tally

LEMMA NoGameOn ==
    ASSUME NEW r, NEW s, NEW us, r.state # Playing,
           \/ s.state \in {Waiting, Selecting(s.selectedChart)}
           \/ s.state = Playing /\ s.finished \subseteq us
    PROVE  Proper(r, s, us)
BY DEF Proper, Shown, Tally, Waiting, Playing, Selecting

LEMMA OneRoomProper ==
    ASSUME IInv, NEW o \in Objects, NEW s, Proper(heap[o], s, Accounts(o)),
           heap' = [heap EXCEPT ![o] = s]
    PROVE  AllProper
<1>1. \A x \in Objects : Proper(heap[x], heap[x], Accounts(x))
  BY StateKept
<1>2. QED  BY <1>1, Parts DEF AllProper

LEMMA RoomsAloneProper == ASSUME \A o \in Objects : heap'[o] = heap[o]  PROVE AllProper
BY StateKept DEF AllProper

(* checkGameEnd ends the game of its own room only, and only when all have *)
(* finished.                                                               *)
LEMMA SettledHere ==
    ASSUME NEW n \in Nat, NEW h \in [1..n -> Room], NEW o \in 1..n, dir[h[o].id] \in {o, None}
    PROVE  /\ \A x \in 1..n : x # o => Settled(h, o)[x] = h[x]
           /\ Shown(h[o]) => Shown(Settled(h, o)[o])
           /\ Settled(h, o)[o].order = h[o].order
           /\ Settled(h, o)[o].finished \subseteq h[o].finished
           /\ h[o].state = Playing /\ Settled(h, o)[o].state # Playing
              => Active(h[o]) \subseteq h[o].finished
<1>1. CASE ~GameOver(h[o])
  BY <1>1 DEF Settled
<1>2. CASE GameOver(h[o])
  <2> DEFINE a == ClearFlags(h[o])
  <2>1. /\ a \in Room /\ a.state = h[o].state /\ a.selectedChart = h[o].selectedChart
        /\ a.order = h[o].order /\ a.finished = {}
    <3>1. h[o] \in Room /\ ClearFlags(h[o]) \in Room
      BY FlagsType DEF ClearFlags
    <3>2. QED  BY <3>1 DEF ClearFlags, SetFlags, Room
  <2>2. \A x \in 1..n : x # None
    BY DEF None
  <2>3. /\ \A x \in 1..n : x # o => Settled(h, o)[x] = h[x]
        /\ Settled(h, o)[o] \in {a, EndState(a, h[o])}
    BY <1>2, <2>2 DEF Settled, Ended
  <2> HIDE DEF a
  <2>4. Shown(EndState(a, h[o]))
    <3>1. CASE h[o].cycle
      BY <2>1, <3>1 DEF EndState, Shown, Waiting, Room
    <3>2. CASE ~h[o].cycle
      BY <2>1, <3>2 DEF EndState, Shown, Selecting, Room
    <3>3. QED  BY <3>1, <3>2
  <2>5. Shown(h[o]) => Shown(a)
    BY <2>1 DEF Shown
  <2>6. /\ EndState(a, h[o]).order = h[o].order
        /\ EndState(a, h[o]).finished = {}
    BY <2>1 DEF EndState, Room
  <2>7. QED  BY <1>2, <2>1, <2>3, <2>4, <2>5, <2>6 DEF GameOver
<1>3. QED  BY <1>1, <1>2

(* Room o becomes s, in which only us have newly finished and nobody who   *)
(* stays is missing, and checkGameEnd runs.                                *)
LEMMA SettledProper ==
    ASSUME IInv, NEW o \in Objects, dir[heap[o].id] \in {o, None},
           NEW s \in Room, s.id = heap[o].id, s.state = heap[o].state,
           s.selectedChart = heap[o].selectedChart, s.monitors \subseteq heap[o].monitors,
           s.finished \subseteq heap[o].finished \cup Accounts(o),
           heap' = Settled([heap EXCEPT ![o] = s], o)
    PROVE  AllProper
<1> DEFINE h == [heap EXCEPT ![o] = s]
<1>1. /\ created \in Nat /\ o \in 1..created /\ h \in [1..created -> Room] /\ h[o] = s
      /\ \A x \in Objects : x # o => h[x] = heap[x]
  BY Parts DEF Objects
<1> HIDE DEF h
<1>2. /\ \A x \in Objects : x # o => heap'[x] = heap[x]
      /\ Shown(s) => Shown(heap'[o])
      /\ heap'[o].order = s.order /\ heap'[o].finished \subseteq s.finished
      /\ s.state = Playing /\ heap'[o].state # Playing => Active(s) \subseteq s.finished
      /\ heap'[o].state = Playing => s.state = Playing
  BY <1>1, SettledHere, SettledStartsNone DEF h, Objects
<1>3. Proper(heap[o], heap'[o], Accounts(o))
  <2>1. Shown(heap[o]) => Shown(s)
    BY DEF Shown
  <2>2. Active(heap[o]) \cap Members(heap'[o]) \subseteq Active(s)
    BY <1>2 DEF Active, Members
  <2>3. QED  BY <1>2, <2>1, <2>2 DEF Proper, Tally
<1>4. QED  BY <1>2, <1>3, StateKept DEF AllProper

-----------------------------------------------------------------------------
(* The steps one by one.                                                   *)

(* What is left of room o when u has gone.                                 *)
LEMMA Remainder ==
    ASSUME IInv, NEW u \in Users, NEW o \in RoomsOf(u)
    PROVE  LET r == RemovePlayer(heap[o], u)
           IN  /\ o \in Objects /\ heap[o] \in Room /\ Listed(o) /\ u \in Members(heap[o])
               /\ r \in Room /\ r.id = heap[o].id
               /\ r.state = heap[o].state /\ r.selectedChart = heap[o].selectedChart
               /\ r.monitors = heap[o].monitors \ {u} /\ r.finished = heap[o].finished \ {u}
               /\ Members(r) = Members(heap[o]) \ {u}
               /\ heap[o].ownerId # u => r.ownerId = heap[o].ownerId
<1> DEFINE r == RemovePlayer(heap[o], u)
<1>1. /\ o \in Objects /\ heap[o] \in Room /\ Listed(o) /\ u \in Members(heap[o])
  BY Parts DEF RoomsOf
<1>2. /\ r \in Room /\ r.id = heap[o].id /\ r.state = heap[o].state
      /\ r.order = Without(heap[o].order, u)
      /\ heap[o].ownerId # u => r.ownerId = heap[o].ownerId
  BY <1>1, RemovePlayerType
<1>3. /\ r.selectedChart = heap[o].selectedChart
      /\ r.monitors = heap[o].monitors \ {u} /\ r.finished = heap[o].finished \ {u}
  BY <1>1 DEF RemovePlayer, Room
<1>4. heap[o].order \in Seq(Users) /\ Distinct(heap[o].order)
  BY <1>1 DEF IInv, OneRoomPerUser, Distinct, Room
<1> HIDE DEF r
<1>5. Members(r) = Members(heap[o]) \ {u}
  <2>1. u \in Elems(heap[o].order) /\ Members(heap[o]) = Elems(heap[o].order)
    BY <1>1 DEF Members, Elems
  <2>2. Members(r) = Elems(r.order)
    BY DEF Members, Elems
  <2>3. QED  BY <1>2, <1>4, <2>1, <2>2, WithoutMembers
<1>6. QED  BY <1>1, <1>2, <1>3, <1>5 DEF r

LEMMA DepartProper ==
    ASSUME IInv, NEW u \in Users, NEW o \in RoomsOf(u), NEW c \in BOOLEAN, Depart(u, o, c)
    PROVE  AllProper
<1> DEFINE r == RemovePlayer(heap[o], u)
<1>1. /\ o \in Objects /\ Listed(o)
      /\ r \in Room /\ r.id = heap[o].id
      /\ r.state = heap[o].state /\ r.selectedChart = heap[o].selectedChart
      /\ r.monitors \subseteq heap[o].monitors
      /\ r.finished \subseteq heap[o].finished
  BY Remainder
<1>2. \/ heap' = [heap EXCEPT ![o] = r]
      \/ heap' = Settled([heap EXCEPT ![o] = r], o)
  BY DEF Depart
<1> HIDE DEF r
<1>3. dir[heap[o].id] = o
  BY <1>1 DEF Listed
<1>4. CASE heap' = [heap EXCEPT ![o] = r]
  BY <1>1, <1>4, StateKept, OneRoomProper
<1>5. CASE heap' = Settled([heap EXCEPT ![o] = r], o)
  BY <1>1, <1>3, <1>5, SettledProper
<1>6. QED  BY <1>2, <1>4, <1>5

LEMMA FlagsProper ==
    ASSUME NEW r \in Room, NEW us, NEW x, NEW y
    PROVE  /\ Proper(r, [r EXCEPT !.cycle = x], us) /\ Proper(r, [r EXCEPT !.locked = x], us)
           /\ Proper(r, [r EXCEPT !.maxPlayers = x], us)
           /\ Proper(r, [r EXCEPT !.blacklist = x], us)
           /\ Proper(r, [r EXCEPT !.whitelist = x], us)
           /\ Proper(r, [r EXCEPT !.soloConfirmPending = x], us)
           /\ Proper(r, [r EXCEPT !.ready = x], us)
           /\ r.state # Playing => Proper(r, SetFlags(r, x, y), us)
<1>1. \A s \in {[r EXCEPT !.cycle = x], [r EXCEPT !.locked = x], [r EXCEPT !.maxPlayers = x],
                [r EXCEPT !.blacklist = x], [r EXCEPT !.whitelist = x],
                [r EXCEPT !.soloConfirmPending = x], [r EXCEPT !.ready = x]} :
            /\ s.state = r.state /\ s.selectedChart = r.selectedChart
            /\ s.finished = r.finished
  BY DEF Room
<1>2. LET s == SetFlags(r, x, y) IN s.state = r.state /\ s.selectedChart = r.selectedChart
  BY DEF SetFlags, Room
<1>3. QED  BY <1>1, <1>2, StateKept

LEMMA StartsProper ==
    ASSUME NEW r \in Room, NEW rdy, NEW fin, NEW us, fin \subseteq us, r.state # Playing
    PROVE  /\ Proper(r, StartPlaying(r, rdy, fin), us)
           /\ Proper(r, [StartPlaying(r, rdy, fin) EXCEPT !.soloConfirmPending = FALSE], us)
           /\ Proper(r, [SetFlags(r, rdy, fin) EXCEPT !.state = Waiting], us)
           /\ Proper(r, [SetFlags(r, rdy, fin) EXCEPT !.state = Selecting(r.selectedChart),
                                                      !.soloConfirmPending = FALSE], us)
<1>1. \A s \in {StartPlaying(r, rdy, fin),
                [StartPlaying(r, rdy, fin) EXCEPT !.soloConfirmPending = FALSE]} :
        s.state = Playing /\ s.finished = fin
  BY DEF StartPlaying, SetFlags, Room
<1>2. [SetFlags(r, rdy, fin) EXCEPT !.state = Waiting].state = Waiting
  BY DEF SetFlags, Room
<1>3. LET s == [SetFlags(r, rdy, fin) EXCEPT !.state = Selecting(r.selectedChart),
                                             !.soloConfirmPending = FALSE]
      IN  s.state = Selecting(s.selectedChart)
  BY DEF SetFlags, Room
<1>4. QED  BY <1>1, <1>2, <1>3, NoGameOn

LEMMA OwnerProper ==
    ASSUME IInv, NEW u \in Users, NEW b \in BOOLEAN, CycleRoom(u, b) \/ LockRoom(u, b)
    PROVE  AllProper
<1>1. PICK o \in Objects : \/ heap' = [heap EXCEPT ![o] = [heap[o] EXCEPT !.cycle = b]]
                           \/ heap' = [heap EXCEPT ![o] = [heap[o] EXCEPT !.locked = b]]
  BY Parts DEF CycleRoom, LockRoom
<1>2. heap[o] \in Room
  BY Parts
<1>3. QED  BY <1>1, <1>2, FlagsProper, OneRoomProper

LEMMA StartProper ==
    ASSUME IInv, NEW u \in Users, RequestStart(u) \/ Ready(u) \/ CancelReady(u)
    PROVE  AllProper
<1>1. \A o \in RoomsOf(u) : o \in Objects /\ heap[o] \in Room
  BY Parts
<1>2. \A o \in RoomsOf(u) : \A s :
        Proper(heap[o], s, Accounts(o)) /\ heap' = [heap EXCEPT ![o] = s] => AllProper
  BY <1>1, OneRoomProper
<1>3. CASE RequestStart(u)
  <2>1. PICK o \in RoomsOf(u) :
          /\ heap[o].state.type = "SelectChart"
          /\ \/ heap' = [heap EXCEPT ![o] = [SetFlags(heap[o], {u}, {}) EXCEPT !.state = Waiting]]
             \/ heap' = [heap EXCEPT ![o] = [heap[o] EXCEPT !.soloConfirmPending = TRUE]]
             \/ heap' = [heap EXCEPT ![o] =
                            [StartPlaying(heap[o], {}, {}) EXCEPT !.soloConfirmPending = FALSE]]
    BY <1>1, <1>3, Parts DEF RequestStart, Announce
  <2>2. heap[o].state # Playing /\ heap[o] \in Room
    BY <1>1, <2>1 DEF Playing
  <2>3. Proper(heap[o], [SetFlags(heap[o], {u}, {}) EXCEPT !.state = Waiting], Accounts(o))
    BY <2>2, StartsProper
  <2>4. Proper(heap[o], [heap[o] EXCEPT !.soloConfirmPending = TRUE], Accounts(o))
    BY <2>2, FlagsProper
  <2>5. Proper(heap[o], [StartPlaying(heap[o], {}, {}) EXCEPT !.soloConfirmPending = FALSE], Accounts(o))
    BY <2>2, StartsProper
  <2>6. QED  BY <1>2, <2>1, <2>3, <2>4, <2>5
<1>4. CASE Ready(u)
  <2>1. PICK o \in RoomsOf(u) :
          /\ heap[o].state = Waiting
          /\ \/ heap' = [heap EXCEPT ![o] = StartPlaying(heap[o], heap[o].ready \cup {u}, {})]
             \/ heap' = [heap EXCEPT ![o] = [heap[o] EXCEPT !.ready = heap[o].ready \cup {u}]]
    BY <1>1, <1>4, Parts DEF Ready, Announce
  <2>2. heap[o].state # Playing /\ heap[o] \in Room
    BY <1>1, <2>1, StatesApart
  <2>3. Proper(heap[o], StartPlaying(heap[o], heap[o].ready \cup {u}, {}), Accounts(o))
    BY <2>2, StartsProper
  <2>4. Proper(heap[o], [heap[o] EXCEPT !.ready = heap[o].ready \cup {u}], Accounts(o))
    BY <2>2, FlagsProper
  <2>5. QED  BY <1>2, <2>1, <2>3, <2>4
<1>5. CASE CancelReady(u)
  <2>1. PICK o \in RoomsOf(u) :
          /\ heap[o].state = Waiting
          /\ \/ heap' = [heap EXCEPT ![o] = [SetFlags(heap[o], {}, {}) EXCEPT
                            !.state = Selecting(heap[o].selectedChart), !.soloConfirmPending = FALSE]]
             \/ heap' = [heap EXCEPT ![o] =
                            SetFlags(heap[o], heap[o].ready \ {u}, heap[o].finished \ {u})]
    BY <1>1, <1>5, Parts DEF CancelReady, Announce, ClearFlags
  <2>2. heap[o].state # Playing /\ heap[o] \in Room
    BY <1>1, <2>1, StatesApart
  <2>3. Proper(heap[o], [SetFlags(heap[o], {}, {}) EXCEPT
                !.state = Selecting(heap[o].selectedChart), !.soloConfirmPending = FALSE], Accounts(o))
    BY <2>2, StartsProper
  <2>4. Proper(heap[o], SetFlags(heap[o], heap[o].ready \ {u}, heap[o].finished \ {u}), Accounts(o))
    BY <2>2, FlagsProper
  <2>5. QED  BY <1>2, <2>1, <2>3, <2>4
<1>6. QED  BY <1>3, <1>4, <1>5

LEMMA AbortProper ==
    ASSUME IInv, NEW u \in Users, Abort(u)
    PROVE  AllProper
<1>1. PICK o \in RoomsOf(u) : heap' = Settled([heap EXCEPT ![o].finished = @ \cup {u}], o)
  BY DEF Abort
<1>2. o \in Objects /\ heap[o] \in Room /\ dir[heap[o].id] = o
  BY Parts DEF RoomsOf, Listed
<1> DEFINE s == [heap[o] EXCEPT !.finished = @ \cup {u}]
<1>3. /\ s \in Room /\ s.id = heap[o].id /\ s.state = heap[o].state
      /\ s.selectedChart = heap[o].selectedChart
      /\ s.finished = heap[o].finished \cup {u}
      /\ s.monitors = heap[o].monitors
  BY <1>2 DEF Room
<1>4. heap' = Settled([heap EXCEPT ![o] = s], o)
  BY <1>1, <1>2, Parts
<1> HIDE DEF s
<1>5. u \in Accounts(o)
  <2>1. GivesUpGame(o, u)
    BY DEF GivesUpGame
  <2>2. QED  BY <2>1 DEF Accounts, Finishes
<1>6. QED  BY <1>2, <1>3, <1>4, <1>5, SettledProper

(* A record marks its player, by mistake or not, and nobody else.          *)
LEMMA RecordFetchedProper ==
    ASSUME IInv, IdsKept, NEW c \in Slots, RecordFetched(c)
    PROVE  AllProper
<1> DEFINE o == calls[c].room
           u == calls[c].user
           s == IF calls[c].same THEN [heap[o] EXCEPT !.finished = @ \cup {u}] ELSE heap[o]
<1>1. calls[c] \in [kind: {"record"}, room: Objects, user: Users, same: BOOLEAN]
  <2>1. calls[c] \in Call \cup {Idle} /\ calls[c].kind = "record"
    BY Parts DEF RecordFetched
  <2>2. QED  BY <2>1 DEF Call, Idle
<1>2. o \in Objects /\ heap[o] \in Room /\ u \in Users
  BY <1>1, Parts
<1>3. calls[c].same => u \in Accounts(o)
  <2>1. calls[c].same => RecordOf(c, o, u)
    BY <1>1 DEF RecordOf
  <2>2. QED  BY <1>2, <2>1 DEF Accounts, Finishes, Reports, Mistaken
<1>4. /\ s \in Room /\ s.id = heap[o].id /\ s.state = heap[o].state
      /\ s.selectedChart = heap[o].selectedChart
      /\ s.finished \subseteq heap[o].finished \cup Accounts(o)
      /\ s.monitors = heap[o].monitors
  <2>1. CASE calls[c].same
    BY <1>2, <1>3, <2>1 DEF Room
  <2>2. CASE ~calls[c].same
    BY <1>2, <2>2
  <2>3. QED  BY <2>1, <2>2
<1>5. heap' = Settled([heap EXCEPT ![o] = s], o)
  <2>1. (IF calls[c].same THEN [heap EXCEPT ![o].finished = @ \cup {u}] ELSE heap)
          = [heap EXCEPT ![o] = s]
    BY <1>2, Parts
  <2> HIDE DEF s
  <2>2. QED  BY <2>1 DEF RecordFetched
<1> HIDE DEF s
<1>6. dir[heap[o].id] \in {o, None}
  BY <1>1 DEF IdsKept, Awaited
<1> HIDE DEF o, u
<1>7. QED  BY <1>2, <1>4, <1>5, <1>6, SettledProper

LEMMA JoinRoomProper ==
    ASSUME IInv, NEW u \in Users, NEW id \in RoomIds, NEW m \in BOOLEAN, JoinRoom(u, id, m)
    PROVE  AllProper
<1>1. /\ dir[id] \in Objects /\ heap[dir[id]] \in Room
      /\ heap' = [heap EXCEPT ![dir[id]] = AddPlayer(heap[dir[id]], u, m)]
  BY Parts DEF JoinRoom
<1> DEFINE s == AddPlayer(heap[dir[id]], u, m)
<1>2. /\ s.state = heap[dir[id]].state /\ s.selectedChart = heap[dir[id]].selectedChart
      /\ s.finished = heap[dir[id]].finished \ {u}
  BY <1>1 DEF AddPlayer, Room
<1> HIDE DEF s
<1>3. Proper(heap[dir[id]], s, Accounts(dir[id]))
  BY <1>2, StateKept
<1>4. QED  BY <1>1, <1>3, OneRoomProper DEF s

LEMMA MembersTyped == ASSUME NEW r \in Room  PROVE Members(r) \subseteq Users
BY DEF Members, Room

(* No room looks different, nobody is told anything.                       *)
LEMMA AdminProper ==
    ASSUME IInv, NEW id \in RoomIds,
           \/ ForceStart(id) \/ ToggleRoomLock(id) \/ ToggleRoomMode(id)
           \/ \E n \in Capacities : SetRoomMaxPlayers(id, n)
           \/ \E s \in Slots, list \in Lists, kind \in {"blacklist", "whitelist"} :
                  SetList(id, kind, list, s)
    PROVE  AllProper
<1>0. PICK o \in Objects : o = dir[id]
  BY Parts DEF ForceStart, ToggleRoomLock, ToggleRoomMode, SetRoomMaxPlayers, SetList
<1> DEFINE r == heap[o]
<1>1. o \in Objects /\ o = dir[id] /\ r \in Room
  BY <1>0, Parts
<1>2. \A s : Proper(r, s, Accounts(o)) /\ heap' = [heap EXCEPT ![o] = s] => AllProper
  BY <1>1, OneRoomProper
<1>3. CASE ForceStart(id)
  <2> DEFINE fin == Members(r) \ (r.ready \cup {r.ownerId})
  <2>1. heap' = [heap EXCEPT ![o] = StartPlaying(r, {}, fin)] /\ r.state # Playing
    BY <1>1, <1>3 DEF ForceStart, Announce, Playing
  <2>2. fin \subseteq Accounts(o)
    <3>1. Listed(o) /\ r.id = id
      BY <1>1, <1>3 DEF ForceStart, IInv, OwnerIsMember, Listed
    <3>2. ~InGame(o) /\ InGame(o)'
      <4>1. StartPlaying(r, {}, fin).state = Playing
        BY <1>1 DEF StartPlaying, SetFlags, Room
      <4>2. QED  BY <1>1, <2>1, <4>1, Parts DEF InGame
    <3>3. fin \subseteq Users
      BY <1>1, MembersTyped
    <3>4. \A u \in fin : CountedOut(o, u)
      BY <1>3, <3>1, <3>2 DEF CountedOut
    <3>5. QED  BY <3>3, <3>4 DEF Accounts, Finishes
  <2>3. Proper(r, StartPlaying(r, {}, fin), Accounts(o))
    BY <1>1, <2>1, <2>2, StartsProper
  <2> HIDE DEF fin
  <2>4. QED  BY <1>2, <2>1, <2>3
<1>4. CASE ToggleRoomLock(id) \/ ToggleRoomMode(id)
  <2>1. \/ heap' = [heap EXCEPT ![o] = [r EXCEPT !.locked = ~@]]
        \/ heap' = [heap EXCEPT ![o] = [r EXCEPT !.cycle = ~@]]
    BY <1>1, <1>4, Parts DEF ToggleRoomLock, ToggleRoomMode
  <2>2. Proper(r, [r EXCEPT !.locked = ~@], Accounts(o)) /\ Proper(r, [r EXCEPT !.cycle = ~@], Accounts(o))
    BY <1>1, FlagsProper
  <2>3. QED  BY <1>2, <2>1, <2>2
<1>5. ASSUME NEW n \in Capacities, SetRoomMaxPlayers(id, n)
      PROVE  AllProper
  <2>1. heap' = [heap EXCEPT ![o] = [r EXCEPT !.maxPlayers = n]]
    BY <1>1, <1>5, Parts DEF SetRoomMaxPlayers
  <2>2. Proper(r, [r EXCEPT !.maxPlayers = n], Accounts(o))
    BY <1>1, FlagsProper
  <2>3. QED  BY <1>2, <2>1, <2>2
<1>6. ASSUME NEW s \in Slots, NEW list \in Lists, NEW kind \in {"blacklist", "whitelist"},
             SetList(id, kind, list, s)
      PROVE  AllProper
  <2>1. \/ heap' = [heap EXCEPT ![o] = [r EXCEPT !.blacklist = list]]
        \/ heap' = [heap EXCEPT ![o] = [r EXCEPT !.whitelist = list]]
    BY <1>1, <1>6 DEF SetList
  <2>2. Proper(r, [r EXCEPT !.blacklist = list], Accounts(o)) /\ Proper(r, [r EXCEPT !.whitelist = list], Accounts(o))
    BY <1>1, FlagsProper
  <2>3. QED  BY <1>2, <2>1, <2>2
<1>7. QED  BY <1>3, <1>4, <1>5, <1>6

(* Every step but the answer to a chart request.                           *)
LEMMA StepProper ==
    ASSUME IInv, IdsKept, [Next]_vars
    PROVE  AllProper \/ \E s \in Slots : ChartFetched(s)
<1>1. ASSUME Sweeping, SweepNext  PROVE AllProper
  <2>1. Head(sweep.todo) \in Users
    BY <1>1, Parts DEF Sweeping, Sweeps
  <2>2. QED  BY <1>1, <2>1, DepartProper, RoomsAloneProper DEF SweepNext
<1>2. ASSUME NEW u \in Users, NEW id \in RoomIds, CreateRoom(u, id)  PROVE AllProper
  <2>1. \A o \in Objects : heap'[o] = heap[o]
    BY <1>2, Parts DEF CreateRoom, Objects
  <2>2. QED  BY <2>1, RoomsAloneProper
<1>3. ASSUME NEW u \in Users, LeaveRoom(u) \/ Disconnect(u) \/ Kick(u)  PROVE AllProper
  BY <1>3, DepartProper DEF LeaveRoom, Disconnect, Kick
<1>4. ASSUME NEW u \in Users, NEW s \in Slots,
             Played(u, s) \/ \E c \in Charts : SelectChart(u, c, s)
      PROVE  AllProper
  BY <1>4, RoomsAloneProper DEF Played, SelectChart
<1>5. ASSUME (\E id \in RoomIds : CloseRoom(id)) \/ \E b \in BOOLEAN : SetGlobalLocked(b)
      PROVE  AllProper
  BY <1>5, RoomsAloneProper DEF CloseRoom, SetGlobalLocked
<1>6. CASE UNCHANGED vars
  BY <1>6, RoomsAloneProper DEF vars
<1>7. CASE PlayerStep
  <2>1. ASSUME NEW u \in Users, NEW id \in RoomIds, NEW m \in BOOLEAN, JoinRoom(u, id, m)
        PROVE  AllProper
    BY <2>1, JoinRoomProper
  <2>2. ASSUME NEW u \in Users, \/ \E b \in BOOLEAN : CycleRoom(u, b)
                                \/ RequestStart(u) \/ Ready(u) \/ CancelReady(u) \/ Abort(u)
        PROVE  AllProper
    BY <2>2, OwnerProper, StartProper, AbortProper
  <2>3. ASSUME NEW s \in Slots, RecordFetched(s)  PROVE AllProper
    BY <2>3, RecordFetchedProper
  <2>4. ASSUME NEW s \in Slots, FetchFails(s)  PROVE AllProper
    BY <2>4, RoomsAloneProper DEF FetchFails
  <2>5. QED
    BY <1>2, <1>3, <1>4, <1>7, <2>1, <2>2, <2>3, <2>4 DEF PlayerStep, Joins, Commands
<1>8. CASE AccessStep
  <2>1. ASSUME NEW u \in Users, NEW b \in BOOLEAN, LockRoom(u, b)  PROVE AllProper
    BY <2>1, OwnerProper
  <2>2. ASSUME NEW id \in RoomIds,
               \/ ToggleRoomLock(id) \/ \E n \in Capacities : SetRoomMaxPlayers(id, n)
               \/ \E s \in Slots, list \in Lists, kind \in {"blacklist", "whitelist"} :
                      SetList(id, kind, list, s)
        PROVE  AllProper
    BY <2>2, AdminProper
  <2>3. ASSUME NEW s \in Slots, NamesFetched(s)  PROVE AllProper
    BY <2>3, RoomsAloneProper DEF NamesFetched
  <2>4. QED  BY <1>5, <1>8, <2>1, <2>2, <2>3 DEF AccessStep
<1>9. CASE AdminStep
  <2>1. ASSUME NEW id \in RoomIds, ForceStart(id) \/ ToggleRoomMode(id)  PROVE AllProper
    BY <2>1, AdminProper
  <2>2. QED  BY <1>3, <1>5, <1>9, <2>1 DEF AdminStep
<1>10. QED  BY <1>1, <1>6, <1>7, <1>8, <1>9 DEF Next

LEMMA CreatedOnly ==
    ASSUME [Next]_vars
    PROVE  created' = created \/ \E u \in Users, id \in RoomIds : CreateRoom(u, id)
BY DEF Next, SweepNext, PlayerStep, Joins, Commands, AccessStep, AdminStep, JoinRoom, LeaveRoom,
       Disconnect, Kick, CycleRoom, LockRoom, RequestStart, Ready, CancelReady, Abort, Played,
       SelectChart, ChartFetched, RecordFetched, FetchFails, ToggleRoomLock, ToggleRoomMode,
       SetRoomMaxPlayers, SetList, NamesFetched, SetGlobalLocked, ForceStart, CloseRoom, vars

AllShown == \A o \in Objects : Shown(heap[o])

LEMMA StepShown ==
    ASSUME IInv, IdsKept, AllShown, [Next]_vars
    PROVE  AllShown'
<1>1. CASE \E s \in Slots : ChartFetched(s)
  <2>1. PICK s \in Slots : ChartFetched(s)
    BY <1>1
  <2> DEFINE t == dir[heap[calls[s].room].id]
  <2>2. /\ Objects' = Objects
        /\ heap' = IF t = None THEN heap ELSE [heap EXCEPT ![t] = ChartSet(heap[t], calls[s].chart)]
    BY <2>1, Parts DEF ChartFetched, Objects
  <2> HIDE DEF t
  <2>3. ASSUME NEW o \in Objects  PROVE Shown(heap'[o])
    <3>1. Shown(heap[o]) /\ heap[o] \in Room
      BY Parts DEF AllShown
    <3>2. Shown(ChartSet(heap[o], calls[s].chart))
      BY <3>1 DEF ChartSet, Shown, Selecting, Room
    <3>3. QED  BY <2>2, <3>1, <3>2, Parts
  <2>4. QED  BY <2>2, <2>3 DEF AllShown, Shown
<1>2. CASE AllProper
  <2>1. \A o \in Objects : Shown(heap'[o])
    BY <1>2 DEF AllProper, Proper, AllShown
  <2>2. \A o \in Objects' \ Objects : Shown(heap'[o])
    <3>1. ASSUME NEW u \in Users, NEW id \in RoomIds, CreateRoom(u, id)
          PROVE  \A o \in Objects' \ Objects : Shown(heap'[o])
      <4>1. \A o \in Objects' \ Objects : heap'[o] = NewRoom(id, u)
        BY <3>1 DEF CreateRoom, Objects
      <4>2. Shown(NewRoom(id, u))
        BY DEF Shown, NewRoom, Selecting
      <4>3. QED  BY <4>1, <4>2
    <3>2. created' = created => Objects' = Objects
      BY DEF Objects
    <3>3. created' = created \/ \E u \in Users, id \in RoomIds : CreateRoom(u, id)
      BY CreatedOnly
    <3>4. QED  BY <3>1, <3>2, <3>3
  <2>3. QED  BY <2>1, <2>2 DEF AllShown, Shown
<1>3. QED  BY <1>1, <1>2, StepProper

(* As long as nobody takes the id of a room for which an answer is still   *)
(* awaited, the chart a room's state announces is the one it has selected  *)
(* (handleSelectChart, handleCancelReady, endGame): otherwise a game that  *)
(* a late result ends announces the chart of the room of the same name.    *)
THEOREM ChartAlwaysShown == Spec /\ []IdsKept => []ChartShownIsSelected
<1>1. Init => IInv /\ AllShown
  BY InitInvariant DEF Init, AllShown, Objects
<1>2. IInv /\ AllShown /\ IdsKept /\ [Next]_vars => (IInv /\ AllShown)'
  BY NextInvariant, StepShown
<1>3. AllShown => ChartShownIsSelected
  BY DEF AllShown, Shown, ChartShownIsSelected
<1>4. QED  BY <1>1, <1>2, <1>3, PTL DEF Spec

(* Of a game that is on, the flags tell no more than the history: whoever  *)
(* has one has finished this game, or a record of an earlier one has come. *)
Accounted ==
    \A o \in Objects : InGame(o) =>
        \A u \in heap[o].finished : <<o, u>> \in done \cup mistaken

LEMMA StepAccounted ==
    ASSUME IInv, IdsKept, Accounted, Next /\ History
    PROVE  Accounted'
<1> SUFFICES ASSUME NEW o \in Objects', InGame(o)', NEW u \in heap'[o].finished
             PROVE  <<o, u>> \in (done \cup mistaken)'
  BY DEF Accounted
<1>1. IInv'
  BY NextInvariant
<1>2. u \in Users
  BY <1>1 DEF IInv, TypeOK, Room
<1>3. SUFFICES Finishes(o, u) \/ Mistaken(o, u)
  BY <1>2 DEF History
<1>4. CASE o \notin Objects
  <2>1. PICK v \in Users, id \in RoomIds : CreateRoom(v, id)
    BY <1>4, CreatedOnly DEF Objects
  <2>2. heap'[o] = NewRoom(id, v)
    BY <1>4, <2>1 DEF CreateRoom, Objects
  <2>3. QED  BY <2>2 DEF NewRoom
<1>5. CASE o \in Objects /\ AllProper
  <2>1. Tally(heap[o], heap'[o], Accounts(o))
    BY <1>5 DEF AllProper, Proper
  <2>2. u \in Accounts(o) \/ (heap[o].state = Playing /\ u \in heap[o].finished)
    BY <2>1 DEF Tally, InGame
  <2>3. heap[o].state = Playing /\ u \in heap[o].finished => <<o, u>> \in done \cup mistaken
    BY <1>5 DEF Accounted, InGame
  <2>4. QED  BY <2>2, <2>3 DEF Accounts, Finishes, Mistaken
<1>6. CASE o \in Objects /\ \E s \in Slots : ChartFetched(s)
  <2>1. PICK s \in Slots : ChartFetched(s)
    BY <1>6
  <2> DEFINE t == dir[heap[calls[s].room].id]
  <2>2. heap' = IF t = None THEN heap ELSE [heap EXCEPT ![t] = ChartSet(heap[t], calls[s].chart)]
    BY <2>1, Parts DEF ChartFetched
  <2> HIDE DEF t
  <2>3. ChartSet(heap[o], calls[s].chart).state # Playing
    BY <1>6, Parts, StatesApart DEF ChartSet, Room
  <2>4. heap'[o] = heap[o]
    BY <1>6, <2>2, <2>3, Parts DEF InGame
  <2>5. <<o, u>> \in done \cup mistaken
    BY <1>6, <2>4 DEF Accounted, InGame
  <2>6. QED  BY <2>5 DEF Finishes, Mistaken
<1>7. QED  BY <1>4, <1>5, <1>6, StepProper

(* What GamesEndWhenDone says of a step.                                   *)
LEMMA StepEnds ==
    ASSUME IInv, IdsKept, Accounted, [Next]_vars,
           NEW o \in Objects, StopsPlaying(o), ~ \E s \in Slots : ChartFetched(s),
           NEW u \in Active(heap[o]) \cap Members(heap'[o])
    PROVE  Finishes(o, u) \/ Mistaken(o, u)
<1>1. Tally(heap[o], heap'[o], Accounts(o))
  BY StepProper DEF AllProper, Proper
<1>2. u \in Accounts(o) \/ u \in heap[o].finished
  BY <1>1 DEF Tally, StopsPlaying
<1>3. u \in heap[o].finished => <<o, u>> \in done \cup mistaken
  BY DEF Accounted, InGame, StopsPlaying
<1>4. QED  BY <1>2, <1>3 DEF Accounts, Finishes, Mistaken

(* Whoever leaves, gives up, reports a result or administers, a game ends  *)
(* only when everybody who stays and takes part has finished that very     *)
(* game (checkGameEnd, endGame), for any number of rooms and players.      *)
(* Three things are excepted, which the code lets happen: a chart whose    *)
(* data come during the game ends it; a player whose own record of an      *)
(* earlier game comes in this one is taken to have finished; and (IdsKept) *)
(* an answer for a room whose id another room has taken.                   *)
THEOREM GamesNeverCutShort == HistorySpec /\ []IdsKept => GamesEndWhenDone
<1> DEFINE AInv == IInv /\ Accounted
<1>1. HistoryInit => AInv
  BY InitInvariant DEF HistoryInit, Init, Accounted, Objects
<1>2. AInv /\ IdsKept /\ [Next /\ History]_historyVars => AInv'
  <2>1. ASSUME IInv, Accounted, UNCHANGED historyVars  PROVE AInv'
    <3>1. [Next]_vars
      BY <2>1 DEF historyVars
    <3>2. IInv'
      BY <2>1, <3>1, NextInvariant
    <3>3. Accounted'
      BY <2>1 DEF Accounted, InGame, Objects, historyVars, vars
    <3>4. QED  BY <3>2, <3>3
  <2>2. ASSUME IInv, Accounted, IdsKept, Next /\ History  PROVE AInv'
    BY <2>2, NextInvariant, StepAccounted
  <2>3. QED  BY <2>1, <2>2
<1>3. AInv /\ IdsKept /\ [Next /\ History]_historyVars =>
        \A o \in Objects : StaysListed(o) /\ StopsPlaying(o) =>
            \/ \E s \in Slots : ChartFetched(s)
            \/ \A u \in Active(heap[o]) \cap Members(heap'[o]) :
                   Finishes(o, u) \/ Mistaken(o, u)
  <2>1. [Next /\ History]_historyVars => [Next]_vars
    BY DEF historyVars
  <2>2. QED  BY <2>1, StepEnds
<1> HIDE DEF AInv
<1>4. QED  BY <1>1, <1>2, <1>3, PTL DEF HistorySpec, GamesEndWhenDone

-----------------------------------------------------------------------------
(* What the clients are told.  An answer for a room that is closed while   *)
(* it is awaited is broadcast to the players recorded in the old object,   *)
(* wherever they are by now.  Hence the condition: a room for which an     *)
(* answer is awaited is registered, or everybody has left it.              *)
NobodyBehind ==
    \A o \in Awaited : Listed(o) \/ (dir[heap[o].id] = None /\ Members(heap[o]) = {})

(* The clients of the members of r show r, when all clients show v.        *)
Shows(v, r) == \A u \in Members(r) : v[u] = [state |-> r.state, host |-> (r.ownerId = u)]

(* s looks to its members like r.                                          *)
LooksLike(s, r) == s.order = r.order /\ s.state = r.state /\ s.ownerId = r.ownerId

LEMMA InSync == ClientsInSync <=> \A o \in Objects : Listed(o) => Shows(view, heap[o])
BY DEF ClientsInSync, Shows

LEMMA ShowsAlike ==
    ASSUME NEW v, NEW w, NEW r, NEW s, LooksLike(s, r), Shows(v, r),
           \A u \in Members(r) : w[u] = v[u]
    PROVE  Shows(w, s)
BY DEF Shows, LooksLike, Members

LEMMA OneRoomSync ==
    ASSUME IInv, ClientsInSync, created' = created, NEW o \in Objects,
           \A id \in RoomIds : dir'[id] \in {dir[id], None},
           \A x \in Objects : heap'[x].id = heap[x].id,
           \A x \in Objects : x # o =>
                LooksLike(heap'[x], heap[x])
                /\ (Listed(x) => \A u \in Members(heap[x]) : view'[u] = view[u]),
           Listed(o)' => Shows(view', heap'[o])
    PROVE  ClientsInSync'
<1>1. Objects' = Objects
  BY DEF Objects
<1>2. ASSUME NEW x \in Objects, Listed(x)'
      PROVE  Shows(view', heap'[x])
  <2>1. CASE x = o
    BY <1>2, <2>1
  <2>2. CASE x # o
    <3>1. heap[x].id \in RoomIds /\ x # None
      BY Parts DEF Room, Objects, None
    <3>2. Listed(x)
      BY <1>2, <3>1 DEF Listed
    <3>3. Shows(view, heap[x])
      BY <3>2, InSync
    <3>4. QED  BY <2>2, <3>2, <3>3, ShowsAlike
  <2>3. QED  BY <2>1, <2>2
<1>3. QED  BY <1>1, <1>2 DEF ClientsInSync, Shows

(* Whoever is in another registered room is not in room o.                 *)
LEMMA Elsewhere ==
    ASSUME IInv, NEW o \in Objects, Listed(o), NEW x \in Objects, Listed(x), x # o,
           NEW u \in Members(heap[x])
    PROVE  u \in Users \ Members(heap[o])
<1>1. u \in Users
  BY Parts DEF Members, Room
<1>2. u \notin Members(heap[o])
  BY <1>1 DEF IInv, OneRoomPerUser, RoomsOf
<1>3. QED  BY <1>1, <1>2

LEMMA QuietSync ==
    ASSUME IInv, ClientsInSync, created' = created, dir' = dir, view' = view,
           \A x \in Objects : heap'[x].id = heap[x].id /\ LooksLike(heap'[x], heap[x])
    PROVE  ClientsInSync'
<1>1. Objects' = Objects
  BY DEF Objects
<1>2. ASSUME NEW x \in Objects, Listed(x)'
      PROVE  Shows(view', heap'[x])
  <2>1. Shows(view, heap[x])
    BY <1>2, InSync DEF Listed
  <2>2. QED  BY <2>1, ShowsAlike
<1>3. QED  BY <1>1, <1>2 DEF ClientsInSync, Shows

LEMMA QuietRoomSync ==
    ASSUME IInv, ClientsInSync, created' = created, dir' = dir, view' = view,
           NEW o \in Objects, NEW s, s.id = heap[o].id, LooksLike(s, heap[o]),
           heap' = [heap EXCEPT ![o] = s]
    PROVE  ClientsInSync'
<1>1. \A x \in Objects : heap'[x].id = heap[x].id /\ LooksLike(heap'[x], heap[x])
  BY Parts DEF LooksLike
<1>2. QED  BY <1>1, QuietSync

LEMMA RoomsAloneSync ==
    ASSUME IInv, ClientsInSync, UNCHANGED <<created, heap, dir, view>>
    PROVE  ClientsInSync'
BY QuietSync DEF LooksLike

(* The client of u hears of a state, or of a host.                         *)
LEMMA HearsState ==
    ASSUME NEW v, NEW us, NEW u \in Users, u \in us, NEW s, NEW b, NEW t,
           v[u] = [state |-> s, host |-> b]
    PROVE  TellState(v, us, t)[u] = [state |-> t, host |-> b]
<1>1. TellState(v, us, t)[u] = [v[u] EXCEPT !.state = t]
  BY DEF TellState
<1>2. [[state |-> s, host |-> b] EXCEPT !.state = t] = [state |-> t, host |-> b]
  OBVIOUS
<1>3. QED  BY <1>1, <1>2

LEMMA HearsHost ==
    ASSUME NEW v, NEW us, NEW u \in Users, u \in us, NEW s, NEW b, NEW w, NEW c, c = (u = w),
           v[u] = [state |-> s, host |-> b]
    PROVE  TellHost(v, us, w)[u] = [state |-> s, host |-> c]
<1>1. TellHost(v, us, w)[u] = [v[u] EXCEPT !.host = c]
  BY Zenon DEF TellHost
<1>2. [[state |-> s, host |-> b] EXCEPT !.host = c] = [state |-> s, host |-> c]
  OBVIOUS
<1>3. QED  BY <1>1, <1>2

(* The members of r are told the state, and the host if it changes, of s.  *)
LEMMA AllHear ==
    ASSUME NEW r, NEW s, NEW v, NEW v1, Members(r) \subseteq Users, Members(s) = Members(r),
           Shows(v, r),
           \/ v1 = v /\ s.ownerId = r.ownerId
           \/ v1 = TellHost(v, Members(r), s.ownerId)
    PROVE  LET w == TellState(v1, Members(r), s.state)
           IN  /\ Shows(w, s)
               /\ \A u \in Users \ Members(r) : w[u] = v[u]
<1> DEFINE w == TellState(v1, Members(r), s.state)
<1>1. \A u \in Users \ Members(r) : w[u] = v[u]
  BY DEF TellState, TellHost
<1>2. ASSUME NEW u \in Members(s)
      PROVE  w[u] = [state |-> s.state, host |-> (s.ownerId = u)]
  <2> DEFINE b == r.ownerId = u
             c == s.ownerId = u
  <2>1. u \in Users /\ u \in Members(r)
    OBVIOUS
  <2>2. v[u] = [state |-> r.state, host |-> b]
    BY <2>1, Zenon DEF Shows
  <2>3. c = (u = s.ownerId)
    OBVIOUS
  <2>4. s.ownerId = r.ownerId => b = c
    OBVIOUS
  <2> HIDE DEF b, c
  <2>5. v1[u] = [state |-> r.state, host |-> c]
    <3>1. CASE v1 = v /\ s.ownerId = r.ownerId
      BY <2>2, <2>4, <3>1
    <3>2. CASE v1 = TellHost(v, Members(r), s.ownerId)
      BY <2>1, <2>2, <2>3, <3>2, HearsHost
    <3>3. QED  BY <3>1, <3>2
  <2>6. w[u] = [state |-> s.state, host |-> c]
    BY <2>1, <2>5, HearsState
  <2>7. QED  BY <2>6 DEF c
<1> HIDE DEF w
<1>3. Shows(w, s)
  BY <1>2, Zenon DEF Shows
<1>4. QED  BY <1>1, <1>3 DEF w

LEMMA HostHeard ==
    ASSUME NEW r, NEW s, NEW v, Members(s) \subseteq Users, Members(s) \subseteq Members(r),
           Shows(v, r), s.state = r.state
    PROVE  Shows(TellHost(v, Members(s), s.ownerId), s)
<1> DEFINE w == TellHost(v, Members(s), s.ownerId)
<1>1. ASSUME NEW u \in Members(s)
      PROVE  w[u] = [state |-> s.state, host |-> (s.ownerId = u)]
  <2> DEFINE b == r.ownerId = u
             c == s.ownerId = u
  <2>1. u \in Users /\ u \in Members(r)
    OBVIOUS
  <2>2. v[u] = [state |-> s.state, host |-> b]
    BY <2>1, Zenon DEF Shows
  <2>3. c = (u = s.ownerId)
    OBVIOUS
  <2> HIDE DEF b, c
  <2>4. w[u] = [state |-> s.state, host |-> c]
    BY <2>1, <2>2, <2>3, HearsHost
  <2>5. QED  BY <2>4 DEF c
<1> HIDE DEF w
<1>2. Shows(w, s)
  BY <1>1, Zenon DEF Shows
<1>3. QED  BY <1>2 DEF w

LEMMA AnnounceSync ==
    ASSUME IInv, ClientsInSync, created' = created, dir' = dir, NEW o \in Objects, Listed(o),
           NEW r, r.id = heap[o].id, r.order = heap[o].order, r.ownerId = heap[o].ownerId,
           Announce(o, r)
    PROVE  ClientsInSync'
<1>1. /\ heap' = [heap EXCEPT ![o] = r] /\ Members(r) = Members(heap[o])
      /\ heap \in [Objects -> Room]
      /\ view' = [u \in Users |-> IF u \in Members(heap[o])
                                 THEN [view[u] EXCEPT !.state = r.state] ELSE view[u]]
  BY Parts DEF Announce, TellState, Members
<1>2. \A x \in Objects : heap'[x].id = heap[x].id
  BY <1>1
<1>3. ASSUME NEW x \in Objects, x # o
      PROVE  /\ LooksLike(heap'[x], heap[x])
             /\ Listed(x) => \A u \in Members(heap[x]) : view'[u] = view[u]
  BY <1>1, <1>3, Elsewhere DEF LooksLike
<1>4. Shows(view', heap'[o])
  <2>1. heap'[o] = r /\ Shows(view, heap[o]) /\ Members(heap[o]) \subseteq Users
    BY <1>1, InSync, MembersTyped
  <2>2. view' = TellState(view, Members(heap[o]), r.state)
    BY <1>1 DEF Announce
  <2>3. Shows(TellState(view, Members(heap[o]), r.state), r)
    <3>1. Members(r) = Members(heap[o]) /\ r.ownerId = heap[o].ownerId
      BY <1>1
    <3>2. QED  BY <2>1, <3>1, AllHear
  <2>4. QED  BY <2>1, <2>2, <2>3
<1>5. QED  BY <1>2, <1>3, <1>4, OneRoomSync

-----------------------------------------------------------------------------
(* The end of a game: everybody hears of the new state and the new host.   *)
LEMMA SettledShows ==
    ASSUME NEW n \in Nat, NEW h \in [1..n -> Room], NEW o \in 1..n, dir[h[o].id] = o,
           NEW v \in Views, Shows(v, h[o])
    PROVE  LET w == SettledView(v, h, o, Members(h[o]))
           IN  /\ Shows(w, Settled(h, o)[o])
               /\ \A u \in Users \ Members(h[o]) : w[u] = v[u]
<1> DEFINE r == h[o]
           a == ClearFlags(r)
           e == EndState(a, r)
<1>1. CASE ~GameOver(r)
  BY <1>1 DEF Settled, SettledView
<1>2. CASE GameOver(r)
  <2>1. /\ r \in Room /\ a \in Room /\ a.order = r.order /\ a.ownerId = r.ownerId
        /\ Members(r) \subseteq Users
    BY FlagsType, MembersTyped DEF ClearFlags
  <2>2. Members(a) = Members(r)
    BY <2>1, MembersSameOrder
  <2>3. Ended(h, o)[o] = e /\ Settled(h, o)[o] = e
    BY <1>2 DEF Ended, Settled
  <2>4. e.order = r.order /\ Members(e) = Members(r)
    <3>1. e.order = a.order
      BY <2>1, EndStateType
    <3>2. QED  BY <2>1, <3>1, MembersSameOrder
  <2> HIDE DEF a
  <2>5. e.ownerId = IF Rotates(r) THEN NextHost(r) ELSE r.ownerId
    <3>1. Rotates(r) => NextHost(r) \in Members(a)
      BY <2>1, <2>2, NextHostMember
    <3>2. CASE r.cycle
      BY <2>1, <3>1, <3>2 DEF EndState, Room
    <3>3. CASE ~r.cycle
      BY <2>1, <3>3 DEF EndState, Rotates, Room
    <3>4. QED  BY <3>2, <3>3
  <2> HIDE DEF e
  <2> DEFINE v1 == IF Rotates(r) THEN TellHost(v, Members(r), NextHost(r)) ELSE v
             w == TellState(v1, Members(r), e.state)
  <2>6. SettledView(v, h, o, Members(h[o])) = w
    BY <1>2, <2>3 DEF SettledView
  <2>7. \/ v1 = v /\ e.ownerId = r.ownerId
        \/ v1 = TellHost(v, Members(r), e.ownerId)
    BY <2>5
  <2> HIDE DEF v1
  <2>8. Shows(w, e) /\ \A u \in Users \ Members(r) : w[u] = v[u]
    BY <2>1, <2>4, <2>7, AllHear
  <2> HIDE DEF w
  <2>9. QED  BY <2>3, <2>6, <2>8
<1>3. QED  BY <1>1, <1>2

(* Room o becomes s, which looks the same, and the end of its game is      *)
(* looked for.                                                             *)
LEMMA SettledSync ==
    ASSUME IInv, ClientsInSync, created' = created, dir' = dir, NEW o \in Objects, Listed(o),
           NEW s \in Room, s.id = heap[o].id, LooksLike(s, heap[o]),
           heap' = Settled([heap EXCEPT ![o] = s], o),
           view' = SettledView(view, [heap EXCEPT ![o] = s], o, Members(s))
    PROVE  ClientsInSync'
<1> DEFINE h == [heap EXCEPT ![o] = s]
<1>1. /\ created \in Nat /\ o \in 1..created /\ h \in [1..created -> Room] /\ h[o] = s
      /\ \A x \in Objects : h[x].id = heap[x].id /\ (x # o => h[x] = heap[x])
      /\ dir[h[o].id] = o /\ view \in Views
  BY Parts DEF Objects, Listed
<1>2. Members(s) = Members(heap[o]) /\ Shows(view, s)
  BY InSync, ShowsAlike DEF LooksLike, Members
<1> DEFINE w == SettledView(view, h, o, Members(h[o]))
<1>3. heap' = Settled(h, o) /\ view' = w
  BY <1>1
<1> HIDE DEF h
<1>4. /\ Shows(view', heap'[o])
      /\ \A u \in Users \ Members(heap[o]) : view'[u] = view[u]
  <2>1. Shows(w, Settled(h, o)[o]) /\ \A u \in Users \ Members(h[o]) : w[u] = view[u]
    BY <1>1, <1>2, SettledShows
  <2> HIDE DEF w
  <2>2. QED  BY <1>1, <1>2, <1>3, <2>1
<1>5. \A x \in Objects : heap'[x].id = heap[x].id /\ (x # o => heap'[x] = heap[x])
  <2>1. \A x \in 1..created : /\ x # o => Settled(h, o)[x] = h[x]
                              /\ Keeps(h[x], Settled(h, o)[x])
    BY <1>1, SettledKeeps, SettledHere
  <2>2. QED  BY <1>1, <1>3, <2>1 DEF Keeps, Objects
<1>6. ASSUME NEW x \in Objects, x # o
      PROVE  /\ LooksLike(heap'[x], heap[x])
             /\ Listed(x) => \A u \in Members(heap[x]) : view'[u] = view[u]
  BY <1>4, <1>5, <1>6, Elsewhere DEF LooksLike
<1>7. QED  BY <1>4, <1>5, <1>6, OneRoomSync

-----------------------------------------------------------------------------
(* Leaving: those who stay hear of the new host, then of the end of their  *)
(* game if there is one.                                                   *)
LEMMA DepartSync ==
    ASSUME IInv, ClientsInSync, created' = created,
           NEW u \in Users, NEW o \in RoomsOf(u), NEW c \in BOOLEAN, Depart(u, o, c)
    PROVE  ClientsInSync'
<1> DEFINE r == RemovePlayer(heap[o], u)
           h == [heap EXCEPT ![o] = r]
           v == [(IF heap[o].ownerId = u THEN TellHost(view, Members(r), r.ownerId) ELSE view)
                    EXCEPT ![u] = Outside]
<1>1. /\ o \in Objects /\ heap[o] \in Room /\ Listed(o) /\ u \in Members(heap[o])
      /\ r \in Room /\ r.id = heap[o].id /\ r.state = heap[o].state
      /\ Members(r) = Members(heap[o]) \ {u}
      /\ heap[o].ownerId # u => r.ownerId = heap[o].ownerId
  BY Remainder
<1>2. /\ r.order = <<>> => /\ dir' = [dir EXCEPT ![r.id] = None] /\ heap' = h /\ view' = v
      /\ r.order # <<>> =>
            /\ dir' = dir
            /\ \/ heap' = h /\ view' = v
               \/ heap' = Settled(h, o) /\ view' = SettledView(v, h, o, Members(r))
  BY DEF Depart
<1> HIDE DEF r
<1>3. /\ created \in Nat /\ o \in 1..created /\ h \in [1..created -> Room] /\ h[o] = r
      /\ \A x \in Objects : h[x].id = heap[x].id /\ (x # o => h[x] = heap[x])
      /\ dir[h[o].id] = o
      /\ view \in Views /\ Members(r) \subseteq Users
  BY <1>1, Parts, MembersTyped DEF Objects, Listed
<1>4. /\ v \in Views
      /\ \A w \in Users \ Members(heap[o]) : v[w] = view[w]
      /\ Shows(v, r)
  <2> DEFINE m == IF heap[o].ownerId = u THEN TellHost(view, Members(r), r.ownerId) ELSE view
  <2>1. m \in Views /\ Outside \in [state: RoomState, host: BOOLEAN]
    BY <1>3, TellTyped, StatesTyped
  <2>2. v = [m EXCEPT ![u] = Outside]
    OBVIOUS
  <2>3. \A w \in Users \ Members(r) : m[w] = view[w]
    BY DEF TellHost
  <2>4. Shows(m, r)
    <3>1. Shows(view, heap[o])
      BY <1>1, InSync
    <3>2. CASE heap[o].ownerId # u
      BY <1>1, <3>1, <3>2 DEF Shows
    <3>3. CASE heap[o].ownerId = u
      <4>1. Shows(TellHost(view, Members(r), r.ownerId), r)
        BY <1>1, <1>3, <3>1, HostHeard
      <4>2. QED  BY <3>3, <4>1
    <3>4. QED  BY <3>2, <3>3
  <2> HIDE DEF m, v
  <2>5. v \in Views /\ \A w \in Users \ {u} : v[w] = m[w]
    BY <2>1, <2>2 DEF Views
  <2>6. Shows(v, r)
    BY <1>1, <1>3, <2>4, <2>5 DEF Shows
  <2>7. QED  BY <1>1, <2>3, <2>5, <2>6
<1> HIDE DEF h, v
<1>5. /\ \A x \in Objects : heap'[x].id = heap[x].id /\ (x # o => heap'[x] = heap[x])
      /\ \A w \in Users \ Members(heap[o]) : view'[w] = view[w]
      /\ r.order # <<>> => Shows(view', heap'[o])
  <2>1. CASE heap' = h /\ view' = v
    BY <1>3, <1>4, <2>1
  <2>2. CASE heap' = Settled(h, o) /\ view' = SettledView(v, h, o, Members(r))
    <3> DEFINE w == SettledView(v, h, o, Members(h[o]))
    <3>1. Shows(w, Settled(h, o)[o]) /\ \A x \in Users \ Members(h[o]) : w[x] = v[x]
      BY <1>3, <1>4, SettledShows
    <3>2. view' = w
      BY <1>3, <2>2
    <3> HIDE DEF w
    <3>3. \A x \in 1..created : /\ x # o => Settled(h, o)[x] = h[x]
                                /\ Keeps(h[x], Settled(h, o)[x])
      BY <1>3, SettledKeeps, SettledHere
    <3>4. \A x \in Objects : heap'[x].id = heap[x].id /\ (x # o => heap'[x] = heap[x])
      BY <1>3, <2>2, <3>3 DEF Keeps, Objects
    <3>5. QED  BY <1>1, <1>3, <1>4, <2>2, <3>1, <3>2, <3>4
  <2>3. QED  BY <1>2, <2>1, <2>2
<1>6. ASSUME NEW x \in Objects, x # o
      PROVE  /\ LooksLike(heap'[x], heap[x])
             /\ Listed(x) => \A w \in Members(heap[x]) : view'[w] = view[w]
  BY <1>1, <1>5, <1>6, Elsewhere DEF LooksLike
<1>7. r.order = <<>> => ~Listed(o)'
  <2>1. ASSUME r.order = <<>>
        PROVE  dir'[heap'[o].id] = None /\ o # None
    <3>1. heap[o].id \in RoomIds /\ o # None
      BY <1>1 DEF Room, Objects, None
    <3>2. QED  BY <1>1, <1>2, <1>5, <2>1, <3>1, Parts
  <2>2. QED  BY <2>1 DEF Listed
<1>8. \A id \in RoomIds : dir'[id] \in {dir[id], None}
  BY <1>2, Parts
<1>9. QED  BY <1>1, <1>5, <1>6, <1>7, <1>8, OneRoomSync

LEMMA CreateRoomSync ==
    ASSUME IInv, ClientsInSync, NEW u \in Users, NEW id \in RoomIds, CreateRoom(u, id)
    PROVE  ClientsInSync'
<1> DEFINE n == created + 1
           r == NewRoom(id, u)
<1>1. n \in Nat /\ n \notin Objects /\ Objects' = Objects \cup {n} /\ None \notin Objects
  BY Parts DEF CreateRoom, Objects, None
<1>2. /\ \A o \in Objects : heap'[o] = heap[o]
      /\ heap'[n] = r
      /\ dir' = [dir EXCEPT ![id] = n]
      /\ RoomsOf(u) = {} /\ view' = [view EXCEPT ![u] = [state |-> Selecting(NoChart), host |-> TRUE]]
  BY <1>1 DEF CreateRoom, Objects
<1>3. /\ Members(r) = {u} /\ r.ownerId = u /\ r.state = Selecting(NoChart)
  BY NewRoomType DEF NewRoom
<1> HIDE DEF n, r
<1>4. Shows(view', heap'[n])
  <2>1. view'[u] = [state |-> Selecting(NoChart), host |-> TRUE]
    BY <1>2, Parts DEF Views
  <2>2. QED  BY <1>2, <1>3, <2>1 DEF Shows
<1>5. ASSUME NEW o \in Objects, Listed(o)'
      PROVE  Shows(view', heap'[o])
  <2>1. heap[o].id \in RoomIds
    BY Parts DEF Room
  <2>2. Listed(o)
    BY <1>1, <1>2, <1>5, <2>1, Parts DEF Listed
  <2>3. \A w \in Members(heap[o]) : view'[w] = view[w]
    BY <1>2, <2>2, Parts DEF RoomsOf, Views
  <2>4. Shows(view, heap[o])
    BY <2>2, InSync
  <2>5. QED  BY <1>2, <2>3, <2>4, ShowsAlike DEF LooksLike
<1>6. QED  BY <1>1, <1>4, <1>5 DEF ClientsInSync, Shows

(* Who comes in is not the host: the owner is inside.                      *)
LEMMA JoinRoomSync ==
    ASSUME IInv, ClientsInSync, NEW u \in Users, NEW id \in RoomIds, NEW m \in BOOLEAN,
           JoinRoom(u, id, m)
    PROVE  ClientsInSync'
<1> DEFINE o == dir[id]
           r == heap[o]
           s == AddPlayer(r, u, m)
<1>1. /\ created' = created /\ dir' = dir /\ o # None /\ o \in Objects /\ RoomsOf(u) = {}
      /\ heap' = [heap EXCEPT ![o] = s]
      /\ view' = [view EXCEPT ![u] = [state |-> r.state, host |-> FALSE]]
  BY Parts DEF JoinRoom
<1>2. r \in Room /\ heap \in [Objects -> Room] /\ view \in Views /\ Listed(o)
  BY <1>1, Parts DEF Listed, IInv, OwnerIsMember
<1>3. s.id = r.id /\ s.ownerId = r.ownerId /\ s.state = r.state /\ Members(s) = Members(r) \cup {u}
  <2>1. s.id = r.id /\ s.ownerId = r.ownerId /\ s.order = Append(r.order, u)
    BY <1>2, AddPlayerType
  <2>2. s.state = r.state /\ r.order \in Seq(Users)
    BY <1>2 DEF AddPlayer, Room
  <2> HIDE DEF s, r
  <2>3. Members(s) = Elems(s.order) /\ Members(r) = Elems(r.order)
    BY DEF Members, Elems
  <2>4. QED  BY <2>1, <2>2, <2>3, AppendMembers
<1>4. r.ownerId \in Members(r) /\ u \notin Members(r)
  BY <1>1, <1>2 DEF IInv, OwnerIsMember, RoomsOf
<1> HIDE DEF o, r, s
<1>5. /\ view'[u] = [state |-> r.state, host |-> FALSE]
      /\ \A w \in Users \ {u} : view'[w] = view[w]
  BY <1>1, <1>2 DEF Views
<1>6. Shows(view', heap'[o])
  <2>1. heap'[o] = s /\ Members(r) \subseteq Users
    BY <1>1, <1>2, MembersTyped
  <2>2. Shows(view, r)
    BY <1>1, <1>2, InSync DEF r, o
  <2>3. ASSUME NEW w \in Members(r)  PROVE view'[w] = [state |-> s.state, host |-> (s.ownerId = w)]
    <3>1. view'[w] = view[w]
      BY <1>4, <1>5, <2>1, <2>3
    <3>2. QED  BY <1>3, <2>2, <2>3, <3>1 DEF Shows
  <2>4. view'[u] = [state |-> s.state, host |-> (s.ownerId = u)]
    BY <1>3, <1>4, <1>5
  <2>5. QED  BY <1>3, <2>1, <2>3, <2>4, Zenon DEF Shows
<1>7. ASSUME NEW x \in Objects, x # o
      PROVE  /\ LooksLike(heap'[x], heap[x])
             /\ Listed(x) => \A w \in Members(heap[x]) : view'[w] = view[w]
  <2>1. heap'[x] = heap[x]
    BY <1>1, <1>2, <1>7
  <2>2. Listed(x) => u \notin Members(heap[x])
    BY <1>1 DEF RoomsOf
  <2>3. Members(heap[x]) \subseteq Users
    BY <1>2, MembersTyped
  <2>4. QED  BY <1>5, <2>1, <2>2, <2>3 DEF LooksLike
<1>8. \A x \in Objects : heap'[x].id = heap[x].id
  BY <1>1, <1>2, <1>3 DEF r
<1>9. QED  BY <1>1, <1>6, <1>7, <1>8, OneRoomSync

LEMMA CloseRoomSync ==
    ASSUME IInv, ClientsInSync, NEW id \in RoomIds, CloseRoom(id)
    PROVE  ClientsInSync'
<1>1. PICK o \in Objects : o = dir[id] /\ o # None
  BY Parts DEF CloseRoom
<1>2. /\ created' = created /\ heap' = heap /\ dir' = [dir EXCEPT ![id] = None]
      /\ view' = [u \in Users |-> IF u \in Members(heap[o]) THEN Outside ELSE view[u]]
  BY <1>1 DEF CloseRoom
<1>3. heap[o].id = id /\ Listed(o)
  BY <1>1 DEF IInv, OwnerIsMember, Listed
<1>4. ~Listed(o)'
  <2>1. dir'[heap'[o].id] = None
    BY <1>2, <1>3, Parts
  <2>2. QED  BY <1>1, <2>1 DEF Listed
<1>5. ASSUME NEW x \in Objects, x # o
      PROVE  /\ LooksLike(heap'[x], heap[x])
             /\ Listed(x) => \A w \in Members(heap[x]) : view'[w] = view[w]
  BY <1>2, <1>3, <1>5, Elsewhere DEF LooksLike
<1>6. \A i \in RoomIds : dir'[i] \in {dir[i], None}
  BY <1>2, Parts
<1>7. \A x \in Objects : heap'[x].id = heap[x].id
  BY <1>2
<1>8. QED  BY <1>2, <1>4, <1>5, <1>6, <1>7, OneRoomSync

(* The room for which an answer comes.                                     *)
LEMMA AwaitedRoom ==
    ASSUME IInv, NobodyBehind, NEW c \in Slots, calls[c].kind \in {"chart", "record"}
    PROVE  \E o \in Objects :
              /\ o = calls[c].room /\ o # None
              /\ Listed(o) \/ (dir[heap[o].id] = None /\ Members(heap[o]) = {})
<1>1. calls[c] \in [kind: {"chart"}, room: Objects, chart: Charts]
                 \cup [kind: {"record"}, room: Objects, user: Users, same: BOOLEAN]
  <2>1. calls[c] \in Call \cup {Idle}
    BY Parts
  <2>2. QED  BY <2>1 DEF Call, Idle
<1>2. calls[c].room \in Objects /\ calls[c].room # None
  BY <1>1 DEF Objects, None
<1>3. calls[c].room \in Awaited
  BY DEF Awaited
<1>4. QED  BY <1>2, <1>3 DEF NobodyBehind

(* An answer that finds its room emptied changes nothing anybody sees.     *)
LEMMA EmptyRoom ==
    ASSUME NEW o, NEW ears \in Hearers(o), Members(heap[o]) = {}
    PROVE  /\ \A s : TellState(view, ears, s) = [u \in Users |-> view[u]]
           /\ \A h : TellHost(view, ears, h) = [u \in Users |-> view[u]]
<1>1. ears = {}
  BY DEF Hearers
<1>2. QED  BY <1>1 DEF TellState, TellHost

LEMMA ChartFetchedSync ==
    ASSUME IInv, ClientsInSync, NobodyBehind, NEW c \in Slots, ChartFetched(c)
    PROVE  ClientsInSync'
<1>1. PICK o \in Objects :
          /\ o = calls[c].room /\ o # None
          /\ Listed(o) \/ (dir[heap[o].id] = None /\ Members(heap[o]) = {})
  BY AwaitedRoom DEF ChartFetched
<1> DEFINE st == Selecting(calls[c].chart)
           t == dir[heap[o].id]
<1>2. heap[o] \in Room
  BY Parts
<1>3. PICK ears \in Hearers(o) : view' = TellState(view, ears, st)
  BY <1>1 DEF ChartFetched
<1>4. /\ UNCHANGED <<created, dir>>
      /\ heap' = IF t = None THEN heap ELSE [heap EXCEPT ![t] = ChartSet(heap[t], calls[c].chart)]
  BY <1>1, Parts DEF ChartFetched
<1>5. CASE Listed(o)
  <2> DEFINE s == ChartSet(heap[o], calls[c].chart)
  <2>1. t = o /\ ears = Members(heap[o])
    BY <1>5 DEF Listed, Hearers
  <2>2. /\ s.id = heap[o].id /\ s.order = heap[o].order /\ s.ownerId = heap[o].ownerId
        /\ s.state = st
    BY <1>2 DEF ChartSet, Room
  <2>3. heap' = [heap EXCEPT ![o] = s]
    BY <1>1, <1>2, <1>4, <2>1
  <2> HIDE DEF s, st, t
  <2>4. Members(s) = Members(heap[o])
    BY <2>2, MembersSameOrder
  <2>5. Announce(o, s)
    BY <1>3, <2>1, <2>2, <2>3, <2>4 DEF Announce
  <2>6. QED  BY <1>2, <1>4, <1>5, <2>2, <2>5, AnnounceSync
<1>6. CASE t = None /\ Members(heap[o]) = {}
  <2>1. view' = view
    BY <1>3, <1>6, EmptyRoom, Parts DEF Views
  <2>2. QED  BY <1>4, <1>6, <2>1, RoomsAloneSync
<1>7. QED  BY <1>1, <1>5, <1>6 DEF Listed

LEMMA AbortSync ==
    ASSUME IInv, ClientsInSync, NEW u \in Users, Abort(u)
    PROVE  ClientsInSync'
<1>1. PICK o \in RoomsOf(u) :
        LET h == [heap EXCEPT ![o].finished = @ \cup {u}]
        IN  heap' = Settled(h, o) /\ view' = SettledView(view, h, o, Members(h[o]))
  BY DEF Abort
<1>2. o \in Objects /\ heap[o] \in Room /\ Listed(o) /\ heap \in [Objects -> Room]
  BY Parts DEF RoomsOf
<1> DEFINE s == [heap[o] EXCEPT !.finished = @ \cup {u}]
<1>3. s \in Room /\ s.id = heap[o].id /\ LooksLike(s, heap[o])
  BY <1>2 DEF Room, LooksLike
<1>4. [heap EXCEPT ![o].finished = @ \cup {u}] = [heap EXCEPT ![o] = s]
  BY <1>2
<1> HIDE DEF s
<1>5. [heap EXCEPT ![o] = s][o] = s
  BY <1>2
<1>6. UNCHANGED <<created, dir>>
  BY DEF Abort
<1>7. QED  BY <1>1, <1>2, <1>3, <1>4, <1>5, <1>6, SettledSync

LEMMA RecordFetchedSync ==
    ASSUME IInv, ClientsInSync, NobodyBehind, NEW c \in Slots, RecordFetched(c)
    PROVE  ClientsInSync'
<1>1. PICK o \in Objects :
          /\ o = calls[c].room /\ o # None
          /\ Listed(o) \/ (dir[heap[o].id] = None /\ Members(heap[o]) = {})
  BY AwaitedRoom DEF RecordFetched
<1> DEFINE s == IF calls[c].same THEN [heap[o] EXCEPT !.finished = @ \cup {calls[c].user}] ELSE heap[o]
           h == [heap EXCEPT ![o] = s]
<1>2. heap[o] \in Room /\ heap \in [Objects -> Room]
  BY Parts
<1>3. s \in Room /\ s.id = heap[o].id /\ LooksLike(s, heap[o])
  <2>1. calls[c] \in [kind: {"record"}, room: Objects, user: Users, same: BOOLEAN]
    <3>1. calls[c] \in Call \cup {Idle} /\ calls[c].kind = "record"
      BY Parts DEF RecordFetched
    <3>2. QED  BY <3>1 DEF Call, Idle
  <2>2. QED  BY <1>2, <2>1 DEF Room, LooksLike
<1>4. (IF calls[c].same THEN [heap EXCEPT ![o].finished = @ \cup {calls[c].user}] ELSE heap) = h
  BY <1>2
<1>5. PICK ears \in Hearers(o) : heap' = Settled(h, o) /\ view' = SettledView(view, h, o, ears)
  BY <1>1, <1>4 DEF RecordFetched
<1>6. UNCHANGED <<created, dir>>
  BY DEF RecordFetched
<1> HIDE DEF s
<1>7. CASE Listed(o)
  <2>1. ears = Members(s)
    BY <1>3, <1>7 DEF Hearers, LooksLike, Members
  <2>2. QED  BY <1>2, <1>3, <1>5, <1>6, <1>7, <2>1, SettledSync
<1>8. CASE dir[heap[o].id] = None /\ Members(heap[o]) = {}
  <2>1. view' = view
    <3>1. view \in [Users -> [state: RoomState, host: BOOLEAN]]
      BY Parts DEF Views
    <3>2. QED  BY <1>5, <1>8, <3>1, EmptyRoom DEF SettledView
  <2>2. \A x \in Objects : heap'[x].id = heap[x].id /\ (x # o => heap'[x] = heap[x])
    <3>1. /\ created \in Nat /\ o \in 1..created /\ h \in [1..created -> Room] /\ h[o] = s
          /\ \A x \in Objects : h[x].id = heap[x].id /\ (x # o => h[x] = heap[x])
          /\ dir[h[o].id] = None
      BY <1>2, <1>3, <1>8, Parts DEF Objects
    <3> HIDE DEF h
    <3>2. \A x \in 1..created : /\ x # o => Settled(h, o)[x] = h[x]
                                /\ Keeps(h[x], Settled(h, o)[x])
      BY <3>1, SettledKeeps, SettledHere
    <3>3. QED  BY <1>5, <3>1, <3>2 DEF Keeps, Objects
  <2>3. ~Listed(o)'
    <3>1. dir'[heap'[o].id] = None /\ o # None
      BY <1>1, <1>6, <1>8, <2>2
    <3>2. QED  BY <3>1 DEF Listed
  <2>4. ASSUME NEW x \in Objects, x # o
        PROVE  /\ LooksLike(heap'[x], heap[x])
               /\ Listed(x) => \A u \in Members(heap[x]) : view'[u] = view[u]
    BY <2>1, <2>2, <2>4 DEF LooksLike
  <2>5. \A id \in RoomIds : dir'[id] \in {dir[id], None}
    BY <1>6
  <2>6. QED  BY <1>6, <2>2, <2>3, <2>4, <2>5, OneRoomSync
<1>9. QED  BY <1>1, <1>7, <1>8 DEF Listed

(* s is the same room with the same players and the same owner.            *)
SamePlayers(s, r) == s.id = r.id /\ s.order = r.order /\ s.ownerId = r.ownerId

LEMMA FlagsLook ==
    ASSUME NEW r \in Room, NEW x, NEW y
    PROVE  /\ \A s \in {[r EXCEPT !.cycle = x], [r EXCEPT !.locked = x]} :
                 SamePlayers(s, r) /\ LooksLike(s, r)
           /\ \A s \in {[r EXCEPT !.maxPlayers = x], [r EXCEPT !.blacklist = x],
                         [r EXCEPT !.whitelist = x]} : SamePlayers(s, r) /\ LooksLike(s, r)
           /\ \A s \in {[r EXCEPT !.soloConfirmPending = x], [r EXCEPT !.ready = x],
                         SetFlags(r, x, y)} : SamePlayers(s, r) /\ LooksLike(s, r)
BY DEF SetFlags, SamePlayers, LooksLike, Room

LEMMA StartsLook ==
    ASSUME NEW r \in Room, NEW rdy, NEW fin, NEW c
    PROVE  /\ \A s \in {StartPlaying(r, rdy, fin),
                         [StartPlaying(r, rdy, fin) EXCEPT !.soloConfirmPending = FALSE]} :
                 SamePlayers(s, r)
           /\ \A s \in {[SetFlags(r, rdy, fin) EXCEPT !.state = Waiting],
                         [SetFlags(r, rdy, fin) EXCEPT !.state = Selecting(c),
                                                       !.soloConfirmPending = FALSE]} :
                 SamePlayers(s, r)
BY DEF StartPlaying, SetFlags, SamePlayers, Room

LEMMA OwnerSync ==
    ASSUME IInv, ClientsInSync, NEW u \in Users, NEW b \in BOOLEAN, CycleRoom(u, b) \/ LockRoom(u, b)
    PROVE  ClientsInSync'
<1>1. PICK o \in Objects : \/ heap' = [heap EXCEPT ![o] = [heap[o] EXCEPT !.cycle = b]]
                           \/ heap' = [heap EXCEPT ![o] = [heap[o] EXCEPT !.locked = b]]
  BY Parts DEF CycleRoom, LockRoom
<1>2. heap[o] \in Room
  BY Parts
<1>3. UNCHANGED <<created, dir, view>>
  BY DEF CycleRoom, LockRoom
<1>4. PICK s \in {[heap[o] EXCEPT !.cycle = b], [heap[o] EXCEPT !.locked = b]} :
        heap' = [heap EXCEPT ![o] = s]
  BY <1>1
<1>5. SamePlayers(s, heap[o]) /\ LooksLike(s, heap[o])
  BY <1>2, <1>4, FlagsLook
<1>6. QED  BY <1>3, <1>4, <1>5, QuietRoomSync DEF SamePlayers

LEMMA StartSync ==
    ASSUME IInv, ClientsInSync, NEW u \in Users, RequestStart(u) \/ Ready(u) \/ CancelReady(u)
    PROVE  ClientsInSync'
<1>1. UNCHANGED <<created, dir>>
  BY DEF RequestStart, Ready, CancelReady
<1>2. PICK o \in RoomsOf(u) :
        \/ \E rdy, fin :
              \/ Announce(o, StartPlaying(heap[o], rdy, fin))
              \/ Announce(o, [StartPlaying(heap[o], rdy, fin) EXCEPT !.soloConfirmPending = FALSE])
              \/ Announce(o, [SetFlags(heap[o], rdy, fin) EXCEPT !.state = Waiting])
              \/ Announce(o, [SetFlags(heap[o], rdy, fin) EXCEPT
                                !.state = Selecting(heap[o].selectedChart), !.soloConfirmPending = FALSE])
        \/ /\ view' = view
           /\ \E x, y :
                \/ heap' = [heap EXCEPT ![o] = [heap[o] EXCEPT !.soloConfirmPending = x]]
                \/ heap' = [heap EXCEPT ![o] = [heap[o] EXCEPT !.ready = x]]
                \/ heap' = [heap EXCEPT ![o] = SetFlags(heap[o], x, y)]
  <2>1. CASE RequestStart(u)
    <3>1. PICK o \in RoomsOf(u) :
            \/ Announce(o, [SetFlags(heap[o], {u}, {}) EXCEPT !.state = Waiting])
            \/ Announce(o, [StartPlaying(heap[o], {}, {}) EXCEPT !.soloConfirmPending = FALSE])
            \/ /\ heap' = [heap EXCEPT ![o] = [heap[o] EXCEPT !.soloConfirmPending = TRUE]]
               /\ view' = view
      BY <2>1 DEF RequestStart
    <3>2. QED  BY <3>1
  <2>2. CASE Ready(u)
    <3>1. PICK o \in RoomsOf(u) :
            \/ Announce(o, StartPlaying(heap[o], heap[o].ready \cup {u}, {}))
            \/ /\ heap' = [heap EXCEPT ![o] = [heap[o] EXCEPT !.ready = heap[o].ready \cup {u}]]
               /\ view' = view
      BY <2>2 DEF Ready
    <3>2. QED  BY <3>1
  <2>3. CASE CancelReady(u)
    <3>1. PICK o \in RoomsOf(u) :
            \/ Announce(o, [SetFlags(heap[o], {}, {}) EXCEPT
                                !.state = Selecting(heap[o].selectedChart), !.soloConfirmPending = FALSE])
            \/ /\ heap' = [heap EXCEPT ![o] =
                              SetFlags(heap[o], heap[o].ready \ {u}, heap[o].finished \ {u})]
               /\ view' = view
      BY <2>3 DEF CancelReady, ClearFlags
    <3>2. QED  BY <3>1
  <2>4. QED  BY <2>1, <2>2, <2>3
<1>3. o \in Objects /\ heap[o] \in Room /\ Listed(o)
  BY Parts DEF RoomsOf
<1>4. ASSUME NEW s, SamePlayers(s, heap[o]), Announce(o, s)
      PROVE  ClientsInSync'
  BY <1>1, <1>3, <1>4, AnnounceSync DEF SamePlayers
<1>5. ASSUME NEW s, SamePlayers(s, heap[o]), LooksLike(s, heap[o]),
             heap' = [heap EXCEPT ![o] = s], view' = view
      PROVE  ClientsInSync'
  BY <1>1, <1>3, <1>5, QuietRoomSync DEF SamePlayers
<1>6. ASSUME NEW rdy, NEW fin, NEW c,
             NEW s \in {StartPlaying(heap[o], rdy, fin),
                        [StartPlaying(heap[o], rdy, fin) EXCEPT !.soloConfirmPending = FALSE],
                        [SetFlags(heap[o], rdy, fin) EXCEPT !.state = Waiting],
                        [SetFlags(heap[o], rdy, fin) EXCEPT !.state = Selecting(c),
                                                            !.soloConfirmPending = FALSE]},
             Announce(o, s)
      PROVE  ClientsInSync'
  <2>1. CASE s \in {StartPlaying(heap[o], rdy, fin),
                    [StartPlaying(heap[o], rdy, fin) EXCEPT !.soloConfirmPending = FALSE]}
    BY <1>3, <1>4, <1>6, <2>1, StartsLook
  <2>2. CASE s \in {[SetFlags(heap[o], rdy, fin) EXCEPT !.state = Waiting],
                    [SetFlags(heap[o], rdy, fin) EXCEPT !.state = Selecting(c),
                                                        !.soloConfirmPending = FALSE]}
    BY <1>3, <1>4, <1>6, <2>2, StartsLook
  <2>3. QED  BY <1>6, <2>1, <2>2
<1>7. ASSUME NEW x, NEW y,
             NEW s \in {[heap[o] EXCEPT !.soloConfirmPending = x], [heap[o] EXCEPT !.ready = x],
                        SetFlags(heap[o], x, y)},
             heap' = [heap EXCEPT ![o] = s], view' = view
      PROVE  ClientsInSync'
  <2>1. SamePlayers(s, heap[o]) /\ LooksLike(s, heap[o])
    BY <1>3, <1>7, FlagsLook
  <2>2. QED  BY <1>5, <1>7, <2>1
<1>8. QED  BY <1>2, <1>6, <1>7

LEMMA AdminSync ==
    ASSUME IInv, ClientsInSync, NEW id \in RoomIds,
           \/ ForceStart(id) \/ ToggleRoomLock(id) \/ ToggleRoomMode(id)
           \/ \E n \in Capacities : SetRoomMaxPlayers(id, n)
           \/ \E s \in Slots, list \in Lists, kind \in {"blacklist", "whitelist"} :
                  SetList(id, kind, list, s)
    PROVE  ClientsInSync'
<1>1. PICK o \in Objects : o = dir[id] /\ o # None
  BY Parts DEF ForceStart, ToggleRoomLock, ToggleRoomMode, SetRoomMaxPlayers, SetList
<1>2. heap[o] \in Room /\ Listed(o)
  BY <1>1, Parts DEF IInv, OwnerIsMember, Listed
<1>3. UNCHANGED <<created, dir>>
  BY DEF ForceStart, ToggleRoomLock, ToggleRoomMode, SetRoomMaxPlayers, SetList
<1>4. CASE ForceStart(id)
  <2>1. PICK fin : Announce(o, StartPlaying(heap[o], {}, fin))
    BY <1>1, <1>4 DEF ForceStart
  <2> DEFINE s == StartPlaying(heap[o], {}, fin)
  <2>2. SamePlayers(s, heap[o])
    BY <1>2, StartsLook
  <2>3. Announce(o, s)
    BY <2>1
  <2> HIDE DEF s
  <2>4. QED  BY <1>2, <1>3, <2>2, <2>3, AnnounceSync DEF SamePlayers
<1>5. ASSUME NEW x,
             NEW s \in {[heap[o] EXCEPT !.locked = x], [heap[o] EXCEPT !.cycle = x],
                        [heap[o] EXCEPT !.maxPlayers = x], [heap[o] EXCEPT !.blacklist = x],
                        [heap[o] EXCEPT !.whitelist = x]},
             heap' = [heap EXCEPT ![o] = s], view' = view
      PROVE  ClientsInSync'
  <2>1. SamePlayers(s, heap[o]) /\ LooksLike(s, heap[o])
    BY <1>2, <1>5, FlagsLook
  <2>2. QED  BY <1>2, <1>3, <1>5, <2>1, QuietRoomSync DEF SamePlayers
<1>6. CASE ToggleRoomLock(id) \/ ToggleRoomMode(id)
  <2>1. /\ view' = view
        /\ \/ heap' = [heap EXCEPT ![o] = [heap[o] EXCEPT !.locked = ~@]]
           \/ heap' = [heap EXCEPT ![o] = [heap[o] EXCEPT !.cycle = ~@]]
    BY <1>1, <1>6, Parts DEF ToggleRoomLock, ToggleRoomMode
  <2>2. QED  BY <1>5, <2>1
<1>7. ASSUME NEW n \in Capacities, SetRoomMaxPlayers(id, n)
      PROVE  ClientsInSync'
  <2>1. view' = view /\ heap' = [heap EXCEPT ![o] = [heap[o] EXCEPT !.maxPlayers = n]]
    BY <1>1, <1>7, Parts DEF SetRoomMaxPlayers
  <2>2. QED  BY <1>5, <2>1
<1>8. ASSUME NEW s \in Slots, NEW list \in Lists, NEW kind \in {"blacklist", "whitelist"},
             SetList(id, kind, list, s)
      PROVE  ClientsInSync'
  <2>1. /\ view' = view
        /\ \/ heap' = [heap EXCEPT ![o] = [heap[o] EXCEPT !.blacklist = list]]
           \/ heap' = [heap EXCEPT ![o] = [heap[o] EXCEPT !.whitelist = list]]
    BY <1>1, <1>8 DEF SetList
  <2>2. QED  BY <1>5, <2>1
<1>9. QED  BY <1>4, <1>6, <1>7, <1>8

LEMMA StepSync ==
    ASSUME IInv, NobodyBehind, ClientsInSync, [Next]_vars
    PROVE  ClientsInSync'
<1>1. ASSUME Sweeping, SweepNext  PROVE ClientsInSync'
  <2>1. Head(sweep.todo) \in Users /\ created' = created
    BY <1>1, Parts DEF Sweeping, Sweeps, SweepNext
  <2>2. QED  BY <1>1, <2>1, DepartSync, RoomsAloneSync DEF SweepNext
<1>2. ASSUME NEW u \in Users, LeaveRoom(u) \/ Disconnect(u) \/ Kick(u)  PROVE ClientsInSync'
  BY <1>2, DepartSync DEF LeaveRoom, Disconnect, Kick
<1>3. CASE UNCHANGED vars
  BY <1>3, RoomsAloneSync DEF vars
<1>4. CASE PlayerStep
  <2>1. ASSUME NEW u \in Users, NEW id \in RoomIds, CreateRoom(u, id)  PROVE ClientsInSync'
    BY <2>1, CreateRoomSync
  <2>2. ASSUME NEW u \in Users, NEW id \in RoomIds, NEW m \in BOOLEAN, JoinRoom(u, id, m)
        PROVE  ClientsInSync'
    BY <2>2, JoinRoomSync
  <2>3. ASSUME NEW u \in Users, \/ \E b \in BOOLEAN : CycleRoom(u, b)
                                \/ RequestStart(u) \/ Ready(u) \/ CancelReady(u) \/ Abort(u)
        PROVE  ClientsInSync'
    BY <2>3, OwnerSync, StartSync, AbortSync
  <2>4. ASSUME NEW u \in Users, NEW s \in Slots,
               Played(u, s) \/ \E c \in Charts : SelectChart(u, c, s)
        PROVE  ClientsInSync'
    BY <2>4, RoomsAloneSync DEF Played, SelectChart
  <2>5. ASSUME NEW s \in Slots, FetchFails(s)  PROVE ClientsInSync'
    BY <2>5, RoomsAloneSync DEF FetchFails
  <2>6. ASSUME NEW s \in Slots, ChartFetched(s) \/ RecordFetched(s)  PROVE ClientsInSync'
    BY <2>6, ChartFetchedSync, RecordFetchedSync
  <2>7. QED
    BY <1>2, <1>4, <2>1, <2>2, <2>3, <2>4, <2>5, <2>6 DEF PlayerStep, Joins, Commands
<1>5. CASE AccessStep
  <2>1. ASSUME NEW u \in Users, NEW b \in BOOLEAN, LockRoom(u, b)  PROVE ClientsInSync'
    BY <2>1, OwnerSync
  <2>2. ASSUME NEW id \in RoomIds,
               \/ ToggleRoomLock(id) \/ \E n \in Capacities : SetRoomMaxPlayers(id, n)
               \/ \E s \in Slots, list \in Lists, kind \in {"blacklist", "whitelist"} :
                      SetList(id, kind, list, s)
        PROVE  ClientsInSync'
    BY <2>2, AdminSync
  <2>3. ASSUME NEW s \in Slots, NamesFetched(s)  PROVE ClientsInSync'
    BY <2>3, RoomsAloneSync DEF NamesFetched
  <2>4. ASSUME NEW b \in BOOLEAN, SetGlobalLocked(b)  PROVE ClientsInSync'
    BY <2>4, RoomsAloneSync DEF SetGlobalLocked
  <2>5. QED  BY <1>5, <2>1, <2>2, <2>3, <2>4 DEF AccessStep
<1>6. CASE AdminStep
  <2>1. ASSUME NEW id \in RoomIds, ForceStart(id) \/ ToggleRoomMode(id)  PROVE ClientsInSync'
    BY <2>1, AdminSync
  <2>2. ASSUME NEW id \in RoomIds, CloseRoom(id)  PROVE ClientsInSync'
    BY <2>2, CloseRoomSync
  <2>3. QED  BY <1>2, <1>6, <2>1, <2>2 DEF AdminStep
<1>7. QED  BY <1>1, <1>3, <1>4, <1>5, <1>6 DEF Next

(* Every client in a room shows the room's state and knows whether it is   *)
(* the host, for any number of rooms and players and whatever administra-  *)
(* tors do (the broadcasts of ProtocolHandler and RoomManager, migrateHost *)
(* and endGame among them), as long as the web API's answers for a room    *)
(* come while it is registered, or when everybody has left it and its id   *)
(* is free: a later answer is broadcast to players who are elsewhere.      *)
THEOREM ClientsAlwaysInSync == Spec /\ []NobodyBehind => []ClientsInSync
<1>1. Init => IInv /\ ClientsInSync
  BY InitInvariant DEF Init, ClientsInSync, Objects
<1>2. IInv /\ ClientsInSync /\ NobodyBehind /\ [Next]_vars => (IInv /\ ClientsInSync)'
  BY NextInvariant, StepSync
<1>3. QED  BY <1>1, <1>2, PTL DEF Spec
=============================================================================
