-------------------------- MODULE RoomServerProofs --------------------------
(* Theorems about RoomServer for all values of its constants. *)
EXTENDS RoomServer, TLAPS

USE NoChartAssumption, RoomSizeAssumption, CapacitiesAssumption, ListsAssumption,
    MaxRoomsAssumption

(* No user occurs twice in s. *)
Distinct(s) == \A i, j \in DOMAIN s : s[i] = s[j] => i = j

Elems(s) == {s[i] : i \in DOMAIN s}

-----------------------------------------------------------------------------
(* The operators on the order of a room. *)

LEMMA WithoutSeq ==
    ASSUME NEW s \in Seq(Users), NEW u
    PROVE  Without(s, u) \in Seq(Users)
<1>1. CASE \E i \in DOMAIN s : s[i] = u
  <2>1. PICK p \in DOMAIN s : p = (CHOOSE i \in DOMAIN s : s[i] = u)
    BY <1>1
  <2>2. Without(s, u) = [i \in 1..(Len(s) - 1) |-> IF i < p THEN s[i] ELSE s[i + 1]]
    BY <1>1, <2>1 DEF Without
  <2>3. Len(s) - 1 \in Nat
    BY <1>1
  <2>4. \A i \in 1..(Len(s) - 1) : s[i] \in Users /\ s[i + 1] \in Users
    BY <2>3
  <2>5. QED  BY <2>2, <2>3, <2>4
<1>2. CASE ~\E i \in DOMAIN s : s[i] = u
  BY <1>2 DEF Without
<1>3. QED  BY <1>1, <1>2

LEMMA WithoutMembers ==
    ASSUME NEW s \in Seq(Users), Distinct(s), NEW u \in Elems(s)
    PROVE  /\ Len(Without(s, u)) = Len(s) - 1
           /\ Distinct(Without(s, u))
           /\ Elems(Without(s, u)) = Elems(s) \ {u}
<1> DEFINE t == Without(s, u)
<1>1. PICK p \in DOMAIN s : p = (CHOOSE i \in DOMAIN s : s[i] = u)
  BY DEF Elems
<1>2. s[p] = u
  BY <1>1 DEF Elems
<1>3. t = [i \in 1..(Len(s) - 1) |-> IF i < p THEN s[i] ELSE s[i + 1]]
  BY <1>1 DEF Without, Elems
<1>4. /\ Len(s) \in Nat /\ DOMAIN s = 1..Len(s) /\ p \in 1..Len(s)
      /\ DOMAIN t = 1..(Len(s) - 1) /\ Len(s) - 1 \in Nat
  BY <1>3
<1>5. t \in Seq(Users) /\ Len(t) = Len(s) - 1
  BY <1>3, <1>4, WithoutSeq
<1> HIDE DEF t
<1>6. Distinct(t)
  BY <1>3, <1>4 DEF Distinct
<1>7. \A i \in DOMAIN t : t[i] \in {s[j] : j \in DOMAIN s} \ {u}
  BY <1>2, <1>3, <1>4 DEF Distinct
<1>8. ASSUME NEW j \in DOMAIN s, s[j] # u
      PROVE  \E i \in DOMAIN t : t[i] = s[j]
  <2>1. CASE j < p
    <3>1. j \in DOMAIN t /\ t[j] = s[j]
      BY <1>3, <1>4, <2>1
    <3>2. QED  BY <3>1
  <2>2. CASE j > p
    <3>1. j - 1 \in DOMAIN t /\ t[j - 1] = s[j]
      BY <1>3, <1>4, <2>2
    <3>2. QED  BY <3>1
  <2>3. j # p
    BY <1>2, <1>8
  <2>4. QED  BY <1>4, <2>1, <2>2, <2>3
<1>9. {t[i] : i \in DOMAIN t} = {s[i] : i \in DOMAIN s} \ {u}
  BY <1>7, <1>8
<1>10. QED  BY <1>5, <1>6, <1>9 DEF t, Elems

LEMMA AppendMembers ==
    ASSUME NEW s \in Seq(Users), NEW u \in Users
    PROVE  /\ Append(s, u) \in Seq(Users)
           /\ Elems(Append(s, u)) = Elems(s) \cup {u}
           /\ Distinct(s) /\ u \notin Elems(s) => Distinct(Append(s, u))
<1> DEFINE t == Append(s, u)
<1>1. /\ t \in Seq(Users) /\ Len(t) = Len(s) + 1 /\ DOMAIN t = 1..(Len(s) + 1)
      /\ DOMAIN s = 1..Len(s) /\ Len(s) \in Nat
      /\ \A i \in DOMAIN s : t[i] = s[i]
      /\ t[Len(s) + 1] = u
  OBVIOUS
<1> HIDE DEF t
<1>2. {t[i] : i \in DOMAIN t} = {s[i] : i \in DOMAIN s} \cup {u}
  <2>1. \A i \in DOMAIN t : i \in DOMAIN s \/ i = Len(s) + 1
    BY <1>1
  <2>2. \A i \in DOMAIN t : t[i] \in {s[j] : j \in DOMAIN s} \cup {u}
    BY <1>1, <2>1
  <2>3. \A j \in DOMAIN s : j \in DOMAIN t /\ t[j] = s[j]
    BY <1>1
  <2>4. Len(s) + 1 \in DOMAIN t
    BY <1>1
  <2>5. QED  BY <1>1, <2>2, <2>3, <2>4
<1>3. Distinct(s) /\ u \notin {s[i] : i \in DOMAIN s} => Distinct(t)
  BY <1>1 DEF Distinct
<1>4. QED  BY <1>1, <1>2, <1>3 DEF t, Elems

-----------------------------------------------------------------------------
(* What each operator makes of a well-typed room. *)

LEMMA NewRoomType ==
    ASSUME NEW id \in RoomIds, NEW u \in Users
    PROVE  /\ NewRoom(id, u) \in Room
           /\ Members(NewRoom(id, u)) = {u}
           /\ Distinct(NewRoom(id, u).order)
           /\ NewRoom(id, u).id = id /\ NewRoom(id, u).ownerId = u
           /\ ~NewRoom(id, u).soloConfirmPending
<1>1. <<u>> \in Seq(Users)
  OBVIOUS
<1>2. Selecting(NoChart) \in RoomState
  BY DEF Selecting, RoomState, ChartOrNone
<1>3. NewRoom(id, u) \in Room
  BY <1>1, <1>2 DEF NewRoom, Room, ChartOrNone
<1>4. NewRoom(id, u).order = <<u>>
  BY DEF NewRoom
<1>5. QED  BY <1>3, <1>4 DEF NewRoom, Members, Distinct

LEMMA AddPlayerType ==
    ASSUME NEW r \in Room, NEW u \in Users, NEW m \in BOOLEAN
    PROVE  LET a == AddPlayer(r, u, m)
           IN  /\ a \in Room
               /\ a.id = r.id /\ a.ownerId = r.ownerId
               /\ a.order = Append(r.order, u)
               /\ ~a.soloConfirmPending
<1>1. Append(r.order, u) \in Seq(Users)
  BY DEF Room
<1>2. QED  BY <1>1 DEF AddPlayer, Room

LEMMA RemovePlayerType ==
    ASSUME NEW r \in Room, NEW u \in Users
    PROVE  LET a == RemovePlayer(r, u)
           IN  /\ a \in Room
               /\ a.id = r.id
               /\ a.order = Without(r.order, u)
               /\ a.ownerId = IF r.ownerId = u /\ a.order # <<>> THEN Head(a.order) ELSE r.ownerId
               /\ a.soloConfirmPending = r.soloConfirmPending
               /\ a.state = r.state
<1>1. r.order \in Seq(Users)
  BY DEF Room
<1> DEFINE rest == Without(r.order, u)
<1>2. rest \in Seq(Users)
  BY <1>1, WithoutSeq
<1>3. rest # <<>> => Head(rest) \in Users
  BY <1>2
<1> DEFINE heir == IF r.ownerId = u /\ rest # <<>> THEN Head(rest) ELSE r.ownerId
<1>4. heir \in Users
  BY <1>3 DEF Room
<1>5. RemovePlayer(r, u) =
        [r EXCEPT !.order = rest, !.ownerId = heir, !.monitors = @ \ {u},
                  !.ready = @ \ {u}, !.finished = @ \ {u}]
  BY DEF RemovePlayer
<1> HIDE DEF rest, heir
<1>6. r.monitors \ {u} \in SUBSET Users /\ r.ready \ {u} \in SUBSET Users
      /\ r.finished \ {u} \in SUBSET Users
  BY DEF Room
<1>7. /\ RemovePlayer(r, u) \in Room
      /\ RemovePlayer(r, u).id = r.id
      /\ RemovePlayer(r, u).order = rest
      /\ RemovePlayer(r, u).ownerId = heir
      /\ RemovePlayer(r, u).soloConfirmPending = r.soloConfirmPending
      /\ RemovePlayer(r, u).state = r.state
  <2> DEFINE m == r.monitors \ {u}  y == r.ready \ {u}  f == r.finished \ {u}
  <2>1. m \in SUBSET Users /\ y \in SUBSET Users /\ f \in SUBSET Users
    BY <1>6
  <2>2. RemovePlayer(r, u) =
          [r EXCEPT !.order = rest, !.ownerId = heir, !.monitors = m, !.ready = y, !.finished = f]
    BY <1>5
  <2> HIDE DEF m, y, f
  <2>3. QED  BY <1>2, <1>4, <2>1, <2>2 DEF Room
<1>8. QED  BY <1>7 DEF rest, heir

LEMMA EndStateType ==
    ASSUME NEW a \in Room, NEW r \in Room
    PROVE  LET e == EndState(a, r)
           IN  /\ e \in Room
               /\ e.id = a.id /\ e.order = a.order
               /\ e.ownerId = a.ownerId \/ e.ownerId \in Members(a)
               /\ e.soloConfirmPending => a.soloConfirmPending
<1>1. Members(a) \subseteq Users
  BY DEF Members, Room
<1>2. Waiting \in RoomState /\ Selecting(r.selectedChart) \in RoomState
  BY DEF Waiting, Selecting, RoomState, ChartOrNone, Room
<1>3. CASE r.cycle
  <2> DEFINE h == IF Rotates(r) /\ NextHost(r) \in Members(a) THEN NextHost(r) ELSE a.ownerId
  <2>1. h \in Users /\ (h = a.ownerId \/ h \in Members(a))
    BY <1>1 DEF Room
  <2>2. EndState(a, r) = [a EXCEPT !.ownerId = h, !.state = Waiting]
    BY <1>3 DEF EndState, Room
  <2> HIDE DEF h
  <2>3. QED  BY <1>2, <2>1, <2>2 DEF Room
<1>4. CASE ~r.cycle
  BY <1>2, <1>4 DEF EndState, Room
<1>5. QED  BY <1>3, <1>4

LEMMA FlagsType ==
    ASSUME NEW r \in Room, NEW rdy \in SUBSET Users, NEW fin \in SUBSET Users
    PROVE  LET f == SetFlags(r, rdy, fin)
           IN  /\ f \in Room
               /\ f.id = r.id /\ f.order = r.order /\ f.ownerId = r.ownerId
               /\ f.soloConfirmPending = r.soloConfirmPending
               /\ f.state = r.state
BY DEF SetFlags, Room

LEMMA StatesTyped ==
    /\ Waiting \in RoomState /\ Playing \in RoomState
    /\ \A c \in ChartOrNone : Selecting(c) \in RoomState
    /\ Outside \in [state: RoomState, host: BOOLEAN]
BY DEF Waiting, Playing, Selecting, RoomState, ChartOrNone, Outside

(* r' may replace room r at any time without touching the invariants: same *)
(* identity and players, a new owner only from among the players, and no   *)
(* confirmation armed in company.                                          *)
Keeps(r, s) ==
    /\ s \in Room
    /\ s.id = r.id /\ s.order = r.order
    /\ s.ownerId = r.ownerId \/ s.ownerId \in Members(r)
    /\ s.soloConfirmPending => r.soloConfirmPending \/ Len(r.order) <= 1

LEMMA SettledKeeps ==
    ASSUME NEW n \in Nat, NEW h \in [1..n -> Room], NEW o \in 1..n
    PROVE  /\ Settled(h, o) \in [1..n -> Room]
           /\ \A x \in 1..n : Keeps(h[x], Settled(h, o)[x])
<1>1. \A x \in 1..n : Keeps(h[x], h[x])
  BY DEF Keeps
<1>2. ASSUME NEW x \in 1..n
      PROVE  Keeps(h[x], Ended(h, o)[x])
  <2> DEFINE a == IF x = o THEN ClearFlags(h[x]) ELSE h[x]
  <2>1. /\ a \in Room
        /\ a.id = h[x].id /\ a.order = h[x].order /\ a.ownerId = h[x].ownerId
        /\ a.soloConfirmPending = h[x].soloConfirmPending
    BY FlagsType DEF ClearFlags
  <2>2. Members(a) = Members(h[x])
    BY <2>1 DEF Members
  <2>3. Ended(h, o)[x] = IF x = dir[h[o].id] THEN EndState(a, h[o]) ELSE a
    BY DEF Ended
  <2> HIDE DEF a
  <2>4. Keeps(h[x], a)
    BY <2>1 DEF Keeps
  <2>5. Keeps(h[x], EndState(a, h[o]))
    BY <2>1, <2>2, EndStateType DEF Keeps
  <2>6. QED  BY <2>3, <2>4, <2>5
<1>3. DOMAIN Ended(h, o) = 1..n
  BY DEF Ended
<1>4. Ended(h, o) \in [1..n -> Room]
  <2>1. \A x \in 1..n : Ended(h, o)[x] \in Room
    BY <1>2 DEF Keeps
  <2>2. Ended(h, o) = [x \in 1..n |-> Ended(h, o)[x]]
    BY <1>3 DEF Ended
  <2>3. QED  BY <2>1, <2>2
<1>5. QED  BY <1>1, <1>2, <1>4 DEF Settled

-----------------------------------------------------------------------------
(* What clients are told keeps its type. *)

Views == [Users -> [state: RoomState, host: BOOLEAN]]

LEMMA TellTyped ==
    ASSUME NEW v \in Views, NEW us
    PROVE  /\ \A s \in RoomState : TellState(v, us, s) \in Views
           /\ \A w : TellHost(v, us, w) \in Views
<1>1. ASSUME NEW s \in RoomState
      PROVE  TellState(v, us, s) \in Views
  <2>1. \A u \in Users : [v[u] EXCEPT !.state = s] \in [state: RoomState, host: BOOLEAN]
    BY DEF Views
  <2>2. QED  BY <2>1 DEF TellState, Views
<1>2. ASSUME NEW w
      PROVE  TellHost(v, us, w) \in Views
  <2>1. \A u \in Users : \A b \in BOOLEAN :
            [v[u] EXCEPT !.host = b] \in [state: RoomState, host: BOOLEAN]
    BY DEF Views
  <2>2. \A u \in Users : (u = w) \in BOOLEAN
    OBVIOUS
  <2>3. \A u \in Users : [v[u] EXCEPT !.host = (u = w)] \in [state: RoomState, host: BOOLEAN]
    BY <2>1, <2>2
  <2>4. QED  BY <2>3 DEF TellHost, Views
<1>3. QED  BY <1>1, <1>2

LEMMA SettledViewTyped ==
    ASSUME NEW v \in Views, NEW n \in Nat, NEW h \in [1..n -> Room], NEW o \in 1..n, NEW ears
    PROVE  SettledView(v, h, o, ears) \in Views
<1> DEFINE s == Ended(h, o)[o].state
           w == IF Rotates(h[o]) THEN TellHost(v, ears, NextHost(h[o])) ELSE v
<1>1. CASE GameOver(h[o])
  <2>1. s \in RoomState
    <3>1. Ended(h, o) \in [1..n -> Room]
      BY <1>1, SettledKeeps DEF Settled
    <3>2. QED  BY <3>1 DEF Room
  <2>2. w \in Views
    BY TellTyped
  <2>3. SettledView(v, h, o, ears) = TellState(w, ears, s)
    BY <1>1 DEF SettledView
  <2> HIDE DEF s, w
  <2>4. QED  BY <2>1, <2>2, <2>3, TellTyped
<1>2. CASE ~GameOver(h[o])
  BY <1>2 DEF SettledView
<1>3. QED  BY <1>1, <1>2

-----------------------------------------------------------------------------
(* The inductive invariant. *)

IInv ==
    /\ TypeOK
    /\ OwnerIsMember
    /\ OneRoomPerUser
    /\ SoloMeansAlone

LEMMA MembersSameOrder ==
    ASSUME NEW r, NEW s, r.order = s.order
    PROVE  Members(r) = Members(s)
BY DEF Members

(* Steps that move nobody: every room object is kept in the sense of Keeps *)
(* and ids are at most taken out of the directory.                         *)
LEMMA QuietStep ==
    ASSUME IInv, created' = created,
           heap' \in [Objects -> Room],
           \A o \in Objects : Keeps(heap[o], heap'[o]),
           dir' \in [RoomIds -> Objects \cup {None}],
           \A id \in RoomIds : dir'[id] \in {dir[id], None}
    PROVE  OwnerIsMember' /\ OneRoomPerUser' /\ SoloMeansAlone'
<1>1. Objects' = Objects
  BY DEF Objects
<1>2. \A o \in Objects : /\ heap'[o].id = heap[o].id
                         /\ heap'[o].order = heap[o].order
                         /\ Members(heap'[o]) = Members(heap[o])
                         /\ heap'[o].ownerId = heap[o].ownerId \/ heap'[o].ownerId \in Members(heap[o])
                         /\ heap'[o].soloConfirmPending => heap[o].soloConfirmPending \/ Len(heap[o].order) <= 1
                         /\ heap[o].id \in RoomIds
  BY MembersSameOrder DEF Keeps, IInv, TypeOK, Room
<1>3. OwnerIsMember'
  <2> SUFFICES ASSUME NEW id \in RoomIds, dir'[id] # None
               PROVE  /\ heap'[dir'[id]].id = id
                      /\ heap'[dir'[id]].ownerId \in Members(heap'[dir'[id]])
    BY DEF OwnerIsMember, Members
  <2>1. dir'[id] = dir[id] /\ dir[id] \in Objects
    OBVIOUS
  <2>2. heap[dir[id]].id = id /\ heap[dir[id]].ownerId \in Members(heap[dir[id]])
    BY <2>1 DEF IInv, OwnerIsMember
  <2>3. QED  BY <1>2, <2>1, <2>2
<1>4. OneRoomPerUser'
  <2>1. \A o \in Objects : Listed(o)' => Listed(o)
    BY <1>2 DEF Listed, Objects, None, IInv, TypeOK
  <2>2. \A u \in Users : RoomsOf(u)' \subseteq RoomsOf(u)
    BY <1>1, <1>2, <2>1 DEF RoomsOf
  <2>3. QED  BY <1>1, <1>2, <2>2 DEF IInv, OneRoomPerUser
<1>5. SoloMeansAlone'
  BY <1>1, <1>2 DEF IInv, SoloMeansAlone
<1>6. QED  BY <1>3, <1>4, <1>5

(* One object changes to s, the directory stays. *)
LEMMA QuietUpdate ==
    ASSUME IInv, created' = created, dir' = dir,
           NEW o \in Objects, NEW s, Keeps(heap[o], s),
           heap' = [heap EXCEPT ![o] = s]
    PROVE  /\ heap' \in [Objects -> Room]
           /\ OwnerIsMember' /\ OneRoomPerUser' /\ SoloMeansAlone'
<1>1. heap' \in [Objects -> Room]
  BY DEF Keeps, IInv, TypeOK
<1>2. \A x \in Objects : Keeps(heap[x], heap'[x])
  BY DEF Keeps, IInv, TypeOK
<1>3. dir' \in [RoomIds -> Objects \cup {None}] /\ \A id \in RoomIds : dir'[id] \in {dir[id], None}
  BY DEF IInv, TypeOK
<1>4. QED  BY <1>1, <1>2, <1>3, QuietStep

(* A user leaves its room, by whichever way, and a game may end on that. *)
LEMMA DepartStep ==
    ASSUME IInv, created' = created,
           NEW u \in Users, NEW o \in RoomsOf(u), NEW c \in BOOLEAN, Depart(u, o, c)
    PROVE  /\ heap' \in [Objects -> Room]
           /\ dir' \in [RoomIds -> Objects \cup {None}]
           /\ calls' \in [Slots -> Call \cup {Idle}]
           /\ view' \in Views
           /\ OwnerIsMember' /\ OneRoomPerUser' /\ SoloMeansAlone'
<1> DEFINE r == RemovePlayer(heap[o], u)
           h == [heap EXCEPT ![o] = r]
<1>1. /\ created \in Nat /\ o \in Objects /\ Listed(o) /\ u \in Members(heap[o])
      /\ heap \in [Objects -> Room] /\ heap[o] \in Room
      /\ dir \in [RoomIds -> Objects \cup {None}]
      /\ calls \in [Slots -> Call \cup {Idle}]
      /\ view \in Views
  BY DEF IInv, TypeOK, RoomsOf, Views
<1>2. /\ r \in Room /\ r.id = heap[o].id
      /\ r.order = Without(heap[o].order, u)
      /\ r.ownerId = IF heap[o].ownerId = u /\ r.order # <<>> THEN Head(r.order) ELSE heap[o].ownerId
      /\ r.soloConfirmPending = heap[o].soloConfirmPending
  BY <1>1, RemovePlayerType
<1>3. heap[o].order \in Seq(Users) /\ Distinct(heap[o].order)
  BY <1>1 DEF IInv, OneRoomPerUser, Distinct, Room
<1>5. /\ Len(r.order) = Len(heap[o].order) - 1
      /\ Distinct(r.order)
      /\ Members(r) = Members(heap[o]) \ {u}
  <2>1. u \in Elems(heap[o].order) /\ Members(heap[o]) = Elems(heap[o].order)
    BY <1>1 DEF Members, Elems
  <2>2. Members(r) = Elems(r.order)
    BY DEF Members, Elems
  <2>3. QED  BY <1>2, <1>3, <2>1, <2>2, WithoutMembers
<1>6. r.order # <<>> => r.ownerId \in Members(r)
  <2>1. heap[o].ownerId \in Members(heap[o])
    BY <1>1 DEF IInv, OwnerIsMember, Listed, Room, None, Objects
  <2>2. ASSUME r.order # <<>>  PROVE Head(r.order) \in Members(r)
    BY <1>2, <2>2 DEF Members, Room
  <2>3. QED  BY <1>2, <1>5, <2>1, <2>2
<1> HIDE DEF r
<1>7. h \in [1..created -> Room] /\ h[o] = r /\ \A x \in Objects \ {o} : h[x] = heap[x]
  BY <1>1, <1>2 DEF Objects
<1>8. /\ heap' \in [Objects -> Room]
      /\ \A x \in Objects : Keeps(h[x], heap'[x])
  <2>1. heap' = h \/ heap' = Settled(h, o)
    BY DEF Depart, r
  <2>2. \A x \in Objects : Keeps(h[x], h[x])
    BY <1>7 DEF Keeps, Objects
  <2>3. o \in 1..created
    BY <1>1 DEF Objects
  <2>4. Settled(h, o) \in [1..created -> Room] /\ \A x \in 1..created : Keeps(h[x], Settled(h, o)[x])
    <3> HIDE DEF h
    <3>1. QED  BY <1>1, <1>7, <2>3, SettledKeeps
  <2> HIDE DEF h
  <2>5. QED  BY <1>7, <2>1, <2>2, <2>4 DEF Objects
<1>9. dir' = IF r.order = <<>> THEN [dir EXCEPT ![r.id] = None] ELSE dir
  BY DEF Depart, r
<1>10. dir' \in [RoomIds -> Objects \cup {None}]
  BY <1>1, <1>9
<1>11. calls' \in [Slots -> Call \cup {Idle}]
  <2>1. calls' = Forget(u, o)
    BY DEF Depart
  <2>2. ASSUME NEW s \in Slots, calls[s].kind = "record"
        PROVE  [calls[s] EXCEPT !.same = FALSE] \in Call
    <3> DEFINE k == calls[s]
    <3>1. k \in [kind: {"record"}, room: Objects, user: Users, same: BOOLEAN]
      BY <1>1, <2>2 DEF Call, Idle
    <3> HIDE DEF k
    <3>2. [k EXCEPT !.same = FALSE] \in [kind: {"record"}, room: Objects, user: Users, same: BOOLEAN]
      BY <3>1
    <3>3. QED  BY <3>2 DEF Call, k
  <2>3. QED  BY <1>1, <2>1, <2>2 DEF Forget
<1>12. view' \in Views
  <2> DEFINE migrated == IF heap[o].ownerId = u THEN TellHost(view, Members(r), r.ownerId) ELSE view
             v == [migrated EXCEPT ![u] = Outside]
  <2>1. migrated \in Views
    BY <1>1, TellTyped
  <2> HIDE DEF migrated
  <2>2. v \in Views
    BY <2>1, StatesTyped DEF Views
  <2>3. view' = v \/ view' = SettledView(v, h, o, Members(r))
    BY DEF Depart, r, migrated
  <2>4. o \in 1..created
    BY <1>1 DEF Objects
  <2> HIDE DEF v, h
  <2>5. QED  BY <1>1, <1>7, <2>2, <2>3, <2>4, SettledViewTyped
<1> HIDE DEF h
<1>13. Objects' = Objects
  BY DEF Objects
<1>14. \A x \in Objects : /\ heap'[x].id = heap[x].id /\ heap[x].id \in RoomIds
                          /\ heap'[x].order = h[x].order
                          /\ Members(heap'[x]) = Members(h[x])
                          /\ x # o => h[x] = heap[x]
  BY <1>1, <1>2, <1>7, <1>8, MembersSameOrder DEF Keeps, Room
<1>15. OwnerIsMember'
  <2> SUFFICES ASSUME NEW id \in RoomIds, dir'[id] # None
               PROVE  /\ heap'[dir'[id]].id = id
                      /\ heap'[dir'[id]].ownerId \in Members(heap'[dir'[id]])
    BY DEF OwnerIsMember, Members
  <2>1. dir'[id] = dir[id] /\ dir[id] \in Objects /\ (dir[id] = o => r.order # <<>>)
    <3>1. dir'[id] = dir[id] /\ dir[id] \in Objects
      BY <1>1, <1>9
    <3>2. dir[id] = o => id = heap[o].id
      BY <1>1, <3>1 DEF IInv, OwnerIsMember
    <3>3. QED  BY <1>1, <1>2, <1>9, <3>1, <3>2
  <2>2. heap[dir[id]].id = id /\ heap[dir[id]].ownerId \in Members(heap[dir[id]])
    BY <2>1 DEF IInv, OwnerIsMember
  <2>3. h[dir[id]].ownerId \in Members(h[dir[id]])
    BY <1>6, <1>7, <2>1, <2>2
  <2>4. QED  BY <1>8, <1>14, <2>1, <2>2, <2>3 DEF Keeps
<1>16. OneRoomPerUser'
  <2>1. \A x \in Objects : Listed(x)' => Listed(x)
    BY <1>1, <1>9, <1>14 DEF Listed, Objects, None
  <2>2. \A x \in Objects : Members(heap'[x]) \subseteq Members(heap[x])
    BY <1>5, <1>7, <1>14
  <2>3. \A w \in Users : RoomsOf(w)' \subseteq RoomsOf(w)
    BY <1>13, <2>1, <2>2 DEF RoomsOf
  <2>4. \A x \in Objects : Distinct(heap'[x].order)
    BY <1>5, <1>7, <1>14 DEF IInv, OneRoomPerUser, Distinct
  <2>5. QED  BY <1>13, <2>3, <2>4 DEF IInv, OneRoomPerUser, Distinct
<1>17. SoloMeansAlone'
  <2>1. heap[o].order \in Seq(Users) /\ Len(heap[o].order) \in Nat
    BY <1>3
  <2>2. ASSUME NEW x \in Objects, heap'[x].soloConfirmPending
        PROVE  Len(heap'[x].order) <= 1
    <3>1. heap'[x].order = h[x].order /\ (h[x].soloConfirmPending \/ Len(h[x].order) <= 1)
      BY <1>8, <1>14, <2>2 DEF Keeps
    <3>2. CASE x = o
      BY <1>2, <1>5, <1>7, <2>1, <3>1, <3>2 DEF IInv, SoloMeansAlone
    <3>3. CASE x # o
      BY <1>7, <3>1, <3>3 DEF IInv, SoloMeansAlone
    <3>4. QED  BY <3>2, <3>3
  <2>3. QED  BY <1>13, <2>2 DEF SoloMeansAlone
<1>18. QED  BY <1>8, <1>10, <1>11, <1>12, <1>15, <1>16, <1>17

-----------------------------------------------------------------------------
(* The other steps. *)

Sweeps == [kind: {"idle", "blacklist", "whitelist"}, room: Objects \cup {None},
           list: SUBSET Users, todo: Seq(Users)]

(* A step that moves nobody preserves the invariant if what it does to the *)
(* remaining variables is well typed.                                      *)
LEMMA QuietInvariant ==
    ASSUME IInv, created' = created,
           heap' \in [Objects -> Room],
           \A o \in Objects : Keeps(heap[o], heap'[o]),
           dir' \in [RoomIds -> Objects \cup {None}],
           \A id \in RoomIds : dir'[id] \in {dir[id], None},
           globalLocked' \in BOOLEAN,
           calls' \in [Slots -> Call \cup {Idle}],
           sweep' \in Sweeps,
           view' \in Views
    PROVE  IInv'
<1>1. Objects' = Objects /\ Call' = Call
  BY DEF Objects, Call
<1>2. TypeOK'
  BY <1>1 DEF IInv, TypeOK, Sweeps, Views
<1>3. QED  BY <1>2, QuietStep DEF IInv

(* The parts of TypeOK, and that every room keeps itself. *)
LEMMA Parts ==
    ASSUME IInv
    PROVE  /\ created \in Nat
           /\ heap \in [Objects -> Room]
           /\ \A o \in Objects : Keeps(heap[o], heap[o])
           /\ dir \in [RoomIds -> Objects \cup {None}]
           /\ globalLocked \in BOOLEAN
           /\ calls \in [Slots -> Call \cup {Idle}]
           /\ sweep \in Sweeps
           /\ view \in Views
           /\ \A u \in Users : RoomsOf(u) \subseteq Objects
BY DEF IInv, TypeOK, Keeps, Sweeps, Views, RoomsOf

(* One object changes to s, the clients may be told of it. *)
LEMMA QuietRoom ==
    ASSUME IInv, created' = created, dir' = dir, globalLocked' = globalLocked, sweep' = sweep,
           NEW o \in Objects, NEW s, Keeps(heap[o], s),
           heap' = [heap EXCEPT ![o] = s],
           calls' \in [Slots -> Call \cup {Idle}],
           view' \in Views
    PROVE  IInv'
<1>1. heap' \in [Objects -> Room] /\ \A x \in Objects : Keeps(heap[x], heap'[x])
  BY Parts DEF Keeps
<1>2. dir' \in [RoomIds -> Objects \cup {None}] /\ \A id \in RoomIds : dir'[id] \in {dir[id], None}
  BY Parts
<1>3. QED  BY <1>1, <1>2, Parts, QuietInvariant

LEMMA Announced ==
    ASSUME IInv, NEW o \in Objects, NEW r, Keeps(heap[o], r), Announce(o, r),
           created' = created, dir' = dir, globalLocked' = globalLocked, sweep' = sweep,
           calls' = calls
    PROVE  IInv'
<1>1. r.state \in RoomState
  BY DEF Keeps, Room
<1>2. view' \in Views
  BY <1>1, Parts, TellTyped DEF Announce
<1>3. QED  BY <1>2, Parts, QuietRoom DEF Announce

(* Object o becomes s, whereupon a game may end. *)
LEMMA QuietSettled ==
    ASSUME IInv, created' = created, dir' = dir, globalLocked' = globalLocked, sweep' = sweep,
           NEW o \in Objects, NEW s, Keeps(heap[o], s), NEW ears,
           heap' = Settled([heap EXCEPT ![o] = s], o),
           view' = SettledView(view, [heap EXCEPT ![o] = s], o, ears),
           calls' \in [Slots -> Call \cup {Idle}]
    PROVE  IInv'
<1> DEFINE h == [heap EXCEPT ![o] = s]
<1>1. h \in [1..created -> Room] /\ \A x \in Objects : Keeps(heap[x], h[x])
  BY Parts DEF Keeps, Objects
<1>2. o \in 1..created /\ created \in Nat
  BY Parts DEF Objects
<1> HIDE DEF h
<1>3. Settled(h, o) \in [1..created -> Room] /\ \A x \in 1..created : Keeps(h[x], Settled(h, o)[x])
  BY <1>1, <1>2, SettledKeeps
<1>4. view' \in Views
  BY <1>1, <1>2, Parts, SettledViewTyped DEF h
<1>5. heap' \in [Objects -> Room]
  BY <1>3 DEF h, Objects
<1>6. \A x \in Objects : Keeps(heap[x], heap'[x])
  <2>1. \A x \in Objects : Keeps(heap[x], h[x]) /\ Keeps(h[x], heap'[x])
    BY <1>1, <1>3 DEF h, Objects
  <2>2. \A x \in Objects : Members(h[x]) = Members(heap[x])
    BY <2>1, MembersSameOrder DEF Keeps
  <2>3. QED  BY <2>1, <2>2 DEF Keeps
<1>7. dir' \in [RoomIds -> Objects \cup {None}] /\ \A id \in RoomIds : dir'[id] \in {dir[id], None}
  BY Parts
<1>8. QED  BY <1>4, <1>5, <1>6, <1>7, Parts, QuietInvariant

LEMMA DepartInvariant ==
    ASSUME IInv, created' = created, globalLocked' = globalLocked, sweep' \in Sweeps,
           NEW u \in Users, NEW o \in RoomsOf(u), NEW c \in BOOLEAN, Depart(u, o, c)
    PROVE  IInv'
<1>1. Objects' = Objects /\ Call' = Call
  BY DEF Objects, Call
<1>2. TypeOK'
  BY <1>1, Parts, DepartStep DEF IInv, TypeOK, Sweeps, Views
<1>3. QED  BY <1>2, DepartStep DEF IInv

LEMMA CreateRoomInvariant ==
    ASSUME IInv, NEW u \in Users, NEW id \in RoomIds, CreateRoom(u, id)
    PROVE  IInv'
<1> DEFINE n == created + 1
           r == NewRoom(id, u)
<1>1. /\ created \in Nat /\ created' = n /\ n \in Nat /\ n # None
      /\ Objects' = Objects \cup {n} /\ n \notin Objects
      /\ dir[id] = None /\ RoomsOf(u) = {}
      /\ dir' = [dir EXCEPT ![id] = n]
  BY Parts DEF CreateRoom, Objects, None
<1>2. /\ r \in Room /\ Members(r) = {u} /\ Distinct(r.order) /\ r.id = id /\ r.ownerId = u
      /\ ~r.soloConfirmPending
  BY NewRoomType
<1>3. /\ heap' = [o \in Objects \cup {n} |-> IF o \in Objects THEN heap[o] ELSE r]
      /\ heap'[n] = r
      /\ \A o \in Objects : heap'[o] = heap[o]
  BY <1>1 DEF CreateRoom, Objects
<1> HIDE DEF r, n
<1>4. TypeOK'
  <2>1. heap' \in [Objects \cup {n} -> Room]
    BY <1>2, <1>3, Parts
  <2>2. dir' \in [RoomIds -> Objects' \cup {None}]
    BY <1>1, Parts
  <2>3. calls' \in [Slots -> Call' \cup {Idle}]
    <3>1. Call \subseteq Call'
      BY <1>1 DEF Call
    <3>2. QED  BY <3>1, Parts DEF CreateRoom
  <2>4. sweep' \in Sweeps /\ Sweeps \subseteq Sweeps'
    BY <1>1, Parts DEF CreateRoom, Sweeps
  <2>5. view' \in Views
    <3>1. [state |-> Selecting(NoChart), host |-> TRUE] \in [state: RoomState, host: BOOLEAN]
      BY StatesTyped DEF ChartOrNone
    <3>2. QED  BY <3>1, Parts DEF CreateRoom, Views
  <2>6. globalLocked' \in BOOLEAN
    BY Parts DEF CreateRoom
  <2>7. QED  BY <1>1, <2>1, <2>2, <2>3, <2>4, <2>5, <2>6 DEF TypeOK, Sweeps, Views
<1>5. OwnerIsMember'
  <2>1. ASSUME NEW i \in RoomIds, dir'[i] # None, i # id
        PROVE  heap'[dir'[i]].id = i /\ heap'[dir'[i]].ownerId \in Members(heap'[dir'[i]])
    <3>1. dir'[i] = dir[i] /\ dir[i] \in Objects
      BY <1>1, <2>1, Parts
    <3>2. QED  BY <1>3, <2>1, <3>1 DEF IInv, OwnerIsMember
  <2>2. dir'[id] = n
    BY <1>1, Parts
  <2>3. heap'[dir'[id]].id = id /\ heap'[dir'[id]].ownerId \in Members(heap'[dir'[id]])
    BY <1>2, <1>3, <2>2
  <2>4. QED  BY <2>1, <2>3 DEF OwnerIsMember, Members
<1>6. OneRoomPerUser'
  <2>1. \A o \in Objects : Listed(o)' => Listed(o)
    BY <1>1, <1>3, Parts DEF Listed, Room
  <2>2. \A w \in Users : RoomsOf(w)' \subseteq RoomsOf(w) \cup {n}
    BY <1>1, <1>3, <2>1 DEF RoomsOf
  <2>3. \A w \in Users : w # u => n \notin RoomsOf(w)'
    BY <1>2, <1>3 DEF RoomsOf
  <2>4. \A w \in Users : \A o, p \in RoomsOf(w)' : o = p
    <3>1. \A w \in Users : \A o, p \in RoomsOf(w) : o = p
      BY DEF IInv, OneRoomPerUser
    <3>2. QED  BY <1>1, <2>2, <2>3, <3>1
  <2>5. \A o \in Objects' : Distinct(heap'[o].order)
    BY <1>1, <1>2, <1>3 DEF IInv, OneRoomPerUser, Distinct
  <2>6. QED  BY <2>4, <2>5 DEF OneRoomPerUser, Distinct
<1>7. SoloMeansAlone'
  BY <1>1, <1>2, <1>3 DEF IInv, SoloMeansAlone
<1>8. QED  BY <1>4, <1>5, <1>6, <1>7 DEF IInv

LEMMA JoinRoomInvariant ==
    ASSUME IInv, NEW u \in Users, NEW id \in RoomIds, NEW m \in BOOLEAN, JoinRoom(u, id, m)
    PROVE  IInv'
<1> DEFINE o == dir[id]
           r == AddPlayer(heap[o], u, m)
<1>1. /\ created' = created /\ dir' = dir /\ o # None /\ o \in Objects /\ RoomsOf(u) = {}
      /\ heap' = [heap EXCEPT ![o] = r]
      /\ view' = [view EXCEPT ![u] = [state |-> heap[o].state, host |-> FALSE]]
      /\ Objects' = Objects
  BY Parts DEF JoinRoom, Objects
<1>2. heap[o] \in Room /\ heap[o].id = id /\ Listed(o) /\ heap[o].ownerId \in Members(heap[o])
  BY <1>1, Parts DEF IInv, OwnerIsMember, Listed
<1>3. u \notin Members(heap[o])
  BY <1>1, <1>2 DEF RoomsOf
<1>4. /\ r \in Room /\ r.id = id /\ r.ownerId = heap[o].ownerId
      /\ r.order = Append(heap[o].order, u)
      /\ ~r.soloConfirmPending
  BY <1>2, AddPlayerType
<1> HIDE DEF r
<1>5. /\ heap' \in [Objects -> Room] /\ heap'[o] = r
      /\ \A x \in Objects \ {o} : heap'[x] = heap[x]
  BY <1>1, <1>4, Parts
<1>6. Members(r) = Members(heap[o]) \cup {u} /\ Distinct(r.order)
  <2>1. heap[o].order \in Seq(Users) /\ Distinct(heap[o].order)
    BY <1>1, <1>2 DEF IInv, OneRoomPerUser, Distinct, Room
  <2>2. Members(heap[o]) = Elems(heap[o].order) /\ Members(r) = Elems(r.order)
    BY DEF Members, Elems
  <2>3. QED  BY <1>3, <1>4, <2>1, <2>2, AppendMembers
<1> HIDE DEF o
<1>7. TypeOK'
  <2>1. [state |-> heap[o].state, host |-> FALSE] \in [state: RoomState, host: BOOLEAN]
    BY <1>2 DEF Room
  <2>2. view' \in Views
    BY <1>1, <2>1, Parts DEF Views
  <2>3. Call' = Call
    BY <1>1 DEF Call
  <2>4. QED  BY <1>1, <1>5, <2>2, <2>3, Parts DEF JoinRoom, TypeOK, Sweeps, Views
<1>8. OwnerIsMember'
  <2>1. ASSUME NEW i \in RoomIds, dir[i] # None
        PROVE  heap'[dir[i]].id = i /\ heap'[dir[i]].ownerId \in Members(heap'[dir[i]])
    <3>1. /\ dir[i] \in Objects
          /\ heap[dir[i]].id = i /\ heap[dir[i]].ownerId \in Members(heap[dir[i]])
      BY <2>1, Parts DEF IInv, OwnerIsMember
    <3>2. QED  BY <1>2, <1>4, <1>5, <1>6, <3>1
  <2>2. QED  BY <1>1, <2>1 DEF OwnerIsMember, Members
<1>9. OneRoomPerUser'
  <2>1. \A x \in Objects : Listed(x)' = Listed(x)
    BY <1>1, <1>2, <1>4, <1>5 DEF Listed
  <2>2. \A w \in Users : w # u => RoomsOf(w)' = RoomsOf(w)
    BY <1>1, <1>5, <1>6, <2>1 DEF RoomsOf
  <2>3. RoomsOf(u)' \subseteq {o}
    BY <1>1, <1>5, <2>1 DEF RoomsOf
  <2>4. \A w \in Users : \A x, y \in RoomsOf(w)' : x = y
    <3>1. \A w \in Users : \A x, y \in RoomsOf(w) : x = y
      BY DEF IInv, OneRoomPerUser
    <3>2. QED  BY <2>2, <2>3, <3>1
  <2>5. \A x \in Objects' : Distinct(heap'[x].order)
    BY <1>1, <1>5, <1>6 DEF IInv, OneRoomPerUser, Distinct
  <2>6. QED  BY <2>4, <2>5 DEF OneRoomPerUser, Distinct
<1>10. SoloMeansAlone'
  BY <1>1, <1>4, <1>5 DEF IInv, SoloMeansAlone
<1>11. QED  BY <1>7, <1>8, <1>9, <1>10 DEF IInv

(* Commands that change one room but move nobody. *)
LEMMA OwnerCommands ==
    ASSUME IInv, NEW u \in Users, NEW b \in BOOLEAN, LockRoom(u, b) \/ CycleRoom(u, b)
    PROVE  IInv'
<1>1. PICK o \in Objects : \/ heap' = [heap EXCEPT ![o].locked = b]
                           \/ heap' = [heap EXCEPT ![o].cycle = b]
  BY Parts DEF LockRoom, CycleRoom
<1>2. heap[o] \in Room
  BY Parts
<1>3. PICK s : s \in {[heap[o] EXCEPT !.locked = b], [heap[o] EXCEPT !.cycle = b]}
               /\ heap' = [heap EXCEPT ![o] = s]
  BY <1>1, Parts
<1>4. Keeps(heap[o], s)
  BY <1>2, <1>3 DEF Keeps, Room
<1>5. created' = created /\ dir' = dir /\ globalLocked' = globalLocked /\ sweep' = sweep
      /\ calls' = calls /\ view' = view
  BY DEF LockRoom, CycleRoom
<1>6. QED  BY <1>3, <1>4, <1>5, Parts, QuietRoom

LEMMA RoomSettings ==
    ASSUME IInv, NEW id \in RoomIds, NEW n \in Nat,
           ToggleRoomLock(id) \/ ToggleRoomMode(id) \/ SetRoomMaxPlayers(id, n)
    PROVE  IInv'
<1> DEFINE o == dir[id]
<1>1. o \in Objects
  BY Parts DEF ToggleRoomLock, ToggleRoomMode, SetRoomMaxPlayers
<1>2. heap[o] \in Room
  BY <1>1, Parts
<1>3. PICK s : /\ s \in {[heap[o] EXCEPT !.locked = ~@], [heap[o] EXCEPT !.cycle = ~@],
                         [heap[o] EXCEPT !.maxPlayers = n]}
               /\ heap' = [heap EXCEPT ![o] = s]
  BY <1>1, Parts DEF ToggleRoomLock, ToggleRoomMode, SetRoomMaxPlayers
<1>4. Keeps(heap[o], s)
  <2>1. (~heap[o].locked) \in BOOLEAN /\ (~heap[o].cycle) \in BOOLEAN /\ n \in Nat
    OBVIOUS
  <2>2. \A b \in BOOLEAN : /\ Keeps(heap[o], [heap[o] EXCEPT !.locked = b])
                           /\ Keeps(heap[o], [heap[o] EXCEPT !.cycle = b])
                           /\ Keeps(heap[o], [heap[o] EXCEPT !.maxPlayers = n])
    BY <1>2 DEF Keeps, Room
  <2>3. QED  BY <1>3, <2>1, <2>2
<1>5. created' = created /\ dir' = dir /\ globalLocked' = globalLocked /\ sweep' = sweep
      /\ calls' = calls /\ view' = view
  BY DEF ToggleRoomLock, ToggleRoomMode, SetRoomMaxPlayers
<1>6. QED  BY <1>1, <1>3, <1>4, <1>5, Parts, QuietRoom

(* Steps that only start or drop a call, close a room or set the lock.     *)
LEMMA CallsOnly ==
    ASSUME IInv, UNCHANGED <<created, heap, dir, globalLocked, view>>,
           calls' \in [Slots -> Call \cup {Idle}], sweep' \in Sweeps
    PROVE  IInv'
<1>1. \A id \in RoomIds : dir'[id] \in {dir[id], None}
  OBVIOUS
<1>2. \A o \in Objects : Keeps(heap[o], heap'[o])
  BY Parts
<1>3. QED  BY <1>1, <1>2, Parts, QuietInvariant

LEMMA CallSteps ==
    ASSUME IInv, NEW u \in Users, NEW s \in Slots,
           \/ \E c \in Charts : SelectChart(u, c, s)
           \/ Played(u, s)
           \/ FetchFails(s)
    PROVE  IInv'
<1>1. CASE \E c \in Charts : SelectChart(u, c, s)
  <2>1. PICK c \in Charts, o \in Objects :
            calls' = [calls EXCEPT ![s] = [kind |-> "chart", room |-> o, chart |-> c]]
    BY <1>1, Parts DEF SelectChart
  <2>2. [kind |-> "chart", room |-> o, chart |-> c] \in Call
    BY DEF Call
  <2>3. UNCHANGED <<created, heap, dir, globalLocked, sweep, view>>
    BY <1>1 DEF SelectChart
  <2>4. QED  BY <2>1, <2>2, <2>3, Parts, CallsOnly
<1>2. CASE Played(u, s)
  <2>1. PICK o \in Objects :
            calls' = [calls EXCEPT ![s] = [kind |-> "record", room |-> o, user |-> u, same |-> TRUE]]
    BY <1>2, Parts DEF Played
  <2>2. [kind |-> "record", room |-> o, user |-> u, same |-> TRUE] \in Call
    BY DEF Call
  <2>3. UNCHANGED <<created, heap, dir, globalLocked, sweep, view>>
    BY <1>2 DEF Played
  <2>4. QED  BY <2>1, <2>2, <2>3, Parts, CallsOnly
<1>3. CASE FetchFails(s)
  BY <1>3, Parts, CallsOnly DEF FetchFails
<1>4. QED  BY <1>1, <1>2, <1>3

LEMMA ChartFetchedInvariant ==
    ASSUME IInv, NEW s \in Slots, ChartFetched(s)
    PROVE  IInv'
<1> DEFINE o == calls[s].room
           c == calls[s].chart
           t == dir[heap[o].id]
<1>1. calls[s] \in [kind: {"chart"}, room: Objects, chart: Charts]
  <2>1. calls[s] \in Call \cup {Idle} /\ calls[s].kind = "chart"
    BY Parts DEF ChartFetched
  <2>2. QED  BY <2>1 DEF Call, Idle
<1>2. o \in Objects /\ c \in Charts /\ heap[o].id \in RoomIds /\ t \in Objects \cup {None}
  BY <1>1, Parts DEF Room
<1>3. view' \in Views
  <2>1. PICK ears : view' = TellState(view, ears, Selecting(c))
    BY DEF ChartFetched
  <2>2. QED  BY <1>2, <2>1, Parts, TellTyped, StatesTyped DEF ChartOrNone
<1>4. calls' \in [Slots -> Call \cup {Idle}]
  BY Parts DEF ChartFetched
<1>5. heap' = IF t = None THEN heap ELSE [heap EXCEPT ![t] = ChartSet(heap[t], c)]
  BY Parts DEF ChartFetched
<1>6. created' = created /\ dir' = dir /\ globalLocked' = globalLocked /\ sweep' = sweep
  BY DEF ChartFetched
<1> HIDE DEF t, c
<1>7. CASE t = None
  <2>1. [heap EXCEPT ![o] = heap[o]] = heap
    BY Parts
  <2>2. QED  BY <1>2, <1>3, <1>4, <1>5, <1>6, <1>7, <2>1, Parts, QuietRoom
<1>8. CASE t # None
  <2>1. t \in Objects /\ heap[t] \in Room
    BY <1>2, <1>8, Parts
  <2>2. Selecting(c) \in RoomState /\ c \in ChartOrNone
    BY <1>2, StatesTyped DEF ChartOrNone
  <2>3. Keeps(heap[t], ChartSet(heap[t], c))
    BY <2>1, <2>2 DEF Keeps, ChartSet, Room
  <2>4. QED  BY <1>3, <1>4, <1>5, <1>6, <1>8, <2>1, <2>3, QuietRoom
<1>9. QED  BY <1>7, <1>8

(* StartPlaying and the other updates around a start keep a room. *)
LEMMA StartKeeps ==
    ASSUME NEW r \in Room, NEW rdy \in SUBSET Users, NEW fin \in SUBSET Users,
           NEW st \in RoomState
    PROVE  /\ Keeps(r, StartPlaying(r, rdy, fin))
           /\ Keeps(r, [StartPlaying(r, rdy, fin) EXCEPT !.soloConfirmPending = FALSE])
           /\ Keeps(r, [SetFlags(r, rdy, fin) EXCEPT !.state = st])
           /\ Keeps(r, [SetFlags(r, rdy, fin) EXCEPT !.state = st, !.soloConfirmPending = FALSE])
           /\ Keeps(r, SetFlags(r, rdy, fin))
           /\ Keeps(r, [r EXCEPT !.ready = rdy])
           /\ Keeps(r, [r EXCEPT !.finished = fin])
           /\ Len(r.order) <= 1 => Keeps(r, [r EXCEPT !.soloConfirmPending = TRUE])
<1> DEFINE f == SetFlags(r, rdy, fin)
<1>1. /\ f \in Room
      /\ f.id = r.id /\ f.order = r.order /\ f.ownerId = r.ownerId
      /\ f.soloConfirmPending = r.soloConfirmPending
  BY FlagsType
<1> HIDE DEF f
<1>2. ASSUME NEW p \in RoomState
      PROVE  /\ Keeps(r, [f EXCEPT !.state = p])
             /\ Keeps(r, [f EXCEPT !.state = p, !.soloConfirmPending = FALSE])
  BY <1>1 DEF Keeps, Room
<1>3. [[f EXCEPT !.state = Playing] EXCEPT !.soloConfirmPending = FALSE]
        = [f EXCEPT !.state = Playing, !.soloConfirmPending = FALSE]
  OBVIOUS
<1>4. StartPlaying(r, rdy, fin) = [f EXCEPT !.state = Playing] /\ Playing \in RoomState
  BY StatesTyped DEF StartPlaying, f
<1>5. /\ Keeps(r, StartPlaying(r, rdy, fin))
      /\ Keeps(r, [StartPlaying(r, rdy, fin) EXCEPT !.soloConfirmPending = FALSE])
  BY <1>2, <1>3, <1>4
<1>6. Keeps(r, f)
  BY <1>1 DEF Keeps
<1>7. /\ Keeps(r, [r EXCEPT !.ready = rdy])
      /\ Keeps(r, [r EXCEPT !.finished = fin])
      /\ Len(r.order) <= 1 => Keeps(r, [r EXCEPT !.soloConfirmPending = TRUE])
  BY DEF Keeps, Room
<1>8. QED  BY <1>2, <1>5, <1>6, <1>7 DEF f

LEMMA RequestStartInvariant ==
    ASSUME IInv, NEW u \in Users, RequestStart(u)
    PROVE  IInv'
<1>1. PICK o \in RoomsOf(u) :
        \/ Announce(o, [SetFlags(heap[o], {u}, {}) EXCEPT !.state = Waiting])
        \/ /\ Len(heap[o].order) <= 1
           /\ heap' = [heap EXCEPT ![o].soloConfirmPending = TRUE]
           /\ view' = view
        \/ Announce(o, [StartPlaying(heap[o], {}, {}) EXCEPT !.soloConfirmPending = FALSE])
  BY DEF RequestStart
<1>2. UNCHANGED <<created, dir, globalLocked, calls, sweep>>
  BY DEF RequestStart
<1>3. o \in Objects /\ heap[o] \in Room
  BY Parts
<1>4. CASE Announce(o, [SetFlags(heap[o], {u}, {}) EXCEPT !.state = Waiting])
  <2>1. Keeps(heap[o], [SetFlags(heap[o], {u}, {}) EXCEPT !.state = Waiting])
    BY <1>3, StartKeeps, StatesTyped
  <2>2. QED  BY <1>2, <1>3, <1>4, <2>1, Announced
<1>5. CASE /\ Len(heap[o].order) <= 1
           /\ heap' = [heap EXCEPT ![o].soloConfirmPending = TRUE]
           /\ view' = view
  <2> DEFINE r == [heap[o] EXCEPT !.soloConfirmPending = TRUE]
  <2>1. Keeps(heap[o], r)
    BY <1>3, <1>5, StartKeeps, StatesTyped
  <2>2. heap' = [heap EXCEPT ![o] = r]
    BY <1>3, <1>5, Parts
  <2> HIDE DEF r
  <2>3. QED  BY <1>2, <1>3, <1>5, <2>1, <2>2, Parts, QuietRoom
<1>6. CASE Announce(o, [StartPlaying(heap[o], {}, {}) EXCEPT !.soloConfirmPending = FALSE])
  <2>1. Keeps(heap[o], [StartPlaying(heap[o], {}, {}) EXCEPT !.soloConfirmPending = FALSE])
    BY <1>3, StartKeeps, StatesTyped
  <2>2. QED  BY <1>2, <1>3, <1>6, <2>1, Announced
<1>7. QED  BY <1>1, <1>4, <1>5, <1>6

LEMMA ReadyInvariant ==
    ASSUME IInv, NEW u \in Users, Ready(u)
    PROVE  IInv'
<1>1. PICK o \in RoomsOf(u) :
        LET rdy == heap[o].ready \cup {u}
        IN  \/ Announce(o, StartPlaying(heap[o], rdy, {}))
            \/ heap' = [heap EXCEPT ![o].ready = rdy] /\ view' = view
  BY DEF Ready
<1>2. UNCHANGED <<created, dir, globalLocked, calls, sweep>>
  BY DEF Ready
<1>3. o \in Objects /\ heap[o] \in Room
  BY Parts
<1> DEFINE rdy == heap[o].ready \cup {u}
<1>4. rdy \in SUBSET Users
  BY <1>3 DEF Room
<1> HIDE DEF rdy
<1>5. /\ Keeps(heap[o], StartPlaying(heap[o], rdy, {}))
      /\ Keeps(heap[o], [heap[o] EXCEPT !.ready = rdy])
  BY <1>3, <1>4, StartKeeps, StatesTyped
<1>6. CASE Announce(o, StartPlaying(heap[o], rdy, {}))
  BY <1>2, <1>3, <1>5, <1>6, Announced
<1>7. CASE heap' = [heap EXCEPT ![o].ready = rdy] /\ view' = view
  <2>1. heap' = [heap EXCEPT ![o] = [heap[o] EXCEPT !.ready = rdy]]
    BY <1>3, <1>7, Parts
  <2>2. QED  BY <1>2, <1>3, <1>5, <1>7, <2>1, Parts, QuietRoom
<1>8. QED  BY <1>1, <1>6, <1>7 DEF rdy

LEMMA CancelReadyInvariant ==
    ASSUME IInv, NEW u \in Users, CancelReady(u)
    PROVE  IInv'
<1>1. PICK o \in RoomsOf(u) :
        \/ Announce(o, [ClearFlags(heap[o]) EXCEPT !.state = Selecting(heap[o].selectedChart),
                                                  !.soloConfirmPending = FALSE])
        \/ /\ heap' = [heap EXCEPT ![o] =
                         SetFlags(heap[o], heap[o].ready \ {u}, heap[o].finished \ {u})]
           /\ view' = view
  BY DEF CancelReady
<1>2. UNCHANGED <<created, dir, globalLocked, calls, sweep>>
  BY DEF CancelReady
<1>3. o \in Objects /\ heap[o] \in Room
  BY Parts
<1> DEFINE st == Selecting(heap[o].selectedChart)
           f == SetFlags(heap[o], heap[o].ready \ {u}, heap[o].finished \ {u})
<1>4. st \in RoomState
  BY <1>3, StatesTyped DEF Room
<1>5. Keeps(heap[o], [ClearFlags(heap[o]) EXCEPT !.state = st, !.soloConfirmPending = FALSE])
  <2> HIDE DEF st
  <2>1. QED  BY <1>3, <1>4, StartKeeps DEF ClearFlags
<1>6. Keeps(heap[o], f)
  <2>1. heap[o].ready \ {u} \in SUBSET Users /\ heap[o].finished \ {u} \in SUBSET Users
    BY <1>3 DEF Room
  <2>2. QED  BY <1>3, <2>1, StartKeeps, StatesTyped
<1>7. CASE Announce(o, [ClearFlags(heap[o]) EXCEPT !.state = st, !.soloConfirmPending = FALSE])
  BY <1>2, <1>3, <1>5, <1>7, Announced
<1>8. CASE heap' = [heap EXCEPT ![o] = f] /\ view' = view
  <2> HIDE DEF f
  <2>1. QED  BY <1>2, <1>3, <1>6, <1>8, Parts, QuietRoom
<1>9. QED  BY <1>1, <1>7, <1>8

LEMMA AbortInvariant ==
    ASSUME IInv, NEW u \in Users, Abort(u)
    PROVE  IInv'
<1>1. PICK o \in RoomsOf(u) :
        LET h == [heap EXCEPT ![o].finished = @ \cup {u}]
        IN  /\ heap' = Settled(h, o)
            /\ view' = SettledView(view, h, o, Members(h[o]))
  BY DEF Abort
<1>2. UNCHANGED <<created, dir, globalLocked, calls, sweep>>
  BY DEF Abort
<1>3. o \in Objects /\ heap[o] \in Room
  BY Parts
<1> DEFINE fin == heap[o].finished \cup {u}
           r == [heap[o] EXCEPT !.finished = fin]
<1>4. fin \in SUBSET Users
  BY <1>3 DEF Room
<1>5. [heap EXCEPT ![o].finished = @ \cup {u}] = [heap EXCEPT ![o] = r]
  BY <1>3, Parts
<1> HIDE DEF fin
<1>6. Keeps(heap[o], r)
  BY <1>3, <1>4, StartKeeps, StatesTyped
<1> HIDE DEF r
<1>7. QED  BY <1>1, <1>2, <1>3, <1>5, <1>6, Parts, QuietSettled

LEMMA RecordFetchedInvariant ==
    ASSUME IInv, NEW s \in Slots, RecordFetched(s)
    PROVE  IInv'
<1> DEFINE o == calls[s].room
           u == calls[s].user
           fin == heap[o].finished \cup {u}
           r == IF calls[s].same THEN [heap[o] EXCEPT !.finished = fin] ELSE heap[o]
<1>1. calls[s] \in [kind: {"record"}, room: Objects, user: Users, same: BOOLEAN]
  <2>1. calls[s] \in Call \cup {Idle} /\ calls[s].kind = "record"
    BY Parts DEF RecordFetched
  <2>2. QED  BY <2>1 DEF Call, Idle
<1>2. o \in Objects /\ u \in Users /\ heap[o] \in Room
  BY <1>1, Parts
<1>3. (IF calls[s].same THEN [heap EXCEPT ![o].finished = @ \cup {u}] ELSE heap)
        = [heap EXCEPT ![o] = r]
  BY <1>2, Parts
<1>4. PICK ears : /\ heap' = Settled([heap EXCEPT ![o] = r], o)
                  /\ view' = SettledView(view, [heap EXCEPT ![o] = r], o, ears)
  BY <1>3 DEF RecordFetched
<1>5. fin \in SUBSET Users
  BY <1>2 DEF Room
<1>6. calls' \in [Slots -> Call \cup {Idle}] /\ UNCHANGED <<created, dir, globalLocked, sweep>>
  BY Parts DEF RecordFetched
<1> HIDE DEF fin
<1>7. Keeps(heap[o], r)
  <2>1. Keeps(heap[o], [heap[o] EXCEPT !.finished = fin])
    BY <1>2, <1>5, StartKeeps, StatesTyped
  <2>2. QED  BY <1>2, <2>1, Parts
<1> HIDE DEF r
<1>8. QED  BY <1>2, <1>4, <1>6, <1>7, QuietSettled

LEMMA ForceStartInvariant ==
    ASSUME IInv, NEW id \in RoomIds, ForceStart(id)
    PROVE  IInv'
<1> DEFINE o == dir[id]
           fin == Members(heap[o]) \ (heap[o].ready \cup {heap[o].ownerId})
<1>1. o \in Objects /\ heap[o] \in Room
  BY Parts DEF ForceStart
<1>2. fin \in SUBSET Users
  BY <1>1 DEF Members, Room
<1>3. Announce(o, StartPlaying(heap[o], {}, fin))
      /\ UNCHANGED <<created, dir, globalLocked, calls, sweep>>
  BY DEF ForceStart
<1> HIDE DEF o, fin
<1>4. Keeps(heap[o], StartPlaying(heap[o], {}, fin))
  BY <1>1, <1>2, StartKeeps, StatesTyped
<1>5. QED  BY <1>1, <1>3, <1>4, Announced

LEMMA CloseRoomInvariant ==
    ASSUME IInv, NEW id \in RoomIds, CloseRoom(id)
    PROVE  IInv'
<1>1. dir' \in [RoomIds -> Objects \cup {None}] /\ \A i \in RoomIds : dir'[i] \in {dir[i], None}
  BY Parts DEF CloseRoom
<1>2. view' \in Views
  BY Parts, StatesTyped DEF CloseRoom, Views
<1>3. UNCHANGED <<created, heap, globalLocked, calls, sweep>>
  BY DEF CloseRoom
<1>4. \A o \in Objects : Keeps(heap[o], heap'[o])
  BY <1>3, Parts
<1>5. QED  BY <1>1, <1>2, <1>3, <1>4, Parts, QuietInvariant

LEMMA SetGlobalLockedInvariant ==
    ASSUME IInv, NEW b \in BOOLEAN, SetGlobalLocked(b)
    PROVE  IInv'
<1>1. UNCHANGED <<created, heap, dir, calls, sweep, view>> /\ globalLocked' \in BOOLEAN
  BY DEF SetGlobalLocked
<1>2. \A o \in Objects : Keeps(heap[o], heap'[o])
  BY <1>1, Parts
<1>3. \A id \in RoomIds : dir'[id] \in {dir[id], None}
  BY <1>1
<1>4. QED  BY <1>1, <1>2, <1>3, Parts, QuietInvariant

LEMMA SetListInvariant ==
    ASSUME IInv, NEW id \in RoomIds, NEW kind \in {"blacklist", "whitelist"}, NEW list \in Lists,
           NEW s \in Slots, SetList(id, kind, list, s)
    PROVE  IInv'
<1> DEFINE o == dir[id]
           r == IF kind = "blacklist" THEN [heap[o] EXCEPT !.blacklist = list]
                ELSE [heap[o] EXCEPT !.whitelist = list]
           c == [kind |-> kind, room |-> o, list |-> list]
<1>1. o \in Objects /\ heap[o] \in Room /\ list \in SUBSET Users
  BY Parts DEF SetList
<1>2. heap' = [heap EXCEPT ![o] = r]
  BY <1>1, Parts DEF SetList
<1>3. c \in Call
  BY <1>1 DEF Call
<1>4. calls' = [calls EXCEPT ![s] = c] /\ UNCHANGED <<created, dir, globalLocked, sweep, view>>
  BY DEF SetList
<1>5. Keeps(heap[o], r)
  BY <1>1 DEF Keeps, Room
<1> HIDE DEF o, r, c
<1>6. calls' \in [Slots -> Call \cup {Idle}]
  BY <1>3, <1>4, Parts
<1>7. QED  BY <1>1, <1>2, <1>4, <1>5, <1>6, Parts, QuietRoom

LEMMA NamesFetchedInvariant ==
    ASSUME IInv, NEW s \in Slots, NamesFetched(s)
    PROVE  IInv'
<1> DEFINE c == calls[s]
           w == [kind |-> c.kind, room |-> c.room, list |-> c.list, todo |-> heap[c.room].order]
<1>1. c \in [kind: {"blacklist", "whitelist"}, room: Objects, list: SUBSET Users]
  <2>1. c \in Call \cup {Idle} /\ c.kind \in {"blacklist", "whitelist"}
    BY Parts DEF NamesFetched
  <2>2. QED  BY <2>1 DEF Call, Idle
<1>2. heap[c.room].order \in Seq(Users)
  BY <1>1, Parts DEF Room
<1>3. w \in Sweeps
  BY <1>1, <1>2 DEF Sweeps
<1>4. NoSweep \in Sweeps
  BY DEF NoSweep, Sweeps
<1>5. sweep' \in Sweeps
  BY <1>3, <1>4 DEF NamesFetched
<1>6. calls' \in [Slots -> Call \cup {Idle}] /\ UNCHANGED <<created, heap, dir, globalLocked, view>>
  BY Parts DEF NamesFetched
<1>7. QED  BY <1>5, <1>6, CallsOnly

LEMMA SweepNextInvariant ==
    ASSUME IInv, Sweeping, SweepNext
    PROVE  IInv'
<1>1. sweep.todo \in Seq(Users) /\ sweep.todo # <<>>
  BY Parts DEF Sweeping, Sweeps
<1>2. Head(sweep.todo) \in Users /\ Tail(sweep.todo) \in Seq(Users)
  BY <1>1
<1>3. sweep' \in Sweeps
  <2>1. [sweep EXCEPT !.todo = Tail(sweep.todo)] \in Sweeps
    BY <1>2, Parts DEF Sweeps
  <2>2. NoSweep \in Sweeps
    BY DEF NoSweep, Sweeps
  <2>3. QED  BY <2>1, <2>2 DEF SweepNext
<1>4. created' = created /\ globalLocked' = globalLocked
  BY DEF SweepNext
<1>5. CASE \E o \in RoomsOf(Head(sweep.todo)) : Depart(Head(sweep.todo), o, FALSE)
  BY <1>2, <1>3, <1>4, <1>5, DepartInvariant
<1>6. CASE UNCHANGED <<heap, dir, calls, view>>
  BY <1>3, <1>4, <1>6, Parts, CallsOnly
<1>7. QED  BY <1>5, <1>6 DEF SweepNext

-----------------------------------------------------------------------------
(* The inductive invariant holds at the start and is kept by every step.   *)

LEMMA InitInvariant == Init => IInv
<1> SUFFICES ASSUME Init  PROVE IInv
  OBVIOUS
<1>1. Objects = {}
  BY DEF Init, Objects
<1>2. heap \in [Objects -> Room]
  <2>1. heap = [o \in {} |-> o]
    BY DEF Init
  <2>2. QED  BY <1>1, <2>1
<1>3. TypeOK
  <2>1. sweep \in Sweeps
    BY DEF Init, Sweeps, NoSweep
  <2>2. view \in Views
    BY StatesTyped DEF Init, Views
  <2>3. created \in Nat /\ dir \in [RoomIds -> Objects \cup {None}] /\ globalLocked \in BOOLEAN
        /\ calls \in [Slots -> Call \cup {Idle}]
    BY DEF Init
  <2>4. QED  BY <1>2, <2>1, <2>2, <2>3 DEF TypeOK, Sweeps, Views
<1>4. QED
  BY <1>1, <1>3 DEF Init, IInv, OwnerIsMember, OneRoomPerUser, SoloMeansAlone, RoomsOf, None

LEMMA NextInvariant == IInv /\ [Next]_vars => IInv'
<1> SUFFICES ASSUME IInv, [Next]_vars  PROVE IInv'
  OBVIOUS
<1>1. CASE Sweeping /\ SweepNext
  BY <1>1, SweepNextInvariant
<1>2. CASE PlayerStep
  <2>1. ASSUME NEW u \in Users, NEW id \in RoomIds, CreateRoom(u, id)  PROVE IInv'
    BY <2>1, CreateRoomInvariant
  <2>2. ASSUME NEW u \in Users, NEW id \in RoomIds, NEW m \in BOOLEAN, JoinRoom(u, id, m)  PROVE IInv'
    BY <2>2, JoinRoomInvariant
  <2>3. ASSUME NEW u \in Users, LeaveRoom(u) \/ Disconnect(u)  PROVE IInv'
    BY <2>3, Parts, DepartInvariant DEF LeaveRoom, Disconnect
  <2>4. ASSUME NEW u \in Users, NEW b \in BOOLEAN, CycleRoom(u, b)  PROVE IInv'
    BY <2>4, OwnerCommands
  <2>5. ASSUME NEW u \in Users, RequestStart(u) \/ Ready(u) \/ CancelReady(u) \/ Abort(u)  PROVE IInv'
    BY <2>5, RequestStartInvariant, ReadyInvariant, CancelReadyInvariant, AbortInvariant
  <2>6. ASSUME NEW u \in Users, NEW s \in Slots, Played(u, s) \/ \E c \in Charts : SelectChart(u, c, s)
        PROVE  IInv'
    BY <2>6, CallSteps
  <2>7. ASSUME NEW s \in Slots, ChartFetched(s) \/ RecordFetched(s) \/ FetchFails(s)  PROVE IInv'
    <3>1. ASSUME FetchFails(s)  PROVE IInv'
      BY <3>1, Parts, CallsOnly DEF FetchFails
    <3>2. QED  BY <2>7, <3>1, ChartFetchedInvariant, RecordFetchedInvariant
  <2>8. QED  BY <1>2, <2>1, <2>2, <2>3, <2>4, <2>5, <2>6, <2>7 DEF PlayerStep, Joins, Commands
<1>3. CASE AccessStep
  <2>1. ASSUME NEW u \in Users, NEW b \in BOOLEAN, LockRoom(u, b)  PROVE IInv'
    BY <2>1, OwnerCommands
  <2>2. ASSUME NEW id \in RoomIds, ToggleRoomLock(id)  PROVE IInv'
    BY <2>2, RoomSettings
  <2>3. ASSUME NEW id \in RoomIds, NEW n \in Capacities, SetRoomMaxPlayers(id, n)  PROVE IInv'
    BY <2>3, RoomSettings
  <2>4. ASSUME NEW id \in RoomIds, NEW s \in Slots, NEW list \in Lists,
               NEW kind \in {"blacklist", "whitelist"}, SetList(id, kind, list, s)
        PROVE  IInv'
    BY <2>4, SetListInvariant
  <2>5. ASSUME NEW s \in Slots, NamesFetched(s)  PROVE IInv'
    BY <2>5, NamesFetchedInvariant
  <2>6. ASSUME NEW b \in BOOLEAN, SetGlobalLocked(b)  PROVE IInv'
    BY <2>6, SetGlobalLockedInvariant
  <2>7. QED  BY <1>3, <2>1, <2>2, <2>3, <2>4, <2>5, <2>6 DEF AccessStep
<1>4. CASE AdminStep
  <2>1. ASSUME NEW id \in RoomIds, ForceStart(id)  PROVE IInv'
    BY <2>1, ForceStartInvariant
  <2>2. ASSUME NEW id \in RoomIds, ToggleRoomMode(id)  PROVE IInv'
    BY <2>2, RoomSettings
  <2>3. ASSUME NEW id \in RoomIds, CloseRoom(id)  PROVE IInv'
    BY <2>3, CloseRoomInvariant
  <2>4. ASSUME NEW u \in Users, Kick(u)  PROVE IInv'
    BY <2>4, Parts, DepartInvariant DEF Kick
  <2>5. QED  BY <1>4, <2>1, <2>2, <2>3, <2>4 DEF AdminStep
<1>5. CASE UNCHANGED vars
  BY <1>5, Parts, CallsOnly DEF vars
<1>6. QED  BY <1>1, <1>2, <1>3, <1>4, <1>5 DEF Next

(* IInv holds in every reachable state; the theorems below are its parts.  *)
THEOREM Inductive == Spec => []IInv
BY InitInvariant, NextInvariant, PTL DEF Spec

(* Every variable keeps its type, whatever the commands, late answers and  *)
(* administrators do (handlers of ProtocolHandler.ts, all together).       *)
THEOREM TypeCorrect == Spec => []TypeOK
<1>1. IInv => TypeOK
  BY DEF IInv
<1>2. QED  BY <1>1, Inductive, PTL

(* A registered room is never ownerless: ownership passes on whenever the  *)
(* owner leaves, disconnects or is kicked (removePlayerFromRoom), and the  *)
(* rotation at a game's end, even a stale one, only names a member.        *)
THEOREM OwnerAlwaysMember == Spec => []OwnerIsMember
<1>1. IInv => OwnerIsMember
  BY DEF IInv
<1>2. QED  BY <1>1, Inductive, PTL

(* No user is ever in two registered rooms, so getRoomByUserId is a        *)
(* function of the user (handleCreateRoom and handleJoinRoom check it).    *)
THEOREM OneRoomAlways == Spec => []OneRoomPerUser
<1>1. IInv => OneRoomPerUser
  BY DEF IInv
<1>2. QED  BY <1>1, Inductive, PTL

(* A solo confirmation is never armed in company, so that handleRequest-   *)
(* Start skips the ready phase for a lone player only.                     *)
THEOREM SoloAlwaysAlone == Spec => []SoloMeansAlone
<1>1. IInv => SoloMeansAlone
  BY DEF IInv
<1>2. QED  BY <1>1, Inductive, PTL
=============================================================================
