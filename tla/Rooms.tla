------------------------------- MODULE Rooms -------------------------------
(***************************************************************************)
(* The data of src/src/domain/rooms/RoomManager.ts: what a Room object     *)
(* holds and what each RoomManager method does to one.  The operators here *)
(* are pure; RoomServer applies them to the heap of room objects.          *)
(*                                                                         *)
(* room.players is a JavaScript Map.  Its insertion order decides who      *)
(* becomes the owner, so it is kept as a duplicate-free sequence of users  *)
(* ("order"); the per-player flags are sets of users.  Scores, names,      *)
(* avatars, the message history and lastGameChart are only displayed and   *)
(* are left out.                                                           *)
(***************************************************************************)
EXTENDS Integers, Sequences

CONSTANTS
    Users,        \* user ids
    RoomIds,      \* the ids clients pick for rooms
    Charts,       \* chart ids
    NoChart,      \* a chart that has not been selected: undefined, or null in a state
    RoomSize      \* the configured room size (ROOM_SIZE)

ASSUME NoChartAssumption == NoChart \notin Charts
ASSUME RoomSizeAssumption == RoomSize \in Nat

ChartOrNone == Charts \cup {NoChart}

(* RoomState: SelectChart carries the id of the chart, the others nothing. *)
Selecting(c) == [type |-> "SelectChart", chartId |-> c]
Waiting      == [type |-> "WaitingForReady", chartId |-> NoChart]
Playing      == [type |-> "Playing", chartId |-> NoChart]

RoomState == [type: {"SelectChart", "WaitingForReady", "Playing"}, chartId: ChartOrNone]

Room == [id: RoomIds,
         order: Seq(Users),
         ownerId: Users,
         monitors: SUBSET Users,    \* user.monitor, chosen at each join
         ready: SUBSET Users,       \* isReady
         finished: SUBSET Users,    \* isFinished
         maxPlayers: Nat,
         state: RoomState,
         locked: BOOLEAN,
         cycle: BOOLEAN,
         selectedChart: ChartOrNone,
         soloConfirmPending: BOOLEAN,
         blacklist: SUBSET Users,
         whitelist: SUBSET Users]

-----------------------------------------------------------------------------
Members(r) == {r.order[i] : i \in DOMAIN r.order}
Active(r)  == Members(r) \ r.monitors

(* The Map after delete(u): the other keys keep their order. *)
Without(s, u) ==
    LET p == CHOOSE i \in DOMAIN s : s[i] = u
    IN  IF \E i \in DOMAIN s : s[i] = u
        THEN [i \in 1..(Len(s) - 1) |-> IF i < p THEN s[i] ELSE s[i + 1]]
        ELSE s

NewRoom(id, u) ==
    [id |-> id, order |-> <<u>>, ownerId |-> u, monitors |-> {}, ready |-> {}, finished |-> {},
     maxPlayers |-> RoomSize, state |-> Selecting(NoChart), locked |-> FALSE, cycle |-> FALSE,
     selectedChart |-> NoChart, soloConfirmPending |-> FALSE, blacklist |-> {}, whitelist |-> {}]

(* Slips in addPlayerToRoom: the size compared with <=, no look at the     *)
(* blacklist.  (Definitions named Slip_... are deliberate errors; each is  *)
(* listed in PROJECT.json with the property that must catch it.)           *)
Slip_OneTooMany(r, u) ==
    /\ Len(r.order) <= r.maxPlayers
    /\ ~r.locked
    /\ u \notin r.blacklist
    /\ r.whitelist = {} \/ u \in r.whitelist

Slip_NoBlacklist(r, u) ==
    /\ Len(r.order) < r.maxPlayers
    /\ ~r.locked
    /\ r.whitelist = {} \/ u \in r.whitelist

(* The conditions under which addPlayerToRoom returns true. *)
Admits(r, u) ==
    /\ Len(r.order) < r.maxPlayers
    /\ ~r.locked
    /\ u \notin r.blacklist
    /\ r.whitelist = {} \/ u \in r.whitelist

Slip_SoloStaysArmed(r, u, monitor) ==
    [r EXCEPT !.order = Append(@, u),
              !.monitors = IF monitor THEN @ \cup {u} ELSE @ \ {u},
              !.ready = @ \ {u},
              !.finished = @ \ {u}]

AddPlayer(r, u, monitor) ==
    [r EXCEPT !.order = Append(@, u),
              !.monitors = IF monitor THEN @ \cup {u} ELSE @ \ {u},
              !.ready = @ \ {u},
              !.finished = @ \ {u},
              !.soloConfirmPending = FALSE]

(* players.delete, and the first remaining key inherits an owner's room.   *)
(* That an emptied room leaves the directory is in RoomServer.             *)
RemovePlayer(r, u) ==
    LET rest == Without(r.order, u)
    IN  [r EXCEPT !.order = rest,
                  !.ownerId = IF @ = u /\ rest # <<>> THEN Head(rest) ELSE @,
                  !.monitors = @ \ {u},
                  !.ready = @ \ {u},
                  !.finished = @ \ {u}]

(* Every player: isReady = (in rdy), isFinished = (in fin). *)
SetFlags(r, rdy, fin) == [r EXCEPT !.ready = rdy, !.finished = fin]

ClearFlags(r) == SetFlags(r, {}, {})

-----------------------------------------------------------------------------
(* endGame: who is next when the room cycles, as positions in the order.   *)
(* After the last active player comes the first one; a monitor owner is    *)
(* not in the rotation (indexOf gives -1), so the first one follows it.    *)
Turns(r) == {i \in DOMAIN r.order : r.order[i] \notin r.monitors}

Rotates(r) == r.cycle /\ \E i, j \in Turns(r) : i # j

NextHost(r) ==
    LET later == {i \in Turns(r) : \E p \in Turns(r) : r.order[p] = r.ownerId /\ p < i}
        turns == IF later # {} THEN later ELSE Turns(r)
        first == CHOOSE i \in turns : \A j \in turns : i <= j
    IN  r.order[first]

Slip_ChartFieldMissing(a, r) ==
    IF r.cycle
    THEN [a EXCEPT !.ownerId = IF Rotates(r) /\ NextHost(r) \in Members(a) THEN NextHost(r) ELSE @,
                   !.state = Waiting]
    ELSE [a EXCEPT !.state = [type |-> "SelectChart"], !.soloConfirmPending = FALSE]

Slip_ChartForgotten(a, r) ==
    IF r.cycle
    THEN [a EXCEPT !.ownerId = IF Rotates(r) /\ NextHost(r) \in Members(a) THEN NextHost(r) ELSE @,
                   !.state = Waiting]
    ELSE [a EXCEPT !.state = Selecting(NoChart), !.soloConfirmPending = FALSE]

(* The new owner is not checked against the room it is to own. *)
Slip_OwnerUnchecked(a, r) ==
    IF r.cycle
    THEN [a EXCEPT !.ownerId = IF Rotates(r) THEN NextHost(r) ELSE @,
                   !.state = Waiting]
    ELSE [a EXCEPT !.state = Selecting(r.selectedChart), !.soloConfirmPending = FALSE]

(* The room that the handler holds is put back under its id. *)
Slip_RoomPutBack(a, r) ==
    IF r.cycle
    THEN [r EXCEPT !.ownerId = IF Rotates(r) THEN NextHost(r) ELSE @, !.state = Waiting]
    ELSE [r EXCEPT !.state = Selecting(r.selectedChart), !.soloConfirmPending = FALSE]

(* What endGame, called with room object r, does through setRoomState,     *)
(* changeRoomOwner and setSoloConfirmPending to the object a that is       *)
(* registered under r's id: normally r itself, another one when r is stale.*)
EndState(a, r) ==
    IF r.cycle
    THEN [a EXCEPT !.ownerId = IF Rotates(r) /\ NextHost(r) \in Members(a) THEN NextHost(r) ELSE @,
                   !.state = Waiting]
    ELSE [a EXCEPT !.state = Selecting(r.selectedChart),
                   !.soloConfirmPending = FALSE]

Slip_FirstToFinish(r) == r.state = Playing /\ Active(r) \cap r.finished # {}

GameOver(r) == r.state = Playing /\ Active(r) \subseteq r.finished
=============================================================================
