------------------------------- MODULE Lobby -------------------------------
(***************************************************************************)
(* What the rooms of a server promise to players.  An open room has        *)
(* members, one of whom is its host, and is in a game or not.  A user is   *)
(* in one room at a time and enters none in which a game is on.  The host  *)
(* changes only when it leaves or a game ends.  The last to leave closes   *)
(* the room.  There are no calls under way here, no room objects, lists,   *)
(* locks, charts or flags, and an id used again is simply a new room.      *)
(***************************************************************************)
CONSTANTS Users, RoomIds

VARIABLE rooms    \* rooms[id]: [members, host, playing] of the open room with this id

vars == <<rooms>>

Init == rooms = [id \in {} |-> {}]

In(u) == \E id \in DOMAIN rooms : u \in rooms[id].members

Becomes(id, m, h, p) ==
    rooms' = [i \in DOMAIN rooms \cup {id} |->
                IF i = id THEN [members |-> m, host |-> h, playing |-> p] ELSE rooms[i]]

Close(id) == rooms' = [i \in DOMAIN rooms \ {id} |-> rooms[i]]

Open(u, id) ==
    /\ id \notin DOMAIN rooms
    /\ ~In(u)
    /\ Becomes(id, {u}, u, FALSE)

Enter(u, id) ==
    /\ ~In(u)
    /\ ~rooms[id].playing
    /\ Becomes(id, rooms[id].members \cup {u}, rooms[id].host, FALSE)

Start(id) ==
    /\ ~rooms[id].playing
    /\ Becomes(id, rooms[id].members, rooms[id].host, TRUE)

(* The end of a game may make another member host.  The end of the game of *)
(* an earlier room with this id counts as one of this room, game or not.   *)
Stop(id, h) ==
    /\ h \in rooms[id].members
    /\ Becomes(id, rooms[id].members, h, FALSE)

(* One member leaves, another is host after it, or nobody is left.  If the *)
(* game has only waited for the one who leaves, it is over, as in Stop.    *)
Leave(u, id) ==
    LET r == rooms[id]
        rest == r.members \ {u}
    IN  /\ u \in r.members
        /\ \/ rest = {} /\ Close(id)
           \/ \E h \in rest :
                \/ /\ r.host # u => h = r.host
                   /\ Becomes(id, rest, h, r.playing)
                \/ /\ r.playing
                   /\ Becomes(id, rest, h, FALSE)

Next ==
    \/ \E u \in Users, id \in RoomIds : Open(u, id)
    \/ \E id \in DOMAIN rooms :
        \/ Start(id) \/ Close(id)
        \/ \E u \in Users : Enter(u, id) \/ Leave(u, id) \/ Stop(id, u)

Spec == Init /\ [][Next]_vars
=============================================================================
