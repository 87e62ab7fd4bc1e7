------------------------------ MODULE Presence ------------------------------
(***************************************************************************)
(* What logging in promises.  A user is online on one connection at a      *)
(* time, and a connection serves one user.  Logging in elsewhere moves the *)
(* user there at one stroke, the player's seat in a room included.  Who    *)
(* goes offline has left the room, and nobody plays who is not online.     *)
(* There are no sockets here, no tokens under way and no close events.     *)
(***************************************************************************)
CONSTANTS Users, Conns, NoConn

VARIABLES
    online,   \* online[u]: the connection on which u is logged in, or NoConn
    seat      \* seat[u]: the connection to which the room of u sends, or NoConn

vars == <<online, seat>>

Init ==
    /\ online = [u \in Users |-> NoConn]
    /\ seat = [u \in Users |-> NoConn]

LogIn(u, c) ==
    /\ \A v \in Users : online[v] # c
    /\ online' = [online EXCEPT ![u] = c]
    /\ seat' = [seat EXCEPT ![u] = IF @ = NoConn THEN NoConn ELSE c]

LogOut(u) ==
    /\ online[u] # NoConn
    /\ online' = [online EXCEPT ![u] = NoConn]
    /\ seat' = [seat EXCEPT ![u] = NoConn]

Enter(u) ==
    /\ online[u] # NoConn
    /\ seat[u] = NoConn
    /\ seat' = [seat EXCEPT ![u] = online[u]]
    /\ online' = online

(* Some leave, are kicked, or their room is closed. *)
Leave(us) ==
    /\ seat' = [u \in Users |-> IF u \in us THEN NoConn ELSE seat[u]]
    /\ online' = online

Next ==
    \/ \E u \in Users : LogOut(u) \/ Enter(u) \/ \E c \in Conns : LogIn(u, c)
    \/ \E us \in SUBSET Users : Leave(us)

Spec == Init /\ [][Next]_vars
=============================================================================
